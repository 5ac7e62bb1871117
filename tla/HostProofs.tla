------------------------------ MODULE HostProofs ------------------------------
(***************************************************************************)
(* Proofs about what a host has from the library around a run, for every   *)
(* value of the constants: the tools it gets before the run (mcp.Tools,    *)
(* the skills of a Set, and the list core.Agent makes of both), the events *)
(* it receives while a run lasts (subagent.Stream), and the chain it reads *)
(* back when the run is over (ledger.Reader).                              *)
(***************************************************************************)
EXTENDS LedgerChain, AgentTools, EventStream, OrderingProofs

-------------------------------------------------------------------------------
(* The ledger: what is written *)

\* Which events there are.
LEMMA EventsAre ==
  \A e : e \in Events <=> e \in rows \/ \E w \in Writers : Writing(w) /\ e = ev[w]
BY DEF Events

\* The same after a step.
LEMMA EventsAreNext ==
  \A e : e \in Events' <=> e \in rows' \/ \E w \in Writers : Writing(w)' /\ e = ev'[w]
BY DEF Events

\* IDs are strictly ordered, and IDs of different mints do not tie.
LEMMA IDOrder ==
  \A a, b, c \in EventID :
    /\ ~IDBefore(a, a)
    /\ IDBefore(a, b) /\ IDBefore(b, c) => IDBefore(a, c)
    /\ a.n # b.n => IDBefore(a, b) \/ IDBefore(b, a)
BY DEF IDBefore, EventID

\* A reading of a clock that was never set back is no earlier than the stamp of
\* any event.
LEMMA NowIs ==
  ASSUME TypeOK, EventInv, ClockInv, Now
  PROVE  /\ now' \in 0..MaxTime /\ setBack' \in Nat
         /\ setBack' = 0 => /\ setBack = 0 /\ Milli[now] <= Milli[now']
                            /\ \A e \in Events : e.ts <= now'
<1>1. now \in 0..MaxTime /\ now' \in 0..MaxTime /\ MaxTime \in Nat
  BY ClockAssumption DEF Now, TypeOK
<1>2. setBack' \in Nat /\ (setBack' = 0 => setBack = 0 /\ now <= now')
  BY <1>1 DEF Now, TypeOK
<1>3. now <= now' => Milli[now] <= Milli[now']
  BY <1>1, ClockAssumption
<1>4. ASSUME setBack' = 0, NEW e \in Events
      PROVE  e.ts <= now'
  <2>1. e.ts \in Nat /\ e.ts <= now
    BY <1>2, <1>4 DEF ClockInv, EventInv, Event
  <2>2. QED
    BY <1>1, <1>2, <1>4, <2>1
<1>5. QED
  BY <1>1, <1>2, <1>3, <1>4

\* A writer that is not writing mints an event: there is one more, and it is newer
\* than all unless the clock was set back.
LEMMA Minted ==
  ASSUME TypeOK, EventInv, ClockInv, NEW w \in Writers, NEW kind \in Kinds, NEW i \in IDs,
         ~Writing(w), NewEventID(w, kind, i), Goto(w, "stamp"), rows' = rows
  PROVE  /\ ev' \in [Writers -> Event \cup {NoEvent}] /\ pc' \in [Writers -> Points]
         /\ minted' \in EventID /\ now' \in 0..MaxTime /\ setBack' \in Nat
         /\ EventInv' /\ ClockInv'
         /\ setBack' = 0 => setBack = 0
         /\ \E n \in Event :
              /\ n = ev'[w] /\ n.kind = kind /\ n.call = i /\ n.by = w
              /\ \A e : e \in Events' <=> e \in Events \/ e = n
              /\ n \notin Events /\ n \notin rows
              /\ setBack' = 0 => \A e \in Events : IDBefore(e.id, n.id)
<1> DEFINE n == [id |-> minted', ts |-> 0, kind |-> kind, call |-> i, by |-> w]
<1>1. /\ now' \in 0..MaxTime /\ setBack' \in Nat
      /\ setBack' = 0 => setBack = 0 /\ Milli[now] <= Milli[now']
                         /\ \A e \in Events : e.ts <= now'
  BY NowIs DEF NewEventID
<1>2. PICK r \in Entropy(Milli[now']) : minted' = [ms |-> Milli[now'], r |-> r, n |-> minted.n + 1]
  BY DEF NewEventID
<1>3. /\ minted \in EventID /\ minted' \in EventID
      /\ minted'.ms = Milli[now'] /\ minted'.n = minted.n + 1
      /\ Milli[now'] = minted.ms => minted'.r = minted.r
  <2>1. minted \in EventID /\ Milli[now'] \in Nat
    BY <1>1, ClockAssumption DEF TypeOK
  <2>2. r \in Nat /\ (Milli[now'] = minted.ms => r = minted.r)
    BY <2>1, ClockAssumption DEF Entropy, EventID
  <2>3. QED
    BY <1>2, <2>1, <2>2 DEF EventID
<1>4. /\ n \in Event /\ n.id = minted' /\ n.kind = kind /\ n.call = i /\ n.by = w /\ n.ts = 0
  BY <1>3 DEF Event
<1>5. ev' = [ev EXCEPT ![w] = n] /\ pc' = [pc EXCEPT ![w] = "stamp"]
  BY DEF NewEventID, Goto
<1> HIDE DEF n
<1>6. /\ ev'[w] = n /\ pc'[w] = "stamp"
      /\ \A v \in Writers : v # w => ev'[v] = ev[v] /\ pc'[v] = pc[v]
  BY <1>5 DEF TypeOK
<1>7. Writing(w)' /\ \A v \in Writers : v # w => (Writing(v)' <=> Writing(v))
  BY <1>6 DEF Writing
<1>8. \A e : e \in Events' <=> e \in Events \/ e = n
  BY <1>6, <1>7, EventsAre, EventsAreNext
<1>9. \A e \in Events : e \in Event /\ e.id \in EventID /\ e.id.n \in Nat /\ e.id.n < n.id.n
  BY <1>3, <1>4 DEF EventInv, Event, EventID
<1>10. \A e \in Events : e.id.n # n.id.n /\ e # n
  BY <1>9
<1>11. rows \subseteq Events
  BY EventsAre
<1>12. ev' \in [Writers -> Event \cup {NoEvent}] /\ pc' \in [Writers -> Points]
  BY <1>4, <1>5 DEF TypeOK, Points
<1>13. EventInv'
  <2>1. \A e \in Events' : e \in Event /\ e.id.n <= minted'.n
    BY <1>3, <1>4, <1>8, <1>9 DEF EventID
  <2>2. \A e, f \in Events' : e.id.n = f.id.n => e = f
    BY <1>8, <1>10 DEF EventInv
  <2>3. \A v \in Writers : Writing(v)' => ev'[v].by = v /\ ev'[v] \notin rows'
    BY <1>4, <1>6, <1>7, <1>10, <1>11 DEF EventInv
  <2>4. QED
    BY <2>1, <2>2, <2>3 DEF EventInv
<1>14. ASSUME setBack' = 0, NEW e \in Events
       PROVE  IDBefore(e.id, n.id)
  <2>1. minted.ms <= Milli[now'] /\ minted.ms \in Nat /\ Milli[now'] \in Nat
    BY <1>1, <1>3, <1>14, ClockAssumption DEF ClockInv, EventID, TypeOK
  <2>2. IDBefore(minted, minted')
    BY <1>3, <2>1 DEF IDBefore, EventID
  <2>3. e.id = minted \/ IDBefore(e.id, minted)
    BY <1>1, <1>14 DEF ClockInv
  <2>4. QED
    BY <1>3, <1>4, <1>9, <2>2, <2>3, IDOrder
<1>15. ClockInv'
  BY <1>1, <1>3, <1>4, <1>8, <1>14, ClockAssumption DEF ClockInv, EventID
<1>16. QED
  BY <1>1, <1>3, <1>4, <1>6, <1>8, <1>10, <1>11, <1>12, <1>13, <1>14, <1>15

\* A writer stamps its event: only the time of that event changes.
LEMMA Stamped ==
  ASSUME TypeOK, EventInv, ClockInv, NEW w \in Writers, Stamp(w)
  PROVE  /\ TypeOK' /\ EventInv' /\ ClockInv'
         /\ setBack' = 0 => setBack = 0 /\ \A e \in Events : e.ts <= now'
         /\ ev[w] \in Events /\ ev[w] \notin rows
         /\ \E n \in Event :
              /\ n = ev'[w] /\ n.ts = now' /\ n.id = ev[w].id
              /\ n.kind = ev[w].kind /\ n.call = ev[w].call /\ n.by = w
              /\ \A e : e \in Events' <=> (e \in Events /\ e # ev[w]) \/ e = n
              /\ n \notin rows
<1> DEFINE n == [ev[w] EXCEPT !.ts = now']
<1>0. /\ now' \in 0..MaxTime /\ setBack' \in Nat
      /\ setBack' = 0 => /\ setBack = 0 /\ Milli[now] <= Milli[now']
                         /\ \A e \in Events : e.ts <= now'
  BY NowIs DEF Stamp
<1>1. Writing(w)
  BY DEF Stamp, Writing
<1>2. ev[w] \in Events /\ ev[w] \in Event /\ ev[w].by = w /\ ev[w] \notin rows
  BY <1>1, EventsAre DEF EventInv
<1>3. /\ n \in Event /\ n.ts = now' /\ n.id = ev[w].id /\ n.kind = ev[w].kind
      /\ n.call = ev[w].call /\ n.by = w
  BY <1>0, <1>2, ClockAssumption DEF Event
<1>4. /\ ev' = [ev EXCEPT ![w] = n] /\ pc' = [pc EXCEPT ![w] = "insert"]
      /\ UNCHANGED <<rows, callID, minted, executed, returned, retrieved>>
  BY DEF Stamp, Goto
<1> HIDE DEF n
<1>5. /\ ev'[w] = n /\ pc'[w] = "insert"
      /\ \A v \in Writers : v # w => ev'[v] = ev[v] /\ pc'[v] = pc[v]
  BY <1>4 DEF TypeOK
<1>6. \A v \in Writers : Writing(v)' <=> Writing(v)
  BY <1>1, <1>5 DEF Writing
<1>7. \A v \in Writers : Writing(v) /\ v # w => ev[v] # ev[w]
  BY <1>1 DEF EventInv
<1>8. \A e : e \in Events' <=> (e \in Events /\ e # ev[w]) \/ e = n
  BY <1>1, <1>2, <1>4, <1>5, <1>6, <1>7, EventsAre, EventsAreNext
<1>9. \A e \in Events : e # ev[w] => e.id.n # n.id.n
  BY <1>2, <1>3 DEF EventInv
<1>10. rows \subseteq Events
  BY EventsAre
<1>11. n \notin rows
  BY <1>2, <1>9, <1>10
<1>12. TypeOK'
  BY <1>0, <1>3, <1>4 DEF TypeOK, Points
<1>13. EventInv'
  <2>1. \A e \in Events' : e \in Event /\ e.id.n <= minted'.n
    BY <1>2, <1>3, <1>4, <1>8 DEF EventInv, TypeOK
  <2>2. \A e, f \in Events' : e.id.n = f.id.n => e = f
    BY <1>8, <1>9 DEF EventInv
  <2>3. \A v \in Writers : Writing(v)' => ev'[v].by = v /\ ev'[v] \notin rows'
    BY <1>3, <1>4, <1>5, <1>6, <1>11 DEF EventInv
  <2>4. QED
    BY <2>1, <2>2, <2>3 DEF EventInv
<1>14. ClockInv'
  <2>1. now \in 0..MaxTime /\ Milli[now] \in Nat /\ Milli[now'] \in Nat /\ minted.ms \in Nat
    BY <1>0, ClockAssumption DEF TypeOK, EventID
  <2>2. setBack' = 0 => minted'.ms <= Milli[now']
    BY <1>0, <1>4, <2>1 DEF ClockInv
  <2>3. ASSUME setBack' = 0, NEW e \in Events'
        PROVE  e.ts <= now' /\ (e.id = minted' \/ IDBefore(e.id, minted'))
    <3>1. CASE e = n
      BY <1>0, <1>2, <1>3, <1>4, <2>3, <3>1 DEF ClockInv
    <3>2. CASE e \in Events
      BY <1>0, <1>4, <2>3, <3>2 DEF ClockInv
    <3>3. QED
      BY <1>8, <3>1, <3>2
  <2>4. QED
    BY <2>2, <2>3 DEF ClockInv
<1>15. QED
  BY <1>0, <1>2, <1>3, <1>5, <1>8, <1>11, <1>12, <1>13, <1>14

\* A writer's event reaches the table.
LEMMA Inserted ==
  ASSUME TypeOK, EventInv, ClockInv, NEW w \in Writers, Insert(w)
  PROVE  /\ TypeOK' /\ EventInv' /\ ClockInv'
         /\ ev[w] \in Events /\ ev[w].by = w /\ ev[w] \notin rows
         /\ rows' = rows \cup {ev[w]}
         /\ Events' = Events
         /\ pc'[w] \in {"idle", "execute", "returned"} /\ pc'[w] = After(w)
         /\ \A v \in Writers : v # w => pc'[v] = pc[v] /\ ev'[v] = ev[v]
<1>1. Writing(w)
  BY DEF Insert, Writing
<1>2. ev[w] \in Events /\ ev[w] \in Event /\ ev[w].by = w /\ ev[w] \notin rows
  BY <1>1, EventsAre DEF EventInv
<1>3. After(w) \in {"idle", "execute", "returned"}
  BY DEF After
<1>4. /\ ev' = [ev EXCEPT ![w] = NoEvent] /\ pc' = [pc EXCEPT ![w] = After(w)]
      /\ rows' = rows \cup {ev[w]}
      /\ UNCHANGED <<callID, minted, now, setBack, executed, returned, retrieved>>
  BY DEF Insert, Goto
<1>5. /\ pc'[w] = After(w) /\ ~Writing(w)'
      /\ \A v \in Writers : v # w => ev'[v] = ev[v] /\ pc'[v] = pc[v] /\ (Writing(v)' <=> Writing(v))
  BY <1>3, <1>4 DEF TypeOK, Writing
<1>6. \A e : e \in Events' <=> e \in Events
  BY <1>1, <1>4, <1>5, EventsAre, EventsAreNext
<1>7. Events' = Events
  BY <1>6
<1>8. TypeOK'
  <2>1. IsFiniteSet(rows')
    BY <1>4, FS_AddElement DEF TypeOK
  <2>2. pc' \in [Writers -> Points]
    BY <1>3, <1>4 DEF TypeOK, Points
  <2>3. ev' \in [Writers -> Event \cup {NoEvent}] /\ rows' \subseteq Event
    BY <1>2, <1>4 DEF TypeOK
  <2>4. QED
    BY <1>4, <2>1, <2>2, <2>3 DEF TypeOK
<1>9. \A v \in Writers : Writing(v) /\ v # w => ev[v] # ev[w]
  BY <1>1 DEF EventInv
<1>10. EventInv'
  BY <1>4, <1>5, <1>7, <1>9 DEF EventInv
<1>11. ClockInv'
  BY <1>4, <1>7 DEF ClockInv
<1>12. QED
  BY <1>2, <1>3, <1>4, <1>5, <1>7, <1>8, <1>10, <1>11

\* A writer's event is lost.
LEMMA Dropped ==
  ASSUME TypeOK, EventInv, ClockInv, NEW w \in Writers, InsertFails(w)
  PROVE  /\ TypeOK' /\ EventInv' /\ ClockInv'
         /\ Events' \subseteq Events /\ rows' = rows
         /\ pc'[w] = (IF w = Run THEN "idle" ELSE "returned")
         /\ ~Writing(w)'
         /\ \A v \in Writers : v # w => pc'[v] = pc[v] /\ ev'[v] = ev[v]
<1>1. /\ ev' = [ev EXCEPT ![w] = NoEvent]
      /\ pc' = [pc EXCEPT ![w] = IF w = Run THEN "idle" ELSE "returned"]
      /\ UNCHANGED <<rows, callID, minted, now, setBack, executed, returned, retrieved>>
  BY DEF InsertFails, Goto
<1>2. /\ pc'[w] = (IF w = Run THEN "idle" ELSE "returned") /\ ~Writing(w)'
      /\ \A v \in Writers : v # w => ev'[v] = ev[v] /\ pc'[v] = pc[v] /\ (Writing(v)' <=> Writing(v))
  BY <1>1 DEF TypeOK, Writing
<1>3. Events' \subseteq Events
  BY <1>1, <1>2, EventsAre, EventsAreNext
<1>4. TypeOK'
  BY <1>1 DEF TypeOK, Points
<1>5. EventInv'
  BY <1>1, <1>2, <1>3 DEF EventInv
<1>6. ClockInv'
  BY <1>1, <1>3 DEF ClockInv
<1>7. QED
  BY <1>1, <1>2, <1>3, <1>4, <1>5, <1>6

\* The inductive invariant of the writers of one run.
LedgerInv == TypeOK /\ EventInv /\ ClockInv /\ IntentInv /\ OrderInv

\* The run mints its request, or a retrieval.
LEMMA RunMints ==
  ASSUME LedgerInv, Request \/ Retrieve
  PROVE  LedgerInv'
<1>1. PICK kind \in {"request", "retrieved"} :
        NewEventID(Run, kind, NoCallID) /\ Goto(Run, "stamp")
  BY DEF Request, Retrieve
<1>2. /\ UNCHANGED <<rows, callID, executed, returned>> /\ retrieved' \in Nat
      /\ ~Writing(Run) /\ Run \in Writers /\ kind \in Kinds /\ NoCallID \in IDs
  BY DEF Request, Retrieve, Writing, Writers, Kinds, IDs, LedgerInv, TypeOK
<1>3. TypeOK /\ EventInv /\ ClockInv
  BY DEF LedgerInv
<1>4. TypeOK' /\ EventInv' /\ ClockInv'
  <2>1. /\ ev' \in [Writers -> Event \cup {NoEvent}] /\ pc' \in [Writers -> Points]
        /\ minted' \in EventID /\ now' \in 0..MaxTime /\ setBack' \in Nat /\ EventInv' /\ ClockInv'
    BY <1>1, <1>2, <1>3, Minted
  <2>2. QED
    BY <1>2, <1>3, <2>1 DEF TypeOK
<1>5. PICK n \in Event :
        /\ setBack' = 0 => setBack = 0
        /\ n = ev'[Run] /\ n.kind = kind /\ n.by = Run
        /\ \A e : e \in Events' <=> e \in Events \/ e = n
        /\ n \notin rows
  BY <1>1, <1>2, <1>3, Minted
<1>6. \A c \in Calls : c # Run /\ c \in Writers
  BY ChainAssumption DEF Writers
<1>7. \A c \in Calls : pc'[c] = pc[c] /\ ev'[c] = ev[c] /\ (Writing(c)' <=> Writing(c))
  BY <1>1, <1>3, <1>6 DEF Goto, NewEventID, TypeOK, Writing
<1>8. \A e \in Events : e.by \in Writers
  BY <1>3 DEF EventInv, Event
<1>9. IntentInv'
  <2>1. ASSUME NEW e \in Events'
        PROVE  Intended(e)'
    <3>1. CASE e = n
      BY <1>5, <3>1 DEF Intended, ActionKinds
    <3>2. CASE e \in Events /\ e.by = Run
      BY <1>2, <3>2 DEF LedgerInv, IntentInv, Intended, ActionKinds
    <3>3. CASE e \in Events /\ e.by # Run
      <4>1. e.by \in Calls
        BY <1>8, <3>3 DEF Writers
      <4>2. QED
        BY <1>2, <1>7, <3>3, <4>1 DEF LedgerInv, IntentInv, Intended
    <3>4. QED
      BY <1>5, <3>1, <3>2, <3>3
  <2>2. \A e, f \in Events' :
          e.by = f.by /\ e.by # Run /\ (e.kind = "result" <=> f.kind = "result") => e = f
    BY <1>5 DEF LedgerInv, IntentInv
  <2>3. \A r \in rows' : r.kind = "action" => r.call # NoCallID
    BY <1>2 DEF LedgerInv, IntentInv
  <2>4. \A c \in Calls : Preceded(c)'
    BY <1>2, <1>7 DEF LedgerInv, IntentInv, Preceded
  <2>5. QED
    BY <2>1, <2>2, <2>3, <2>4 DEF IntentInv
<1>10. OrderInv'
  <2>1. \A c \in Calls : returned'[c] = returned[c] /\ returned[c] \in SUBSET Calls
    BY <1>2, <1>3 DEF TypeOK
  <2>2. QED
    BY <1>2, <1>5, <1>6, <1>7, <2>1 DEF LedgerInv, OrderInv
<1>11. QED
  BY <1>4, <1>9, <1>10 DEF LedgerInv

\* A call mints its intent, a denial, or after it ran its result.
LEMMA CallMints ==
  ASSUME LedgerInv, NEW c \in Calls, Deny(c) \/ AuditUnsafe(c) \/ Execute(c)
  PROVE  LedgerInv'
<1>1. PICK kind \in {"action", "denied", "result"} :
        /\ NewEventID(c, kind, callID[c]) /\ Goto(c, "stamp")
        /\ kind = "result" => pc[c] = "execute" /\ executed' = executed \cup {c}
        /\ kind # "result" => pc[c] = "gate" /\ executed' = executed /\ c \in Unsafe
  BY DEF Deny, AuditUnsafe, Execute
<1>2. /\ UNCHANGED <<rows, callID, returned, retrieved>>
      /\ ~Writing(c) /\ c \in Writers /\ c # Run /\ kind \in Kinds /\ callID[c] \in IDs
  BY <1>1, ChainAssumption
     DEF Deny, AuditUnsafe, Execute, Writing, Writers, Kinds, LedgerInv, TypeOK
<1>3. TypeOK /\ EventInv /\ ClockInv
  BY DEF LedgerInv
<1>4. TypeOK' /\ EventInv' /\ ClockInv'
  <2>1. /\ ev' \in [Writers -> Event \cup {NoEvent}] /\ pc' \in [Writers -> Points]
        /\ minted' \in EventID /\ now' \in 0..MaxTime /\ setBack' \in Nat /\ EventInv' /\ ClockInv'
    BY <1>1, <1>2, <1>3, Minted
  <2>2. QED
    BY <1>1, <1>2, <1>3, <2>1 DEF TypeOK
<1>5. PICK n \in Event :
        /\ n = ev'[c] /\ n.kind = kind /\ n.call = callID[c] /\ n.by = c
        /\ setBack' = 0 => setBack = 0 /\ \A e \in Events : IDBefore(e.id, n.id)
        /\ \A e : e \in Events' <=> e \in Events \/ e = n
        /\ n \notin rows
  BY <1>1, <1>2, <1>3, Minted
<1>6. /\ pc'[c] = "stamp"
      /\ \A d \in Writers : d # c => pc'[d] = pc[d] /\ ev'[d] = ev[d] /\ (Writing(d)' <=> Writing(d))
  BY <1>1, <1>2, <1>3 DEF Goto, NewEventID, TypeOK, Writing
<1>7. Calls \subseteq Writers
  BY DEF Writers
<1>8. \A e \in Events : e.by \in Writers
  BY <1>3 DEF EventInv, Event
<1>9. c \notin executed
  BY <1>1 DEF LedgerInv, IntentInv, Preceded
<1>10. \A e \in Events : e.by = c => e.kind = "action" /\ kind = "result"
  BY <1>1, <1>2, <1>9 DEF LedgerInv, IntentInv, Intended
<1>11. IntentInv'
  <2>1. ASSUME NEW e \in Events'
        PROVE  Intended(e)'
    <3>1. CASE e = n
      BY <1>1, <1>2, <1>5, <1>6, <1>9, <3>1 DEF Intended, ActionKinds
    <3>2. CASE e \in Events /\ e.by = c
      BY <1>2, <1>6, <1>10, <3>2 DEF LedgerInv, IntentInv, Intended
    <3>3. CASE e \in Events /\ e.by # c
      BY <1>1, <1>2, <1>6, <1>8, <3>3 DEF LedgerInv, IntentInv, Intended
    <3>4. QED
      BY <1>5, <3>1, <3>2, <3>3
  <2>2. \A e, f \in Events' :
          e.by = f.by /\ e.by # Run /\ (e.kind = "result" <=> f.kind = "result") => e = f
    BY <1>5, <1>10 DEF LedgerInv, IntentInv
  <2>3. \A r \in rows' : r.kind = "action" => r.call # NoCallID
    BY <1>2 DEF LedgerInv, IntentInv
  <2>4. ASSUME NEW d \in Calls
        PROVE  Preceded(d)'
    <3>1. CASE d = c
      BY <1>1, <1>2, <1>5, <1>6, <1>9, <3>1 DEF LedgerInv, IntentInv, Preceded
    <3>2. CASE d # c
      BY <1>1, <1>2, <1>6, <1>7, <3>2 DEF LedgerInv, IntentInv, Preceded
    <3>3. QED
      BY <3>1, <3>2
  <2>5. QED
    BY <2>1, <2>2, <2>3, <2>4 DEF IntentInv
<1>12. OrderInv'
  <2> SUFFICES ASSUME NEW b \in Calls
               PROVE  /\ pc'[b] = "unissued" => returned'[b] = {}
                      /\ \A d \in returned'[b] :
                           /\ d # b
                           /\ pc'[d] \in {"returned", "gone"}
                           /\ \A r \in rows', e \in Events' : setBack' = 0 /\ r.by = d /\ e.by = b =>
                                IDBefore(r.id, e.id) /\ (e \in rows' \/ pc'[b] = "insert" => r.ts <= e.ts)
    BY DEF OrderInv
  <2>1. pc'[b] = "unissued" => returned'[b] = {}
    BY <1>2, <1>6, <1>7 DEF LedgerInv, OrderInv
  <2>2. ASSUME NEW d \in returned'[b]
        PROVE  d \in returned[b] /\ d \in Calls /\ d # b /\ pc'[d] \in {"returned", "gone"} /\ d # c
    BY <1>1, <1>2, <1>3, <1>6, <1>7 DEF LedgerInv, OrderInv, TypeOK
  <2>3. ASSUME NEW d \in returned'[b], NEW r \in rows', NEW e \in Events', setBack' = 0, r.by = d, e.by = b
        PROVE  IDBefore(r.id, e.id) /\ (e \in rows' \/ pc'[b] = "insert" => r.ts <= e.ts)
    <3>1. r \in rows /\ r \in Events /\ d \in returned[b]
      BY <1>2, <2>2, EventsAre
    <3>2. CASE e = n
      <4>1. IDBefore(r.id, n.id)
        BY <1>5, <2>3, <3>1
      <4>2. b = c /\ pc'[b] = "stamp" /\ e \notin rows'
        BY <1>2, <1>5, <1>6, <2>3, <3>2
      <4>3. QED
        BY <1>5, <3>2, <4>1, <4>2
    <3>3. CASE e \in Events
      <4>1. pc'[b] = "insert" => pc[b] = "insert"
        BY <1>6, <1>7
      <4>2. QED
        BY <1>2, <1>5, <2>3, <3>1, <3>3, <4>1 DEF LedgerInv, OrderInv
    <3>4. QED
      BY <1>5, <3>2, <3>3
  <2>4. QED
    BY <2>1, <2>2, <2>3
<1>13. QED
  BY <1>4, <1>11, <1>12 DEF LedgerInv

\* A writer stamps its event.
LEMMA StampStep ==
  ASSUME LedgerInv, NEW w \in Writers, Stamp(w)
  PROVE  LedgerInv'
<1>1. TypeOK /\ EventInv /\ ClockInv
  BY DEF LedgerInv
<1>2. /\ TypeOK' /\ EventInv' /\ ClockInv' /\ ev[w] \in Events /\ ev[w] \notin rows
      /\ setBack' = 0 => setBack = 0 /\ \A e \in Events : e.ts <= now'
  BY <1>1, Stamped
<1>3. PICK n \in Event :
        /\ n = ev'[w] /\ n.ts = now' /\ n.id = ev[w].id
        /\ n.kind = ev[w].kind /\ n.call = ev[w].call /\ n.by = w
        /\ \A e : e \in Events' <=> (e \in Events /\ e # ev[w]) \/ e = n
        /\ n \notin rows
  BY <1>1, Stamped
<1>4. UNCHANGED <<rows, callID, minted, executed, returned>> /\ pc[w] = "stamp" /\ Writing(w)
  BY DEF Stamp, Writing
<1>5. /\ pc'[w] = "insert" /\ Writing(w)'
      /\ \A v \in Writers : v # w => pc'[v] = pc[v] /\ ev'[v] = ev[v] /\ (Writing(v)' <=> Writing(v))
  BY <1>1 DEF Stamp, Goto, TypeOK, Writing
<1>6. ev[w].by = w
  BY <1>1, <1>4 DEF EventInv
<1>7. \A e \in Events : e.by \in Writers
  BY <1>1 DEF EventInv, Event
<1>8. Calls \subseteq Writers
  BY DEF Writers
<1>9. IntentInv'
  <2>1. ASSUME NEW e \in Events'
        PROVE  Intended(e)'
    <3>1. CASE e = n
      <4>1. Intended(ev[w])
        BY <1>2 DEF LedgerInv, IntentInv
      <4>2. QED
        BY <1>3, <1>4, <1>5, <1>6, <3>1, <4>1 DEF Intended, ActionKinds
    <3>2. CASE e \in Events
      <4>1. pc'[e.by] = pc[e.by] \/ (pc'[e.by] = "insert" /\ pc[e.by] = "stamp")
        BY <1>4, <1>5, <1>7, <3>2
      <4>2. QED
        BY <1>4, <3>2, <4>1 DEF LedgerInv, IntentInv, Intended
    <3>3. QED
      BY <1>3, <3>1, <3>2
  <2>2. \A e, f \in Events' :
          e.by = f.by /\ e.by # Run /\ (e.kind = "result" <=> f.kind = "result") => e = f
    BY <1>2, <1>3, <1>6 DEF LedgerInv, IntentInv
  <2>3. \A r \in rows' : r.kind = "action" => r.call # NoCallID
    BY <1>4 DEF LedgerInv, IntentInv
  <2>4. ASSUME NEW c \in Calls
        PROVE  Preceded(c)'
    <3>1. CASE c = w
      BY <1>3, <1>4, <1>5, <3>1 DEF LedgerInv, IntentInv, Preceded
    <3>2. CASE c # w
      BY <1>4, <1>5, <1>8, <3>2 DEF LedgerInv, IntentInv, Preceded
    <3>3. QED
      BY <3>1, <3>2
  <2>5. QED
    BY <2>1, <2>2, <2>3, <2>4 DEF IntentInv
<1>10. OrderInv'
  <2> SUFFICES ASSUME NEW b \in Calls
               PROVE  /\ pc'[b] = "unissued" => returned'[b] = {}
                      /\ \A d \in returned'[b] :
                           /\ d # b
                           /\ pc'[d] \in {"returned", "gone"}
                           /\ \A r \in rows', e \in Events' : setBack' = 0 /\ r.by = d /\ e.by = b =>
                                IDBefore(r.id, e.id) /\ (e \in rows' \/ pc'[b] = "insert" => r.ts <= e.ts)
    BY DEF OrderInv
  <2>1. pc'[b] = "unissued" => returned'[b] = {}
    BY <1>4, <1>5, <1>8 DEF LedgerInv, OrderInv
  <2>2. ASSUME NEW d \in returned'[b]
        PROVE  d \in returned[b] /\ d \in Calls /\ d # b /\ pc'[d] \in {"returned", "gone"}
    BY <1>1, <1>4, <1>5, <1>8 DEF LedgerInv, OrderInv, TypeOK
  <2>3. ASSUME NEW d \in returned'[b], NEW r \in rows', NEW e \in Events', setBack' = 0, r.by = d, e.by = b
        PROVE  IDBefore(r.id, e.id) /\ (e \in rows' \/ pc'[b] = "insert" => r.ts <= e.ts)
    <3>1. r \in rows /\ r \in Events /\ d \in returned[b]
      BY <1>4, <2>2, EventsAre
    <3>2. CASE e = n
      <4>1. r.ts <= now'
        BY <1>2, <2>3, <3>1
      <4>2. b = w /\ IDBefore(r.id, ev[w].id)
        BY <1>2, <1>3, <1>6, <2>3, <3>1, <3>2 DEF LedgerInv, OrderInv
      <4>3. QED
        BY <1>3, <3>2, <4>1, <4>2
    <3>3. CASE e \in Events /\ e # ev[w]
      <4>1. CASE b = w
        <5>1. e \in rows
          BY <1>1, <2>3, <3>3, <4>1, EventsAre DEF EventInv
        <5>2. QED
          BY <1>2, <1>4, <2>3, <3>1, <3>3, <5>1 DEF LedgerInv, OrderInv
      <4>2. CASE b # w
        BY <1>2, <1>4, <1>5, <1>8, <2>3, <3>1, <3>3, <4>2 DEF LedgerInv, OrderInv
      <4>3. QED
        BY <4>1, <4>2
    <3>4. QED
      BY <1>3, <3>2, <3>3
  <2>4. QED
    BY <2>1, <2>2, <2>3
<1>11. QED
  BY <1>2, <1>9, <1>10 DEF LedgerInv

\* A writer's event reaches the table, and the writer goes on.
LEMMA InsertStep ==
  ASSUME LedgerInv, NEW w \in Writers, Insert(w)
  PROVE  LedgerInv'
<1>1. TypeOK /\ EventInv /\ ClockInv
  BY DEF LedgerInv
<1>2. /\ TypeOK' /\ EventInv' /\ ClockInv'
      /\ ev[w] \in Events /\ ev[w].by = w /\ ev[w] \notin rows
      /\ rows' = rows \cup {ev[w]}
      /\ Events' = Events
      /\ pc'[w] \in {"idle", "execute", "returned"} /\ pc'[w] = After(w)
      /\ \A v \in Writers : v # w => pc'[v] = pc[v] /\ ev'[v] = ev[v]
  BY <1>1, Inserted
<1>3. /\ UNCHANGED <<callID, setBack, executed, returned>> /\ pc[w] = "insert"
      /\ validateAction(ev[w]) /\ Writing(w)
  BY DEF Insert, Writing
<1>4. \A e \in Events : e.by \in Writers
  BY <1>1 DEF EventInv, Event
<1>5. Calls \subseteq Writers /\ Run \notin Calls
  BY ChainAssumption DEF Writers
<1>6. pc'[w] = "execute" => ev[w].kind = "action" /\ w # Run
  <2>1. w = Run => ev[w].kind # "action"
    BY <1>2 DEF LedgerInv, IntentInv, Intended
  <2>2. QED
    BY <1>2, <2>1 DEF After
<1>7. IntentInv'
  <2>1. ASSUME NEW e \in Events'
        PROVE  Intended(e)'
    <3>1. Intended(e)
      BY <1>2 DEF LedgerInv, IntentInv
    <3>2. CASE e.by = w
      <4>1. e.kind = "denied" => pc'[w] # "execute"
        BY <1>2, <1>6, <3>2 DEF LedgerInv, IntentInv
      <4>2. QED
        BY <1>2, <1>3, <3>1, <3>2, <4>1 DEF Intended
    <3>3. CASE e.by # w
      BY <1>2, <1>3, <1>4, <3>1, <3>3 DEF Intended
    <3>4. QED
      BY <3>2, <3>3
  <2>2. \A e, f \in Events' :
          e.by = f.by /\ e.by # Run /\ (e.kind = "result" <=> f.kind = "result") => e = f
    BY <1>2 DEF LedgerInv, IntentInv
  <2>3. \A r \in rows' : r.kind = "action" => r.call # NoCallID
    BY <1>2, <1>3 DEF LedgerInv, IntentInv, validateAction
  <2>4. ASSUME NEW c \in Calls
        PROVE  Preceded(c)'
    <3>1. CASE c = w
      <4>1. c \in executed => ev[w].kind = "result" /\ pc'[c] = "returned"
        BY <1>2, <1>3, <1>5, <3>1 DEF LedgerInv, IntentInv, Preceded, After
      <4>2. ~Writing(c)'
        BY <1>2, <3>1 DEF Writing
      <4>3. QED
        BY <1>2, <1>3, <1>6, <3>1, <4>1, <4>2 DEF LedgerInv, IntentInv, Preceded
    <3>2. CASE c # w
      BY <1>2, <1>3, <1>5, <3>2 DEF LedgerInv, IntentInv, Preceded, Writing
    <3>3. QED
      BY <3>1, <3>2
  <2>5. QED
    BY <2>1, <2>2, <2>3, <2>4 DEF IntentInv
<1>8. OrderInv'
  <2> SUFFICES ASSUME NEW b \in Calls
               PROVE  /\ pc'[b] = "unissued" => returned'[b] = {}
                      /\ \A d \in returned'[b] :
                           /\ d # b
                           /\ pc'[d] \in {"returned", "gone"}
                           /\ \A r \in rows', e \in Events' : setBack' = 0 /\ r.by = d /\ e.by = b =>
                                IDBefore(r.id, e.id) /\ (e \in rows' \/ pc'[b] = "insert" => r.ts <= e.ts)
    BY DEF OrderInv
  <2>1. pc'[b] = "unissued" => returned'[b] = {}
    BY <1>2, <1>3, <1>5 DEF LedgerInv, OrderInv
  <2>2. ASSUME NEW d \in returned'[b]
        PROVE  /\ d \in returned[b] /\ d \in Calls /\ d # b /\ pc'[d] \in {"returned", "gone"}
               /\ d # w
    BY <1>1, <1>2, <1>3, <1>5 DEF LedgerInv, OrderInv, TypeOK
  <2>3. ASSUME NEW d \in returned'[b], NEW r \in rows', NEW e \in Events', setBack' = 0, r.by = d, e.by = b
        PROVE  IDBefore(r.id, e.id) /\ (e \in rows' \/ pc'[b] = "insert" => r.ts <= e.ts)
    <3>1. r \in rows /\ d \in returned[b] /\ e \in Events
      BY <1>2, <2>2, <2>3
    <3>2. e \in rows' \/ pc'[b] = "insert" => e \in rows \/ pc[b] = "insert"
      BY <1>2, <1>3, <1>5, <2>3
    <3>3. QED
      BY <1>3, <2>3, <3>1, <3>2 DEF LedgerInv, OrderInv
  <2>4. QED
    BY <2>1, <2>2, <2>3
<1>9. QED
  BY <1>2, <1>7, <1>8 DEF LedgerInv


\* Whatever leaves the table alone and mints nothing: a lost write, a
\* safe call that goes to its tool, a crash.
LEMMA QuietStep ==
  ASSUME LedgerInv, TypeOK', EventInv', ClockInv', Events' \subseteq Events,
         UNCHANGED <<rows, callID, setBack, executed, returned>>,
         \A w \in Writers :
           \/ pc'[w] = pc[w] /\ ev'[w] = ev[w]
           \/ pc'[w] \in {"returned", "gone"}
           \/ w = Run /\ pc'[w] = "idle"
           \/ w \notin Unsafe /\ pc[w] = "gate" /\ pc'[w] = "execute"
  PROVE  LedgerInv'
<1>1. TypeOK /\ EventInv /\ ClockInv
  BY DEF LedgerInv
<1>2. Calls \subseteq Writers /\ Run \notin Calls
  BY ChainAssumption DEF Writers
<1>3. \A e \in Events : e.by \in Writers
  BY <1>1 DEF EventInv, Event
<1>4. IntentInv'
  <2>1. ASSUME NEW e \in Events'
        PROVE  Intended(e)'
    <3>1. Intended(e) /\ e.by \in Writers
      BY <1>3 DEF LedgerInv, IntentInv
    <3>2. CASE e.by = Run
      <4>1. e.kind \in {"request", "retrieved"}
        BY <3>1, <3>2 DEF Intended
      <4>2. QED
        BY <3>2, <4>1 DEF Intended, ActionKinds
    <3>3. CASE e.by # Run
      BY <3>1, <3>3 DEF Intended
    <3>4. QED
      BY <3>2, <3>3
  <2>2. \A e, f \in Events' :
          e.by = f.by /\ e.by # Run /\ (e.kind = "result" <=> f.kind = "result") => e = f
    BY DEF LedgerInv, IntentInv
  <2>3. \A r \in rows' : r.kind = "action" => r.call # NoCallID
    BY DEF LedgerInv, IntentInv
  <2>4. \A c \in Calls : Preceded(c)'
    BY <1>2 DEF LedgerInv, IntentInv, Preceded, Writing
  <2>5. QED
    BY <2>1, <2>2, <2>3, <2>4 DEF IntentInv
<1>5. OrderInv'
  <2> SUFFICES ASSUME NEW b \in Calls
               PROVE  /\ pc'[b] = "unissued" => returned'[b] = {}
                      /\ \A d \in returned'[b] :
                           /\ d # b
                           /\ pc'[d] \in {"returned", "gone"}
                           /\ \A r \in rows', e \in Events' : setBack' = 0 /\ r.by = d /\ e.by = b =>
                                IDBefore(r.id, e.id) /\ (e \in rows' \/ pc'[b] = "insert" => r.ts <= e.ts)
    BY DEF OrderInv
  <2>1. (pc'[b] = "unissued" => pc[b] = "unissued") /\ (pc'[b] = "insert" => pc[b] = "insert")
    BY <1>2
  <2>2. ASSUME NEW d \in returned[b]
        PROVE  d \in Calls /\ d # b /\ pc'[d] \in {"returned", "gone"}
    BY <1>1, <1>2 DEF LedgerInv, OrderInv, TypeOK
  <2>3. QED
    BY <2>1, <2>2 DEF LedgerInv, OrderInv
<1>6. QED
  BY <1>4, <1>5 DEF LedgerInv

\* The model issues a call.
LEMMA IssueStep ==
  ASSUME LedgerInv, NEW c \in Calls, NEW i \in IDs, Issue(c, i)
  PROVE  LedgerInv'
<1>1. TypeOK /\ EventInv /\ ClockInv
  BY DEF LedgerInv
<1>2. Calls \subseteq Writers /\ Run \notin Calls
  BY ChainAssumption DEF Writers
<1>3. /\ pc[c] = "unissued" /\ pc'[c] = "gate"
      /\ \A w \in Writers : w # c => pc'[w] = pc[w]
      /\ callID' = [callID EXCEPT ![c] = i]
      /\ returned' = [returned EXCEPT ![c] = {d \in Calls : pc[d] = "returned"}]
      /\ UNCHANGED <<rows, ev, minted, now, setBack, executed, retrieved>>
  BY <1>1, <1>2 DEF Issue, Goto, TypeOK
<1>4. \A w \in Writers : Writing(w)' <=> Writing(w)
  BY <1>3 DEF Writing
<1>5. Events' = Events
  BY <1>3, <1>4, EventsAre, EventsAreNext
<1>6. TypeOK' /\ EventInv' /\ ClockInv'
  <2>1. TypeOK'
    BY <1>1, <1>3 DEF Issue, Goto, TypeOK, Points
  <2>2. QED
    BY <1>1, <1>3, <1>4, <1>5, <2>1 DEF EventInv, ClockInv
<1>7. \A e \in Events : e.by \in Writers /\ e.by # c
  BY <1>1, <1>2, <1>3 DEF EventInv, Event, LedgerInv, IntentInv, Intended
<1>8. \A d \in Calls : d # c => callID'[d] = callID[d] /\ returned'[d] = returned[d]
  BY <1>1, <1>3 DEF TypeOK
<1>9. IntentInv'
  <2>1. ASSUME NEW e \in Events'
        PROVE  Intended(e)'
    <3>1. Intended(e) /\ e.by \in Writers /\ e.by # c /\ (e.by # Run => e.by \in Calls)
      BY <1>5, <1>7 DEF LedgerInv, IntentInv, Writers
    <3>2. QED
      BY <1>3, <1>8, <3>1 DEF Intended
  <2>2. \A d \in Calls : Preceded(d)'
    BY <1>2, <1>3, <1>4 DEF LedgerInv, IntentInv, Preceded
  <2>3. QED
    BY <1>3, <1>5, <2>1, <2>2 DEF LedgerInv, IntentInv
<1>10. OrderInv'
  <2>1. returned'[c] = {d \in Calls : pc[d] = "returned"}
    BY <1>1, <1>3 DEF TypeOK
  <2>2. \A e \in Events' : e.by # c
    BY <1>5, <1>7
  <2> SUFFICES ASSUME NEW b \in Calls
               PROVE  /\ pc'[b] = "unissued" => returned'[b] = {}
                      /\ \A d \in returned'[b] :
                           /\ d # b
                           /\ pc'[d] \in {"returned", "gone"}
                           /\ \A r \in rows', e \in Events' : setBack' = 0 /\ r.by = d /\ e.by = b =>
                                IDBefore(r.id, e.id) /\ (e \in rows' \/ pc'[b] = "insert" => r.ts <= e.ts)
    BY DEF OrderInv
  <2>3. CASE b = c
    BY <1>2, <1>3, <2>1, <2>2, <2>3
  <2>4. CASE b # c
    <3>1. returned'[b] = returned[b] /\ pc'[b] = pc[b] /\ returned[b] \in SUBSET Calls
      BY <1>1, <1>2, <1>3, <1>8, <2>4 DEF TypeOK
    <3>2. \A d \in returned[b] : d # b /\ pc[d] \in {"returned", "gone"} /\ pc'[d] = pc[d]
      BY <1>2, <1>3, <3>1 DEF LedgerInv, OrderInv
    <3>3. QED
      BY <1>3, <1>5, <3>1, <3>2 DEF LedgerInv, OrderInv
  <2>5. QED
    BY <2>3, <2>4
<1>11. QED
  BY <1>6, <1>9, <1>10 DEF LedgerInv

\* A write is lost.
LEMMA LostStep ==
  ASSUME LedgerInv, NEW w \in Writers, InsertFails(w)
  PROVE  LedgerInv'
<1>1. TypeOK /\ EventInv /\ ClockInv
  BY DEF LedgerInv
<1>2. /\ TypeOK' /\ EventInv' /\ ClockInv' /\ Events' \subseteq Events
      /\ pc'[w] = (IF w = Run THEN "idle" ELSE "returned")
      /\ \A v \in Writers : v # w => pc'[v] = pc[v] /\ ev'[v] = ev[v]
  BY <1>1, Dropped
<1>3. UNCHANGED <<rows, callID, setBack, executed, returned>>
  BY DEF InsertFails
<1>4. QED
  BY <1>2, <1>3, QuietStep

\* No step at all.
LEMMA StutterStep ==
  ASSUME LedgerInv, UNCHANGED vars
  PROVE  LedgerInv'
BY DEF vars, LedgerInv, TypeOK, EventInv, ClockInv, IntentInv, OrderInv, Intended, Preceded,
   Events, Writing

\* A safe call goes to its tool.
LEMMA SafeStep ==
  ASSUME LedgerInv, NEW c \in Calls, AuditSafe(c)
  PROVE  LedgerInv'
<1>1. TypeOK /\ EventInv /\ ClockInv /\ c \in Writers
  BY DEF LedgerInv, Writers
<1>2. /\ UNCHANGED <<rows, ev, callID, minted, now, setBack, executed, returned, retrieved>>
      /\ pc[c] = "gate" /\ c \notin Unsafe
      /\ pc' = [pc EXCEPT ![c] = "execute"]
  BY DEF AuditSafe, Goto
<1>3. pc'[c] = "execute" /\ \A w \in Writers : w # c => pc'[w] = pc[w]
  BY <1>1, <1>2 DEF TypeOK
<1>4. \A w \in Writers : Writing(w)' <=> Writing(w)
  BY <1>2, <1>3 DEF Writing
<1>5. Events' = Events
  BY <1>2, <1>4, EventsAre, EventsAreNext
<1>6. TypeOK'
  BY <1>1, <1>2 DEF TypeOK, Points
<1>7. EventInv'
  BY <1>1, <1>2, <1>4, <1>5 DEF EventInv
<1>8. ClockInv'
  BY <1>1, <1>2, <1>5 DEF ClockInv
<1>9. QED
  BY <1>2, <1>3, <1>5, <1>6, <1>7, <1>8, QuietStep

\* A crash keeps the table and loses what was about to be written.
LEMMA CrashStep ==
  ASSUME LedgerInv, Crash
  PROVE  LedgerInv'
<1>1. TypeOK /\ EventInv /\ ClockInv
  BY DEF LedgerInv
<1>2. /\ UNCHANGED <<rows, callID, minted, now, setBack, executed, returned, retrieved>>
      /\ pc' = [w \in Writers |-> "gone"] /\ ev' = [w \in Writers |-> NoEvent]
  BY DEF Crash
<1>3. \A w \in Writers : pc'[w] = "gone" /\ ~Writing(w)'
  BY <1>2 DEF Writing
<1>4. Events' \subseteq Events
  BY <1>2, <1>3, EventsAre, EventsAreNext
<1>5. TypeOK'
  BY <1>1, <1>2 DEF TypeOK, Points
<1>6. EventInv'
  BY <1>1, <1>2, <1>3, <1>4 DEF EventInv
<1>7. ClockInv'
  BY <1>1, <1>2, <1>4 DEF ClockInv
<1>8. QED
  BY <1>2, <1>3, <1>4, <1>5, <1>6, <1>7, QuietStep

\* A new run satisfies the invariant.
LEMMA LedgerInit == Init => LedgerInv
<1> SUFFICES ASSUME Init
             PROVE  LedgerInv
  OBVIOUS
<1>1. \A w \in Writers : ~Writing(w) /\ pc[w] # "execute"
  BY DEF Init, Writing
<1>2. \A e : e \notin Events
  BY <1>1, EventsAre DEF Init
<1>3. TypeOK
  <2>1. IsFiniteSet(rows)
    BY FS_EmptySet DEF Init
  <2>2. QED
    BY <2>1, ClockAssumption DEF Init, TypeOK, Points, IDs, EventID
<1>4. EventInv
  BY <1>1, <1>2 DEF EventInv
<1>5. IntentInv
  BY <1>1, <1>2 DEF Init, IntentInv, Preceded, Writers
<1>6. OrderInv
  BY DEF Init, OrderInv
<1>7. ClockInv
  BY <1>2, ClockAssumption DEF Init, ClockInv
<1>8. QED
  BY <1>3, <1>4, <1>5, <1>6, <1>7 DEF LedgerInv

\* Every step keeps the invariant.
LEMMA LedgerNext == LedgerInv /\ [Next]_vars => LedgerInv'
<1> SUFFICES ASSUME LedgerInv, [Next]_vars
             PROVE  LedgerInv'
  OBVIOUS
<1>1. CASE UNCHANGED vars
  BY <1>1, StutterStep
<1>2. CASE \E w \in Writers : Stamp(w) \/ Insert(w) \/ InsertFails(w)
  BY <1>2, StampStep, InsertStep, LostStep
<1>3. CASE Request \/ Retrieve
  BY <1>3, RunMints
<1>4. CASE \E c \in Calls, i \in IDs : Issue(c, i)
  BY <1>4, IssueStep
<1>5. CASE \E c \in Calls : Deny(c) \/ AuditUnsafe(c) \/ Execute(c)
  BY <1>5, CallMints
<1>6. CASE \E c \in Calls : AuditSafe(c)
  BY <1>6, SafeStep
<1>7. CASE Crash
  BY <1>7, CrashStep
<1>8. QED
  BY <1>1, <1>2, <1>3, <1>4, <1>5, <1>6, <1>7 DEF Next

\* However the writers interleave, whatever is lost and wherever the process
\* dies, the invariant of the table holds.
THEOREM LedgerInvariant == Spec => []LedgerInv
<1>1. QED
  BY LedgerInit, LedgerNext, PTL DEF Spec

\* The model gives the calls of a run different IDs: then no two share one.
LEMMA OwnIDsKept ==
  ASSUME Distinct
  PROVE  Spec => []OwnIDs
<1>1. Init => OwnIDs
  BY DEF Init, OwnIDs
<1>2. LedgerInv /\ OwnIDs /\ [Next]_vars => OwnIDs'
  <2> SUFFICES ASSUME LedgerInv, OwnIDs, [Next]_vars
               PROVE  OwnIDs'
    OBVIOUS
  <2>1. callID \in [Calls -> IDs]
    BY DEF LedgerInv, TypeOK
  <2>2. CASE \E c \in Calls, i \in IDs : Issue(c, i)
    BY <2>1, <2>2 DEF Issue, OwnIDs
  <2>3. CASE UNCHANGED callID
    BY <2>3 DEF OwnIDs
  <2>4. QED
    BY <2>2, <2>3 DEF Next, vars, Stamp, Insert, InsertFails, Request, Retrieve,
       Deny, AuditUnsafe, AuditSafe, Execute, Crash
<1>3. QED
  BY <1>1, <1>2, LedgerInvariant, PTL DEF Spec

-------------------------------------------------------------------------------
(* The ledger: what Chain reads *)

\* ORDER BY ts, id leaves nothing open: no two rows of the table tie.
LEMMA RowsEnumerate ==
  ASSUME LedgerInv
  PROVE  \E n \in Nat :
           /\ Rows \in [1..n -> rows]
           /\ \A r \in rows : \E k \in 1..n : Rows[k] = r
           /\ \A j, k \in 1..n : j < k <=> Before(Rows[j], Rows[k])
<1> DEFINE R == {p \in rows \X rows : Before(p[1], p[2])}
<1>1. \A e, f \in rows : <<e, f>> \in R <=> Before(e, f)
  OBVIOUS
<1>2. Rows = InOrder(rows, R)
  BY DEF Rows
<1>3. \A e \in rows : e.ts \in Nat /\ e.id \in EventID
  BY DEF LedgerInv, TypeOK, Event
<1>4. \A e, f \in rows : e.id.n = f.id.n => e = f
  BY EventsAre DEF LedgerInv, EventInv
<1> HIDE DEF R
<1>5. StrictOrder(rows, R)
  <2>1. \A x \in rows : <<x, x>> \notin R
    BY <1>1, <1>3, IDOrder DEF Before
  <2>2. \A x, y, z \in rows : <<x, y>> \in R /\ <<y, z>> \in R => <<x, z>> \in R
    BY <1>1, <1>3, IDOrder DEF Before
  <2>3. \A x, y \in rows : x # y => <<x, y>> \in R \/ <<y, x>> \in R
    <3> SUFFICES ASSUME NEW x \in rows, NEW y \in rows, x # y
                 PROVE  Before(x, y) \/ Before(y, x)
      BY <1>1
    <3>1. x.id.n # y.id.n /\ x.ts \in Nat /\ y.ts \in Nat /\ x.id \in EventID /\ y.id \in EventID
      BY <1>3, <1>4
    <3>2. QED
      BY <3>1, IDOrder DEF Before
  <2>4. QED
    BY <2>1, <2>2, <2>3 DEF StrictOrder
<1>6. IsFiniteSet(rows)
  BY DEF LedgerInv, TypeOK
<1>7. /\ Cardinality(rows) \in Nat
      /\ Rows \in [1..Cardinality(rows) -> rows]
      /\ \A x \in rows : \E k \in 1..Cardinality(rows) : Rows[k] = x
      /\ \A j, k \in 1..Cardinality(rows) : j < k <=> <<Rows[j], Rows[k]>> \in R
  BY <1>2, <1>5, <1>6, Enumerates
<1>8. \A k \in 1..Cardinality(rows) : Rows[k] \in rows
  BY <1>7
<1>9. QED
  BY <1>1, <1>7, <1>8

\* The chain lists every intent of the table, in the table's order, with what
\* the reader pairs it with.
LEMMA ChainActions ==
  ASSUME LedgerInv
  PROVE  \E m \in Nat :
           /\ DOMAIN Chain.actions = 1..m
           /\ \A j \in 1..m :
                /\ Chain.actions[j].intent \in rows
                /\ Chain.actions[j].intent.kind \in ActionKinds
                /\ Chain.actions[j].result = Result(Rows, Chain.actions[j].intent)
           /\ \A r \in rows : r.kind \in ActionKinds => \E j \in 1..m : Chain.actions[j].intent = r
           /\ \A j, k \in 1..m :
                j < k <=> Before(Chain.actions[j].intent, Chain.actions[k].intent)
<1>1. PICK n \in Nat :
        /\ Rows \in [1..n -> rows]
        /\ \A r \in rows : \E k \in 1..n : Rows[k] = r
        /\ \A j, k \in 1..n : j < k <=> Before(Rows[j], Rows[k])
  BY RowsEnumerate
<1> DEFINE P == {k \in DOMAIN Rows : Rows[k].kind \in ActionKinds}
           m == Cardinality(P)
           A == [j \in DOMAIN Ascending(P) |->
                   [intent |-> Rows[Ascending(P)[j]], result |-> Result(Rows, Rows[Ascending(P)[j]])]]
<1>2. Chain.actions = A
  BY DEF Chain, AssembleChain, Actions
<1>3. P \in SUBSET Nat /\ P \in SUBSET (1..n) /\ \A k \in 1..n : k \in P <=> Rows[k].kind \in ActionKinds
  BY <1>1
<1>4. IsFiniteSet(P)
  <2>1. IsFiniteSet(1..n)
    BY FS_Interval
  <2> HIDE DEF P
  <2>2. QED
    BY <1>3, <2>1, FS_Subset
<1> HIDE DEF P
<1>5. /\ m \in Nat
      /\ Ascending(P) \in [1..m -> P]
      /\ \A k \in P : \E j \in 1..m : Ascending(P)[j] = k
      /\ \A j, k \in 1..m : j < k <=> Ascending(P)[j] < Ascending(P)[k]
  BY <1>3, <1>4, AscendingEnumerates
<1> HIDE DEF m
<1>6. \A j \in 1..m : Ascending(P)[j] \in P
  BY <1>5
<1>7. DOMAIN A = 1..m
  BY <1>5
<1>8. \A j \in 1..m : A[j].intent = Rows[Ascending(P)[j]]
                      /\ A[j].result = Result(Rows, Rows[Ascending(P)[j]])
  BY <1>7
<1> HIDE DEF A
<1>9. \A j \in 1..m : /\ A[j].intent \in rows /\ A[j].intent.kind \in ActionKinds
                      /\ A[j].result = Result(Rows, A[j].intent)
  BY <1>1, <1>3, <1>6, <1>8
<1>10. ASSUME NEW r \in rows, r.kind \in ActionKinds
       PROVE  \E j \in 1..m : A[j].intent = r
  <2>1. PICK k \in 1..n : Rows[k] = r
    BY <1>1
  <2>2. k \in P
    BY <1>3, <1>10, <2>1
  <2>3. QED
    BY <1>5, <1>8, <2>1, <2>2
<1>11. ASSUME NEW j \in 1..m, NEW k \in 1..m
       PROVE  j < k <=> Before(A[j].intent, A[k].intent)
  <2>1. Ascending(P)[j] \in 1..n /\ Ascending(P)[k] \in 1..n
    BY <1>3, <1>6
  <2>2. j < k <=> Ascending(P)[j] < Ascending(P)[k]
    BY <1>5
  <2>3. Ascending(P)[j] < Ascending(P)[k]
          <=> Before(Rows[Ascending(P)[j]], Rows[Ascending(P)[k]])
    BY <1>1, <2>1
  <2>4. QED
    BY <1>8, <2>2, <2>3
<1>12. QED
  BY <1>2, <1>5, <1>7, <1>9, <1>10, <1>11

\* What a call wrote that AssembleChain can pair with an intent.
Own(c) == {r \in rows : r.kind = "result" /\ r.by = c /\ r.call # NoCallID}

\* When no two calls share a CallID, an event of a call is paired with the
\* call's own result, if the table has it with a CallID.
LEMMA ResultIsOwn ==
  ASSUME LedgerInv, OwnIDs, NEW e \in rows, e.by # Run
  PROVE  /\ Own(e.by) = {} => Result(Rows, e) = NoEvent
         /\ \A r \in Own(e.by) : Result(Rows, e) = r
<1>1. PICK n \in Nat :
        /\ Rows \in [1..n -> rows]
        /\ \A r \in rows : \E k \in 1..n : Rows[k] = r
        /\ \A j, k \in 1..n : j < k <=> Before(Rows[j], Rows[k])
  BY RowsEnumerate
<1> DEFINE same == {k \in DOMAIN Rows :
                      /\ Rows[k].kind = "result"
                      /\ Rows[k].call # NoCallID
                      /\ Rows[k].call = e.call}
<1>2. Result(Rows, e) = IF same = {} THEN NoEvent ELSE Rows[Max(same)]
  BY DEF Result
<1>3. \A f \in rows : f \in Events /\ f \in Event /\ Intended(f)
  BY EventsAre DEF LedgerInv, EventInv, IntentInv
<1>4. \A f \in rows : f.by # Run => f.by \in Calls /\ f.call = callID[f.by]
  BY <1>3 DEF Intended, Event, Writers
<1>5. \A f \in rows : f.kind = "result" => f.by # Run
  BY <1>3 DEF Intended
<1>6. \A f \in rows : f.kind = "result" /\ f.call # NoCallID /\ f.call = e.call <=> f \in Own(e.by)
  BY <1>4, <1>5 DEF OwnIDs, Own
<1>7. \A k : k \in same <=> k \in 1..n /\ Rows[k] \in Own(e.by)
  BY <1>1, <1>6
<1> HIDE DEF same
<1>8. \A f, g \in Own(e.by) : f = g
  BY <1>3 DEF Own, LedgerInv, IntentInv
<1>9. Own(e.by) = {} => Result(Rows, e) = NoEvent
  BY <1>2, <1>7
<1>10. ASSUME NEW r \in Own(e.by)
       PROVE  Result(Rows, e) = r
  <2>1. PICK k \in 1..n : Rows[k] = r
    BY <1>1 DEF Own
  <2>2. ~Before(r, r)
    BY <1>3, IDOrder DEF Own, Before, Event
  <2>3. \A j \in same : j = k
    <3> SUFFICES ASSUME NEW j \in same
                 PROVE  j = k
      OBVIOUS
    <3>1. j \in 1..n /\ Rows[j] = r
      BY <1>7, <1>8
    <3>2. ~(j < k) /\ ~(k < j)
      BY <1>1, <2>1, <2>2, <3>1
    <3>3. QED
      BY <3>1, <3>2
  <2>4. same = {k}
    BY <1>7, <2>1, <2>3
  <2>5. Max(same) = k
    BY <2>4 DEF Max
  <2>6. QED
    BY <1>2, <2>1, <2>4, <2>5
<1>11. QED
  BY <1>9, <1>10
  
\* As long as the wall clock is not set back, and whatever the order the rows were
\* minted, stamped and inserted in, a call that was issued after another had
\* returned comes after it in the chain.
THEOREM ChainInOrderAlways == Spec => []ChainInOrder
<1>1. LedgerInv => ChainInOrder
  <2> SUFFICES ASSUME LedgerInv
               PROVE  ChainInOrder
    OBVIOUS
  <2>1. PICK m \in Nat :
          /\ DOMAIN Chain.actions = 1..m
          /\ \A j \in 1..m :
               Chain.actions[j].intent \in rows /\ Chain.actions[j].intent.kind \in ActionKinds
          /\ \A j, k \in 1..m :
               j < k <=> Before(Chain.actions[j].intent, Chain.actions[k].intent)
    BY ChainActions
  <2> SUFFICES ASSUME NEW j \in 1..m, NEW k \in 1..m,
                      setBack = 0,
                      Chain.actions[j].intent.by \in returned[Chain.actions[k].intent.by]
               PROVE  j < k
    BY <2>1 DEF ChainInOrder, ChainInOrderAnyClock
  <2> DEFINE r == Chain.actions[j].intent
             e == Chain.actions[k].intent
  <2>2. r \in rows /\ e \in rows /\ e \in Events /\ r \in Event /\ e \in Event /\ Intended(e)
        /\ e.kind \in ActionKinds
    BY <2>1, EventsAre DEF LedgerInv, EventInv, IntentInv
  <2> HIDE DEF r, e
  <2>3. e.by \in Calls
    BY <2>2, ChainAssumption DEF Intended
  <2>4. r.by \in returned[e.by]
    BY DEF r, e
  <2>5. IDBefore(r.id, e.id) /\ r.ts <= e.ts
    BY <2>2, <2>3, <2>4 DEF LedgerInv, OrderInv
  <2>6. Before(r, e)
    BY <2>2, <2>5 DEF Before, Event
  <2>7. QED
    BY <2>1, <2>6 DEF r, e
<1>2. QED
  BY <1>1, LedgerInvariant, PTL

\* No record, no action, as the operator reads it: an unsafe tool that ran is an
\* allowed action of the chain, exactly once, and a denied call shows no result.
\* The model must give the calls of a run different IDs.
THEOREM ExecutedInChainAlways ==
  ASSUME Distinct
  PROVE  Spec => []ExecutedInChain
<1>1. LedgerInv /\ OwnIDs => ExecutedInChain
  <2> SUFFICES ASSUME LedgerInv, OwnIDs
               PROVE  ExecutedInChain
    OBVIOUS
  <2>1. PICK m \in Nat :
          /\ DOMAIN Chain.actions = 1..m
          /\ \A j \in 1..m :
               /\ Chain.actions[j].intent \in rows
               /\ Chain.actions[j].intent.kind \in ActionKinds
               /\ Chain.actions[j].result = Result(Rows, Chain.actions[j].intent)
          /\ \A r \in rows : r.kind \in ActionKinds => \E j \in 1..m : Chain.actions[j].intent = r
          /\ \A j, k \in 1..m :
               j < k <=> Before(Chain.actions[j].intent, Chain.actions[k].intent)
    BY ChainActions
  <2>2. \A r \in rows : r \in Events /\ r \in Event /\ Intended(r) /\ ~Before(r, r)
    BY EventsAre, IDOrder DEF LedgerInv, EventInv, IntentInv, Before, Event
  <2>3. ASSUME NEW c \in executed \cap Unsafe
        PROVE  Cardinality({k \in DOMAIN Chain.actions :
                 Chain.actions[k].intent.by = c /\ Chain.actions[k].intent.kind = "action"}) = 1
    <3> DEFINE shown == {k \in DOMAIN Chain.actions :
                 Chain.actions[k].intent.by = c /\ Chain.actions[k].intent.kind = "action"}
    <3>1. c \in Calls /\ c # Run
      BY ChainAssumption
    <3>2. PICK r \in rows : r.by = c /\ r.kind = "action"
      BY <3>1 DEF LedgerInv, IntentInv, Preceded
    <3>3. PICK j \in 1..m : Chain.actions[j].intent = r
      BY <2>1, <3>2 DEF ActionKinds
    <3>4. ASSUME NEW k \in 1..m, Chain.actions[k].intent.by = c, Chain.actions[k].intent.kind = "action"
          PROVE  k = j
      <4>1. Chain.actions[k].intent = r
        BY <2>1, <2>2, <3>1, <3>2, <3>4 DEF LedgerInv, IntentInv
      <4>2. ~(j < k) /\ ~(k < j)
        BY <2>1, <2>2, <3>2, <3>3, <4>1
      <4>3. QED
        BY <4>2
    <3>5. shown = {j}
      BY <2>1, <3>2, <3>3, <3>4
    <3>6. QED
      BY <3>5, FS_Singleton
  <2>4. ASSUME NEW a \in ToSet(Chain.actions), a.intent.kind = "denied"
        PROVE  a.intent.by \notin executed /\ a.result = NoEvent
    <3>1. PICK j \in 1..m : a = Chain.actions[j]
      BY <2>1 DEF ToSet
    <3>2. a.intent \in rows /\ a.result = Result(Rows, a.intent)
      BY <2>1, <3>1
    <3>3. a.intent.by \notin executed /\ a.intent.by # Run
      BY <2>2, <2>4, <3>2 DEF Intended
    <3>4. Own(a.intent.by) = {}
      BY <2>2, <3>3 DEF Own, Intended
    <3>5. QED
      BY <3>2, <3>3, <3>4, ResultIsOwn
  <2>5. QED
    BY <2>3, <2>4 DEF ExecutedInChain
<1>2. QED
  BY <1>1, LedgerInvariant, OwnIDsKept, PTL

\* The reconstruction is faithful: an action of the chain shows the result its
\* own call wrote, or none, and what it had available are the retrievals and
\* the results of the safe calls.  The model must give the calls different IDs.
THEOREM ChainFaithfulAlways ==
  ASSUME Distinct
  PROVE  Spec => []ChainFaithful
<1>1. LedgerInv /\ OwnIDs => ChainFaithful
  <2> SUFFICES ASSUME LedgerInv, OwnIDs
               PROVE  ChainFaithful
    OBVIOUS
  <2>1. PICK m \in Nat :
          /\ DOMAIN Chain.actions = 1..m
          /\ \A j \in 1..m :
               /\ Chain.actions[j].intent \in rows
               /\ Chain.actions[j].intent.kind \in ActionKinds
               /\ Chain.actions[j].result = Result(Rows, Chain.actions[j].intent)
    BY ChainActions
  <2>2. \A r \in rows : r \in Events /\ r \in Event /\ Intended(r)
    BY EventsAre DEF LedgerInv, EventInv, IntentInv
  <2>3. ToSet(Rows) = rows
    <3>1. PICK n \in Nat :
            /\ Rows \in [1..n -> rows]
            /\ \A r \in rows : \E k \in 1..n : Rows[k] = r
      BY RowsEnumerate
    <3>2. QED
      BY <3>1 DEF ToSet
  <2>4. ASSUME NEW a \in ToSet(Chain.actions)
        PROVE  IF Own(a.intent.by) = {} THEN a.result = NoEvent ELSE a.result \in Own(a.intent.by)
    <3>1. PICK j \in 1..m : a = Chain.actions[j]
      BY <2>1 DEF ToSet
    <3>2. a.intent \in rows /\ a.result = Result(Rows, a.intent) /\ a.intent.kind \in ActionKinds
      BY <2>1, <3>1
    <3>3. a.intent.by # Run
      BY <2>2, <3>2 DEF Intended, ActionKinds
    <3>4. QED
      BY <3>2, <3>3, ResultIsOwn
  <2> DEFINE free(r) == \A a \in rows : a.kind \in ActionKinds => a.call # r.call
             shown == {r \in {Result(Rows, e) : e \in {f \in rows : f.kind = "result"}} :
                         r # NoEvent /\ free(r)}
             unacted == UNION {Own(c) : c \in Calls \ Unsafe}
  <2>5. ASSUME NEW c \in Calls \ Unsafe, NEW r \in Own(c)
        PROVE  r \in shown
    <3>1. r \in rows /\ r.kind = "result" /\ r.by = c /\ r.call # NoCallID /\ c # Run
      BY ChainAssumption DEF Own
    <3>2. Result(Rows, r) = r
      BY <3>1, ResultIsOwn
    <3>3. r # NoEvent
      BY <2>2, <3>1, ChainAssumption DEF Event
    <3>4. free(r)
      <4> SUFFICES ASSUME NEW a \in rows, a.kind \in ActionKinds, a.call = r.call
                   PROVE  FALSE
        OBVIOUS
      <4>1. a.by \in Unsafe /\ a.by # Run /\ a.by \in Calls /\ a.call = callID[a.by]
        BY <2>2, ChainAssumption DEF Intended
      <4>2. r.call = callID[c]
        BY <2>2, <3>1 DEF Intended
      <4>3. QED
        BY <3>1, <4>1, <4>2 DEF OwnIDs
    <3>5. QED
      BY <3>1, <3>2, <3>3, <3>4
  <2>6. ASSUME NEW r \in shown
        PROVE  \E c \in Calls \ Unsafe : r \in Own(c)
    <3>1. PICK e \in rows : e.kind = "result" /\ r = Result(Rows, e)
      OBVIOUS
    <3>2. e.by # Run
      BY <2>2, <3>1 DEF Intended
    <3>3. r \in Own(e.by)
      BY <3>1, <3>2, ResultIsOwn
    <3>4. r \in rows /\ r.by = e.by /\ r.kind = "result"
      BY <3>3 DEF Own
    <3>5. e.by \in executed /\ e.by \in Calls /\ r.call = callID[e.by]
      BY <2>2, <3>2, <3>4 DEF Intended, LedgerInv, TypeOK
    <3>6. e.by \notin Unsafe
      <4> SUFFICES ASSUME e.by \in Unsafe
                   PROVE  FALSE
        OBVIOUS
      <4>1. PICK a \in rows : a.by = e.by /\ a.kind = "action"
        BY <3>5 DEF LedgerInv, IntentInv, Preceded
      <4>2. a.call = callID[e.by]
        BY <2>2, <3>2, <4>1 DEF Intended
      <4>3. QED
        BY <3>5, <4>1, <4>2 DEF ActionKinds
    <3>7. QED
      BY <3>3, <3>5, <3>6
  <2>7. shown = unacted
    <3> HIDE DEF shown
    <3>1. QED
      BY <2>5, <2>6
  <2>8. Chain.available = {e \in rows : e.kind = "retrieved"} \cup shown
    BY <2>3 DEF Chain, AssembleChain, Available
  <2> HIDE DEF shown, unacted
  <2>9. Chain.available = {r \in rows : r.kind = "retrieved"} \cup unacted
    BY <2>7, <2>8
  <2>10. QED
    <3> DEFINE own(c) == {r \in {q \in rows : q.kind = "result"} : r.by = c /\ r.call # NoCallID}
    <3>1. \A c : own(c) = Own(c)
      BY DEF Own
    <3> HIDE DEF own
    <3>2. unacted = UNION {own(c) : c \in Calls \ Unsafe}
      BY <3>1 DEF unacted
    <3>3. \A a \in ToSet(Chain.actions) :
            IF own(a.intent.by) = {} THEN a.result = NoEvent ELSE a.result \in own(a.intent.by)
      BY <2>4, <3>1
    <3>4. QED
      BY <2>9, <3>2, <3>3, Zenon DEF ChainFaithful, own
<1>2. QED
  BY <1>1, LedgerInvariant, OwnIDsKept, PTL

-------------------------------------------------------------------------------
(* mcp.Tools: names and servers *)

\* Numerals are valid and tell the numbers apart.
Numerals ==
  /\ \A i \in Nat : ToString(i) \in Valid
  /\ \A i, j \in Nat : ToString(i) = ToString(j) => i = j

\* A prefix is no longer than asked for, and of the same characters.
LEMMA PrefixIs ==
  ASSUME NEW s \in Seq(STRING), NEW n \in Nat
  PROVE  /\ Prefix(s, n) \in Seq(STRING) /\ Len(Prefix(s, n)) <= n /\ Len(Prefix(s, n)) <= Len(s)
         /\ Len(Prefix(s, n)) = IF Len(s) > n THEN n ELSE Len(s)
         /\ \A k \in 1..Len(Prefix(s, n)) : Prefix(s, n)[k] = s[k]
<1>1. CASE Len(s) > n
  <2>1. Prefix(s, n) = SubSeq(s, 1, n)
    BY <1>1 DEF Prefix
  <2>2. \A i \in 1..n : s[i] \in STRING
    BY <1>1
  <2>3. /\ SubSeq(s, 1, n) \in Seq(STRING) /\ Len(SubSeq(s, 1, n)) = n
        /\ \A i \in 1..n : SubSeq(s, 1, n)[i] = s[i]
    BY <2>2, SubSeqProperties
  <2>4. QED
    BY <1>1, <2>1, <2>3
<1>2. CASE ~(Len(s) > n)
  BY <1>2 DEF Prefix
<1>3. QED
  BY <1>1, <1>2

\* A sequence of one.
LEMMA OneOf ==
  ASSUME NEW S, NEW x \in S
  PROVE  <<x>> \in Seq(S) /\ Len(<<x>>) = 1 /\ \A k \in DOMAIN <<x>> : <<x>>[k] = x
OBVIOUS

\* What sanitize returns is accepted.
LEMMA SanitizeAccepted ==
  ASSUME NEW s \in Seq(STRING)
  PROVE  sanitize(s) \in Seq(STRING) /\ Accepted(sanitize(s))
<1>1. Underscore \in Valid /\ Underscore \in STRING /\ Valid \subseteq STRING /\ NameLimit \in Nat /\ NameLimit >= 2
  BY McpAssumption
<1>2. CASE s = <<>>
  <2>1. sanitize(s) = <<Underscore>>
    BY <1>2 DEF sanitize
  <2>2. <<Underscore>> \in Seq(STRING)
    BY <1>1, OneOf
  <2>3. /\ Len(<<Underscore>>) \in 1..NameLimit
        /\ \A k \in DOMAIN <<Underscore>> : <<Underscore>>[k] \in Valid
    <3>1. Len(<<Underscore>>) = 1 /\ \A k \in DOMAIN <<Underscore>> : <<Underscore>>[k] = Underscore
      BY <1>1, OneOf, Zenon
    <3>2. 1 \in 1..NameLimit
      BY <1>1
    <3>3. QED
      BY <1>1, <3>1, <3>2, Zenon
  <2>4. QED
    BY <2>1, <2>2, <2>3 DEF Accepted
<1>3. CASE s # <<>>
  <2> DEFINE t == [i \in DOMAIN s |-> IF s[i] \in Valid THEN s[i] ELSE Underscore]
  <2>1. sanitize(s) = Prefix(t, NameLimit)
    BY <1>3 DEF sanitize
  <2>2. t \in Seq(STRING) /\ Len(t) = Len(s) /\ Len(s) >= 1 /\ \A k \in 1..Len(t) : t[k] \in Valid
    <3>1. Len(s) \in Nat /\ DOMAIN s = 1..Len(s) /\ \A i \in DOMAIN s : s[i] \in STRING
      OBVIOUS
    <3>2. Len(s) # 0
      <4>1. Len(s) \in Nat \ {0}
        BY <1>3, EmptySeq, Zenon
      <4>2. QED
        BY <4>1
    <3>3. \A i \in DOMAIN s : t[i] \in Valid
      BY <1>1
    <3>4. DOMAIN t = 1..Len(s) /\ t \in [1..Len(s) -> STRING]
      <4>1. t \in [DOMAIN s -> STRING]
        BY <1>1, <3>1
      <4>2. QED
        BY <3>1, <4>1
    <3> HIDE DEF t
    <3>5. t \in Seq(STRING) /\ Len(t) = Len(s)
      BY <3>1, <3>4
    <3>6. QED
      BY <3>1, <3>2, <3>3, <3>5
  <2> HIDE DEF t
  <2>3. /\ Prefix(t, NameLimit) \in Seq(STRING)
        /\ Len(Prefix(t, NameLimit)) = IF Len(t) > NameLimit THEN NameLimit ELSE Len(t)
        /\ \A k \in 1..Len(Prefix(t, NameLimit)) : Prefix(t, NameLimit)[k] = t[k]
    BY <1>1, <2>2, PrefixIs
  <2>4. QED
    BY <1>1, <2>1, <2>2, <2>3 DEF Accepted
<1>4. QED
  BY <1>2, <1>3

\* Every name uniqueName tries is accepted, and from the second on they differ.
LEMMA NumberedAccepted ==
  ASSUME Numerals, NEW base \in Seq(STRING), Accepted(base)
  PROVE  /\ \A i \in Nat : Numbered(base, i) \in Seq(STRING) /\ Accepted(Numbered(base, i))
         /\ \A i, j \in Nat : i # 1 /\ j # 1 /\ Numbered(base, i) = Numbered(base, j) => i = j
<1>1. Underscore \in Valid /\ Underscore \in STRING /\ Valid \subseteq STRING /\ NameLimit \in Nat /\ NameLimit >= 2
  BY McpAssumption
<1> DEFINE p == Prefix(base, NameLimit - 2)
<1>2. /\ p \in Seq(STRING) /\ Len(p) <= NameLimit - 2
      /\ \A k \in 1..Len(p) : p[k] \in Valid
  <2>1. NameLimit - 2 \in Nat
    BY <1>1
  <2>2. /\ p \in Seq(STRING) /\ Len(p) <= NameLimit - 2 /\ Len(p) <= Len(base)
        /\ \A k \in 1..Len(p) : p[k] = base[k]
    BY <2>1, PrefixIs
  <2>3. QED
    BY <2>2 DEF Accepted
<1> DEFINE l == Len(p)
<1>3. l \in Nat
  BY <1>2
<1>4. ASSUME NEW i \in Nat
      PROVE  Suffix(i) \in Seq(STRING) /\ Len(Suffix(i)) = 2
             /\ Suffix(i)[1] = Underscore /\ Suffix(i)[2] = ToString(i) /\ ToString(i) \in Valid
  BY <1>1 DEF Suffix, Numerals
<1>5. ASSUME NEW i \in Nat, i # 1
      PROVE  /\ Numbered(base, i) \in Seq(STRING) /\ Len(Numbered(base, i)) = l + 2
             /\ \A k \in 1..l : Numbered(base, i)[k] = p[k]
             /\ Numbered(base, i)[l + 1] = Underscore /\ Numbered(base, i)[l + 2] = ToString(i)
  <2>1. Numbered(base, i) = p \o Suffix(i)
    BY <1>4, <1>5 DEF Numbered
  <2> HIDE DEF p
  <2>2. QED
    BY <1>2, <1>4, <2>1
<1> HIDE DEF p, l
<1>6. ASSUME NEW i \in Nat
      PROVE  Numbered(base, i) \in Seq(STRING) /\ Accepted(Numbered(base, i))
  <2>1. CASE i = 1
    BY <2>1 DEF Numbered
  <2>2. CASE i # 1
    <3>1. ASSUME NEW k \in 1..l + 2
          PROVE  Numbered(base, i)[k] \in Valid
      <4>1. k \in 1..l \/ k = l + 1 \/ k = l + 2
        BY <1>3
      <4>2. \A j \in 1..l : p[j] \in Valid
        BY <1>2 DEF l
      <4>3. QED
        BY <1>1, <1>4, <1>5, <2>2, <4>1, <4>2
    <3>2. l + 2 \in 1..NameLimit
      BY <1>1, <1>2, <1>3 DEF l
    <3>3. QED
      BY <1>5, <2>2, <3>1, <3>2 DEF Accepted
  <2>3. QED
    BY <2>1, <2>2
<1>7. ASSUME NEW i \in Nat, NEW j \in Nat, i # 1, j # 1, Numbered(base, i) = Numbered(base, j)
      PROVE  i = j
  BY <1>5, <1>7 DEF Numerals
<1>8. QED
  BY <1>6, <1>7

\* uniqueName finds a name that is not taken, within its first |seen| + 2 tries,
\* and one the API accepts.
LEMMA UniqueNameIs ==
  ASSUME Numerals, NEW srv \in Server, NEW tool \in Seq(STRING), NEW seen, IsFiniteSet(seen)
  PROVE  /\ uniqueName(srv, tool, seen) \in Seq(STRING)
         /\ Accepted(uniqueName(srv, tool, seen))
         /\ uniqueName(srv, tool, seen) \notin seen
<1> DEFINE raw == IF srv.bare THEN tool ELSE srv.name \o <<Underscore, Underscore>> \o tool
           base == sanitize(raw)
           free == {i \in 1..Cardinality(seen) + 2 : Numbered(base, i) \notin seen}
           least == CHOOSE i \in free : \A j \in free : i <= j
<1>1. uniqueName(srv, tool, seen) = Numbered(base, least)
  BY DEF uniqueName
<1>2. Cardinality(seen) \in Nat
  BY FS_CardinalityType
<1>3. raw \in Seq(STRING)
  <2>1. srv.name \in Seq(STRING) /\ Underscore \in STRING
    BY McpAssumption DEF Server
  <2>2. <<Underscore, Underscore>> \in Seq(STRING)
    BY <2>1
  <2>3. srv.name \o <<Underscore, Underscore>> \in Seq(STRING)
    BY <2>1, <2>2
  <2>4. srv.name \o <<Underscore, Underscore>> \o tool \in Seq(STRING)
    BY <2>3
  <2>5. QED
    BY <2>4
<1> HIDE DEF raw
<1>4. base \in Seq(STRING) /\ Accepted(base)
  BY <1>3, SanitizeAccepted
<1> HIDE DEF base
<1>5. /\ \A i \in Nat : Numbered(base, i) \in Seq(STRING) /\ Accepted(Numbered(base, i))
      /\ \A i, j \in Nat : i # 1 /\ j # 1 /\ Numbered(base, i) = Numbered(base, j) => i = j
  BY <1>4, NumberedAccepted
<1>6. free # {}
  <2> SUFFICES ASSUME free = {}
               PROVE  FALSE
    OBVIOUS
  <2> DEFINE tries == 2..Cardinality(seen) + 2
             f == [i \in tries |-> Numbered(base, i)]
  <2>1. IsFiniteSet(tries) /\ Cardinality(tries) = Cardinality(seen) + 1
    <3>1. 2 \in Int /\ Cardinality(seen) + 2 \in Int
      BY <1>2
    <3>2. QED
      BY <1>2, <3>1, FS_Interval
  <2>2. f \in [tries -> seen]
    BY <1>2
  <2>3. \A i, j \in tries : f[i] = f[j] => i = j
    BY <1>2, <1>5
  <2> HIDE DEF tries, f
  <2>4. QED
    BY <1>2, <2>1, <2>2, <2>3, FS_PigeonHole
<1>7. free \in SUBSET Nat
  BY <1>2
<1>8. least \in free
  <2> HIDE DEF free
  <2>1. \E i \in free : \A j \in free : i <= j
    BY <1>6, <1>7, LeastNumber
  <2>2. QED
    BY <2>1
<1>9. least \in Nat /\ Numbered(base, least) \notin seen
  BY <1>7, <1>8
<1>10. QED
  BY <1>1, <1>5, <1>9

\* The names of a list of tools are finitely many.
LEMMA ToolNamesFinite ==
  ASSUME NEW ts \in Seq(Tool)
  PROVE  IsFiniteSet(ToolNames(ts))
<1>1. IsFiniteSet(1..Len(ts))
  BY FS_Interval
<1> DEFINE f == [i \in 1..Len(ts) |-> ts[i].name]
<1>2. f \in Surjection(1..Len(ts), ToolNames(ts))
  <2>1. f \in [1..Len(ts) -> ToolNames(ts)]
    BY DEF ToolNames
  <2>2. \A x \in ToolNames(ts) : \E i \in 1..Len(ts) : f[i] = x
    BY DEF ToolNames
  <2> HIDE DEF f
  <2>3. QED
    BY <2>1, <2>2, Fun_IsSurj
<1> HIDE DEF f
<1>3. QED
  BY <1>1, <1>2, FS_Surjection

\* Names that the API accepts and that differ.
Named(ts) ==
  /\ \A i \in 1..Len(ts) : Accepted(ts[i].name)
  /\ \A i, j \in 1..Len(ts) : ts[i].name = ts[j].name => i = j

\* Adapting appends the tools of the client in the order it lists them, and the
\* names stay apart.
LEMMA AdaptedIs ==
  ASSUME Numerals, NEW c \in DOMAIN servers, servers \in Seq(Server),
         NEW ts \in Seq(Tool), Named(ts)
  PROVE  /\ Adapted(ts, c) \in Seq(Tool)
         /\ Len(Adapted(ts, c)) = Len(ts) + Len(servers[c].tools)
         /\ \A i \in 1..Len(ts) : Adapted(ts, c)[i] = ts[i]
         /\ \A k \in 1..Len(servers[c].tools) :
              /\ Adapted(ts, c)[Len(ts) + k].real = servers[c].tools[k]
              /\ Adapted(ts, c)[Len(ts) + k].client = c
         /\ Named(Adapted(ts, c))
<1> DEFINE srv == servers[c]
           m == Len(srv.tools)
           name(x, n) == uniqueName(srv, srv.tools[n], ToolNames(x))
           more(x, n) == Append(x, [name |-> name(x, n), real |-> srv.tools[n], client |-> c])
           step == [n \in 1..m |-> [x \in Seq(Tool) |-> more(x, n)]]
           Runs(f) == f = [n \in 0..m |-> IF n = 0 THEN ts ELSE more(f[n - 1], n)]
<1>1. srv \in Server /\ m \in Nat /\ c \in Nat /\ \A n \in 1..m : srv.tools[n] \in Seq(STRING)
  <2>1. srv \in Server /\ c \in Nat
    OBVIOUS
  <2> HIDE DEF srv
  <2>2. srv.tools \in Seq(Seq(STRING))
    BY <2>1 DEF Server
  <2>3. QED
    BY <2>1, <2>2
<1>2. ASSUME NEW x \in Seq(Tool), NEW n \in 1..m
      PROVE  /\ more(x, n) \in Seq(Tool) /\ Len(more(x, n)) = Len(x) + 1
             /\ \A i \in 1..Len(x) : more(x, n)[i] = x[i]
             /\ more(x, n)[Len(x) + 1].real = srv.tools[n] /\ more(x, n)[Len(x) + 1].client = c
             /\ Named(x) => Named(more(x, n))
  <2> DEFINE t == [name |-> name(x, n), real |-> srv.tools[n], client |-> c]
  <2>1. /\ name(x, n) \in Seq(STRING) /\ Accepted(name(x, n)) /\ name(x, n) \notin ToolNames(x)
    BY <1>1, ToolNamesFinite, UniqueNameIs
  <2> HIDE DEF name
  <2>2. t \in Tool /\ t.name = name(x, n) /\ t.real = srv.tools[n] /\ t.client = c
    BY <1>1, <2>1 DEF Tool
  <2>3. more(x, n) = Append(x, t)
    OBVIOUS
  <2> HIDE DEF t, more
  <2>4. /\ more(x, n) \in Seq(Tool) /\ Len(more(x, n)) = Len(x) + 1
        /\ \A i \in 1..Len(x) : more(x, n)[i] = x[i]
        /\ more(x, n)[Len(x) + 1] = t
    BY <2>2, <2>3
  <2>5. /\ \A i : i \in 1..Len(more(x, n)) <=> i \in 1..Len(x) \/ i = Len(x) + 1
        /\ \A i : i \in 1..Len(x) => more(x, n)[i] = x[i]
        /\ \A i : i = Len(x) + 1 => more(x, n)[i] = t
    BY <2>4
  <2>6. \A i \in 1..Len(x) : x[i].name # t.name
    BY <2>1, <2>2 DEF ToolNames
  <2>7. Named(x) => Named(more(x, n))
    <3> DEFINE y == more(x, n)
    <3>1. \A i \in 1..Len(y) : (i \in 1..Len(x) /\ y[i] = x[i]) \/ (i = Len(x) + 1 /\ y[i] = t)
      BY <2>5, Zenon
    <3> HIDE DEF y
    <3>2. SUFFICES ASSUME Named(x) PROVE Named(y)
      BY DEF y
    <3>3. \A i \in 1..Len(y) : Accepted(y[i].name)
      BY <2>1, <2>2, <3>1, <3>2 DEF Named
    <3>4. ASSUME NEW i \in 1..Len(y), NEW j \in 1..Len(y), y[i].name = y[j].name
          PROVE  i = j
      BY <2>6, <3>1, <3>2, <3>4 DEF Named
    <3>5. QED
      BY <3>3, <3>4 DEF Named
  <2>8. QED
    BY <2>2, <2>4, <2>7
<1> HIDE DEF m, more
<1>3. step \in [1..m -> [Seq(Tool) -> Seq(Tool)]]
  BY <1>2
<1>4. PICK f \in [0..m -> Seq(Tool)] : Iteration(ts, step, m, f)
  <2> HIDE DEF step
  <2>1. QED
    BY <1>1, <1>3, Iterates
<1>5. Runs(f)
  <2>1. \A n \in 0..m : n # 0 => n \in 1..m /\ n - 1 \in 0..m
    BY <1>1
  <2>2. \A n \in 0..m : n # 0 => f[n - 1] \in Seq(Tool)
    BY <2>1
  <2>3. \A n \in 0..m : n # 0 => step[n][f[n - 1]] = more(f[n - 1], n)
    BY <2>1, <2>2
  <2>4. f = [n \in 0..m |-> f[n]]
    OBVIOUS
  <2>5. \A n \in 0..m : f[n] = IF n = 0 THEN ts ELSE step[n][f[n - 1]]
    BY <1>4 DEF Iteration
  <2> HIDE DEF step
  <2>6. \A n \in 0..m : f[n] = IF n = 0 THEN ts ELSE more(f[n - 1], n)
    BY <2>3, <2>5
  <2>7. QED
    BY <2>4, <2>6
<1> DEFINE g == CHOOSE h : Runs(h)
<1>6. Adapted(ts, c) = g[m]
  BY DEF Adapted, listTools, m, more
<1>7. Runs(g)
  BY <1>5
<1> HIDE DEF g
<1>8. g[0] = ts /\ \A n \in 1..m : g[n] = more(g[n - 1], n)
  <2>1. \A n \in 1..m : n \in 0..m /\ n # 0
    BY <1>1
  <2>2. 0 \in 0..m
    BY <1>1
  <2>3. \A n \in 0..m : g[n] = IF n = 0 THEN ts ELSE more(g[n - 1], n)
    BY <1>7
  <2>4. QED
    BY <2>1, <2>2, <2>3
<1> DEFINE Good(x, n) ==
      /\ x \in Seq(Tool) /\ Len(x) = Len(ts) + n
      /\ \A i \in 1..Len(ts) : x[i] = ts[i]
      /\ \A k \in 1..n : x[Len(ts) + k].real = srv.tools[k] /\ x[Len(ts) + k].client = c
      /\ Named(x)
           T == {n \in 0..m : Good(g[n], n)}
<1>9. 0 \in T
  BY <1>1, <1>8
<1>10. ASSUME NEW n \in 1..m, n - 1 \in T
       PROVE  n \in T
  <2>1. Good(g[n - 1], n - 1) /\ n \in 0..m /\ n \in Nat
    BY <1>1, <1>10
  <2> DEFINE x == g[n - 1]
             y == g[n]
  <2>2. y = more(x, n)
    BY <1>8
  <2> HIDE DEF x, y
  <2>3. Good(x, n - 1)
    BY <2>1 DEF x
  <2>4. /\ y \in Seq(Tool) /\ Len(y) = Len(x) + 1
        /\ \A i \in 1..Len(x) : y[i] = x[i]
        /\ y[Len(x) + 1].real = srv.tools[n] /\ y[Len(x) + 1].client = c
        /\ Named(y)
    BY <1>2, <2>2, <2>3
  <2>5. Len(ts) \in Nat /\ Len(x) = Len(ts) + (n - 1) /\ Len(y) = Len(ts) + n
    BY <2>1, <2>3, <2>4
  <2>6. \A i \in 1..Len(ts) : y[i] = ts[i]
    BY <2>1, <2>3, <2>4, <2>5
  <2>7. ASSUME NEW k \in 1..n
        PROVE  y[Len(ts) + k].real = srv.tools[k] /\ y[Len(ts) + k].client = c
    <3>1. CASE k = n
      <4>1. Len(ts) + k = Len(x) + 1
        BY <2>5, <2>1, <3>1
      <4>2. QED
        BY <2>4, <3>1, <4>1
    <3>2. CASE k # n
      <4>1. k \in 1..n - 1 /\ Len(ts) + k \in 1..Len(x)
        BY <2>1, <2>5, <3>2
      <4>2. QED
        BY <2>3, <2>4, <4>1
    <3>3. QED
      BY <3>1, <3>2
  <2>8. Good(y, n)
    BY <2>4, <2>5, <2>6, <2>7
  <2>9. QED
    BY <2>1, <2>8 DEF y
<1> HIDE DEF T
<1>11. m \in T
  <2>1. \A n \in 1..m : n - 1 \in T => n \in T
    BY <1>10
  <2>2. \A n \in 0..m : n \in T
    BY <1>1, <1>9, <2>1, CountsUp
  <2>3. QED
    BY <1>1, <2>2
<1>12. Good(g[m], m)
  BY <1>11 DEF T
<1>13. QED
  BY <1>6, <1>12 DEF m

\* The inductive invariant of Tools.
McpInv == McpTypeOK /\ ToolsInv

\* What the invariant says about the lists.
LEMMA McpFacts ==
  ASSUME McpTypeOK
  PROVE  /\ servers \in Seq(Server) /\ Len(servers) \in Nat /\ DOMAIN servers = 1..Len(servers)
         /\ tools \in Seq(Tool) /\ Len(tools) \in Nat /\ DOMAIN tools = 1..Len(tools)
         /\ at \in Nat /\ at >= 1 /\ at <= Len(servers) + 1
         /\ \A c \in DOMAIN servers :
              /\ servers[c].tools \in Seq(Seq(STRING)) /\ Len(servers[c].tools) \in Nat
              /\ DOMAIN servers[c].tools = 1..Len(servers[c].tools)
<1>1. servers \in Seq(Server)
  BY McpAssumption DEF McpTypeOK
<1>2. Len(servers) \in Nat /\ DOMAIN servers = 1..Len(servers)
  BY <1>1
<1>3. tools \in Seq(Tool) /\ Len(tools) \in Nat /\ DOMAIN tools = 1..Len(tools)
  BY DEF McpTypeOK
<1>4. at \in Nat /\ at >= 1 /\ at <= Len(servers) + 1
  BY <1>2 DEF McpTypeOK
<1>5. ASSUME NEW c \in DOMAIN servers
      PROVE  servers[c].tools \in Seq(Seq(STRING))
  <2>1. servers[c] \in Server
    BY <1>1
  <2>2. QED
    BY <2>1 DEF Server
<1>6. QED
  BY <1>1, <1>2, <1>3, <1>4, <1>5

\* A server is listed: its tools are appended.
LEMMA ListStep ==
  ASSUME Numerals, McpInv, ListTools
  PROVE  McpInv'
<1>1. McpTypeOK /\ ToolsInv
  BY DEF McpInv
<1>2. /\ servers \in Seq(Server) /\ Len(servers) \in Nat /\ DOMAIN servers = 1..Len(servers)
      /\ tools \in Seq(Tool) /\ Len(tools) \in Nat /\ DOMAIN tools = 1..Len(tools)
      /\ at \in Nat /\ at >= 1
      /\ \A c \in DOMAIN servers :
           /\ Len(servers[c].tools) \in Nat
           /\ DOMAIN servers[c].tools = 1..Len(servers[c].tools)
  BY <1>1, McpFacts
<1>3. /\ mpc = "list" /\ mpc' = "dial" /\ at' = at + 1 /\ tools' = Adapted(tools, at)
      /\ UNCHANGED <<servers, failed>>
  BY DEF ListTools
<1>4. at <= Len(servers) /\ at \in DOMAIN servers /\ failed \subseteq 1..at - 1
  BY <1>1, <1>2, <1>3 DEF McpTypeOK
<1>5. Named(tools)
  BY <1>1, <1>2 DEF ToolsInv, Named
<1> DEFINE l == Len(tools)
           m == Len(servers[at].tools)
<1>6. /\ tools' \in Seq(Tool)
      /\ Len(tools') = l + m
      /\ \A i \in 1..l : tools'[i] = tools[i]
      /\ \A k \in 1..m : tools'[l + k].real = servers[at].tools[k] /\ tools'[l + k].client = at
      /\ Named(tools')
  BY <1>2, <1>3, <1>4, <1>5, AdaptedIs
<1>7. l \in Nat /\ m \in Nat /\ DOMAIN tools' = 1..l + m
  BY <1>2, <1>4, <1>6
<1>8. McpTypeOK'
  <2>1. at' \in 1..Len(servers') + 1 /\ failed' \subseteq 1..at' - 1
    BY <1>2, <1>3, <1>4
  <2>2. QED
    BY <1>1, <1>3, <1>6, <2>1 DEF McpTypeOK
<1> HIDE DEF l, m
<1>9. \A i \in 1..l + m : i > l => tools'[i].client = at
  <2>1. \A i \in 1..l + m : i > l => i - l \in 1..m /\ i = l + (i - l)
    BY <1>7
  <2>2. QED
    BY <1>6, <2>1
<1>10. \A i \in 1..l : tools[i].client # at
  BY <1>1, <1>2, <1>4 DEF ToolsInv, Unserved, l
<1>11. ASSUME NEW c \in DOMAIN servers'
       PROVE  IF c < at' /\ c \notin failed' THEN Served(c)' ELSE Unserved(c)'
  <2>1. c \in DOMAIN servers /\ c \in Nat /\ servers' = servers
    BY <1>2, <1>3
  <2>2. CASE c = at
    <3>1. at < at' /\ at \notin failed'
      BY <1>2, <1>3, <1>4
    <3>2. l \in 0..Len(tools') /\ l + Len(servers'[c].tools) <= Len(tools')
      BY <1>3, <1>6, <1>7, <2>2 DEF m
    <3>3. \A i \in DOMAIN tools' : tools'[i].client = c <=> l < i /\ i <= l + Len(servers'[c].tools)
      BY <1>3, <1>6, <1>7, <1>9, <1>10, <2>2 DEF m
    <3>4. \A k \in DOMAIN servers'[c].tools : tools'[l + k].real = servers'[c].tools[k]
      BY <1>2, <1>3, <1>4, <1>6, <2>2 DEF m
    <3>5. Served(c)'
      BY <1>3, <2>1, <2>2, <3>2, <3>3, <3>4 DEF Served
    <3>6. QED
      BY <2>2, <3>1, <3>5
  <2>3. CASE c # at /\ c < at /\ c \notin failed
    <3>1. Served(c)
      BY <1>1, <2>1, <2>3 DEF ToolsInv
    <3>2. PICK o \in 0..l :
            /\ o + Len(servers[c].tools) <= l
            /\ \A i \in 1..l : tools[i].client = c <=> o < i /\ i <= o + Len(servers[c].tools)
            /\ \A k \in 1..Len(servers[c].tools) : tools[o + k].real = servers[c].tools[k]
      BY <1>2, <2>1, <3>1 DEF Served, l
    <3> DEFINE n == Len(servers[c].tools)
    <3>3. n \in Nat
      BY <1>2, <2>1
    <3>4. o \in 0..Len(tools') /\ o + n <= Len(tools')
      BY <1>6, <1>7, <3>2, <3>3
    <3>5. \A i \in 1..l + m : tools'[i].client = c <=> o < i /\ i <= o + n
      <4> SUFFICES ASSUME NEW i \in 1..l + m
                   PROVE  tools'[i].client = c <=> o < i /\ i <= o + n
        OBVIOUS
      <4>1. CASE i \in 1..l
        BY <1>6, <3>2, <4>1
      <4>2. CASE i \notin 1..l
        <5>1. i > l
          BY <1>7, <4>2
        <5>2. ~(i <= o + n)
          BY <1>7, <3>2, <3>3, <5>1
        <5>3. QED
          BY <1>9, <2>3, <5>1, <5>2
      <4>3. QED
        BY <4>1, <4>2
    <3>6. \A k \in 1..n : tools'[o + k].real = servers[c].tools[k]
      <4>1. \A k \in 1..n : o + k \in 1..l
        BY <1>7, <3>2, <3>3
      <4>2. QED
        BY <1>6, <3>2, <4>1
    <3> HIDE DEF n
    <3>7. Served(c)'
      BY <1>2, <1>7, <2>1, <3>4, <3>5, <3>6 DEF Served, n
    <3>8. c < at' /\ c \notin failed'
      BY <1>2, <1>3, <2>1, <2>3
    <3>9. QED
      BY <3>7, <3>8
  <2>4. CASE c # at /\ ~(c < at /\ c \notin failed)
    <3>1. Unserved(c)
      BY <1>1, <2>1, <2>4 DEF ToolsInv
    <3>2. \A i \in 1..l + m : tools'[i].client # c
      <4> SUFFICES ASSUME NEW i \in 1..l + m
                   PROVE  tools'[i].client # c
        OBVIOUS
      <4>1. CASE i \in 1..l
        BY <1>2, <1>6, <3>1, <4>1 DEF Unserved, l
      <4>2. CASE i \notin 1..l
        <5>1. i > l
          BY <1>7, <4>2
        <5>2. QED
          BY <1>9, <2>4, <5>1
      <4>3. QED
        BY <4>1, <4>2
    <3>3. Unserved(c)'
      BY <1>7, <3>2 DEF Unserved
    <3>4. ~(c < at' /\ c \notin failed')
      BY <1>2, <1>3, <2>1, <2>4
    <3>5. QED
      BY <3>3, <3>4
  <2>5. QED
    BY <2>2, <2>3, <2>4
<1>12. \A i \in DOMAIN tools' : tools'[i].client \in DOMAIN servers' /\ Accepted(tools'[i].name)
  <2>1. \A i \in 1..l + m : Accepted(tools'[i].name)
    BY <1>6 DEF Named
  <2>2. \A i \in 1..l + m : tools'[i].client \in DOMAIN servers
    <3> SUFFICES ASSUME NEW i \in 1..l + m
                 PROVE  tools'[i].client \in DOMAIN servers
      OBVIOUS
    <3>1. CASE i \in 1..l
      BY <1>1, <1>2, <1>6, <3>1 DEF ToolsInv, l
    <3>2. CASE i \notin 1..l
      BY <1>4, <1>7, <1>9, <3>2
    <3>3. QED
      BY <3>1, <3>2
  <2>3. QED
    BY <1>3, <1>7, <2>1, <2>2
<1>13. \A i, j \in DOMAIN tools' : tools'[i].name = tools'[j].name => i = j
  BY <1>6, <1>7 DEF Named
<1>14. ToolsInv'
  BY <1>3, <1>11, <1>12, <1>13 DEF ToolsInv
<1>15. QED
  BY <1>8, <1>14 DEF McpInv

\* A server that does not dial or list is passed over.
LEMMA FailStep ==
  ASSUME McpInv, DialFails \/ ListFails
  PROVE  McpInv'
<1>1. McpTypeOK /\ ToolsInv
  BY DEF McpInv
<1>2. /\ Len(servers) \in Nat /\ DOMAIN servers = 1..Len(servers) /\ at \in Nat /\ at >= 1
  BY <1>1, McpFacts
<1>3. /\ mpc' = "dial" /\ at' = at + 1 /\ failed' = failed \cup {at} /\ UNCHANGED <<servers, tools>>
      /\ at <= Len(servers)
  BY <1>1 DEF DialFails, ListFails, McpTypeOK
<1>4. McpTypeOK'
  <2>1. at' \in 1..Len(servers') + 1
    BY <1>2, <1>3
  <2>2. failed' \subseteq 1..at' - 1
    BY <1>1, <1>2, <1>3 DEF McpTypeOK
  <2>3. QED
    BY <1>1, <1>3, <2>1, <2>2 DEF McpTypeOK
<1>5. \A c \in DOMAIN servers : (c < at' /\ c \notin failed') <=> (c < at /\ c \notin failed)
  BY <1>2, <1>3
<1>6. \A c : (Served(c)' <=> Served(c)) /\ (Unserved(c)' <=> Unserved(c))
  BY <1>3 DEF Served, Unserved
<1>7. \A c \in DOMAIN servers' : IF c < at' /\ c \notin failed' THEN Served(c)' ELSE Unserved(c)'
  BY <1>1, <1>3, <1>5, <1>6 DEF ToolsInv
<1>8. ToolsInv'
  BY <1>1, <1>3, <1>7 DEF ToolsInv, Accepted
<1>9. QED
  BY <1>4, <1>8 DEF McpInv

\* The loop is over: an error if there were servers and every one failed.
LEMMA ReturnStep ==
  ASSUME McpInv, Return
  PROVE  McpInv'
<1>1. McpTypeOK /\ ToolsInv
  BY DEF McpInv
<1>2. Len(servers) \in Nat /\ DOMAIN servers = 1..Len(servers) /\ servers \in Seq(Server)
      /\ at \in Nat /\ at >= 1 /\ at <= Len(servers) + 1
  BY <1>1, McpFacts
<1>3. /\ mpc' = "returned" /\ at > Len(servers) /\ UNCHANGED <<servers, at, failed>>
      /\ toolsErr' = (Len(servers) > 0 /\ Cardinality(failed) = Len(servers))
      /\ tools' = IF Len(servers) > 0 /\ Cardinality(failed) = Len(servers) THEN <<>> ELSE tools
  BY DEF Return
<1>4. at = Len(servers) + 1 /\ failed \in SUBSET (1..Len(servers))
  BY <1>1, <1>2, <1>3 DEF McpTypeOK
<1>5. Cardinality(failed) = Len(servers) <=> failed = 1..Len(servers)
  <2>1. IsFiniteSet(1..Len(servers)) /\ Cardinality(1..Len(servers)) = Len(servers)
    <3>1. Len(servers) \in Int /\ 1 \in Int
      BY <1>2
    <3>2. /\ IsFiniteSet(1..Len(servers))
          /\ Cardinality(1..Len(servers)) = IF 1 > Len(servers) THEN 0 ELSE Len(servers) - 1 + 1
      BY <3>1, FS_Interval
    <3>3. QED
      BY <1>2, <3>2
  <2>2. Cardinality(failed) = Cardinality(1..Len(servers)) => failed = 1..Len(servers)
    BY <1>4, <2>1, FS_Subset
  <2>3. QED
    BY <2>1, <2>2
<1>6. Len(servers) > 0 <=> servers # <<>>
  <2>1. servers # <<>> => Len(servers) \in Nat \ {0}
    BY <1>2, EmptySeq, Zenon
  <2>2. servers = <<>> => Len(servers) = 0
    BY EmptySeq, Zenon
  <2>3. QED
    BY <2>1, <2>2
<1>7. toolsErr' <=> servers' # <<>> /\ DOMAIN servers' \subseteq failed'
  BY <1>2, <1>3, <1>4, <1>5, <1>6
<1>8. McpTypeOK'
  <2>1. tools' \in Seq(Tool)
    BY <1>1, <1>3, EmptySeq DEF McpTypeOK
  <2>2. QED
    BY <1>1, <1>3, <1>4, <2>1 DEF McpTypeOK
<1>9. CASE tools' = tools
  <2>1. \A c : (Served(c)' <=> Served(c)) /\ (Unserved(c)' <=> Unserved(c))
    BY <1>3, <1>9 DEF Served, Unserved
  <2>2. \A c \in DOMAIN servers' : IF c < at' /\ c \notin failed' THEN Served(c)' ELSE Unserved(c)'
    BY <1>1, <1>3, <2>1 DEF ToolsInv
  <2>3. ToolsInv'
    BY <1>1, <1>3, <1>7, <1>9, <2>2 DEF ToolsInv, Accepted
  <2>4. QED
    BY <1>8, <2>3 DEF McpInv
<1>10. CASE tools' # tools
  <2>1. tools' = <<>> /\ DOMAIN servers' \subseteq failed'
    BY <1>2, <1>3, <1>5, <1>10
  <2>2. DOMAIN tools' = {}
    BY <2>1
  <2>3. ToolsInv'
    BY <1>3, <1>7, <2>1, <2>2 DEF ToolsInv, Unserved
  <2>4. QED
    BY <1>8, <2>3 DEF McpInv
<1>11. QED
  BY <1>9, <1>10

\* Dialling, closing and exits leave the tools alone.
LEMMA OtherStep ==
  ASSUME McpInv,
         \/ Dial
         \/ \E errs \in SUBSET closer : Close(errs)
         \/ \E c \in open : Exit(c)
         \/ UNCHANGED mvars
  PROVE  McpInv'
<1>1. McpTypeOK /\ ToolsInv
  BY DEF McpInv
<1>2. /\ UNCHANGED <<servers, at, tools, failed, toolsErr>>
      /\ \/ mpc' = mpc
         \/ mpc' = "list" /\ at <= Len(servers)
         \/ mpc' = "closed" /\ at = Len(servers) + 1
  BY <1>1 DEF Dial, Close, Exit, mvars, McpTypeOK
<1>3. McpTypeOK'
  BY <1>1, <1>2 DEF McpTypeOK
<1>4. \A c : (Served(c)' <=> Served(c)) /\ (Unserved(c)' <=> Unserved(c))
  BY <1>2 DEF Served, Unserved
<1>5. ToolsInv'
  BY <1>1, <1>2, <1>4 DEF ToolsInv, Accepted
<1>6. QED
  BY <1>3, <1>5 DEF McpInv

\* mcp.Tools, whatever the servers list, however often names collide and
\* whichever servers fail.
THEOREM McpInvariant ==
  ASSUME Numerals
  PROVE  McpSpec => []McpInv
<1>1. McpInit => McpInv
  <2> SUFFICES ASSUME McpInit
               PROVE  McpInv
    OBVIOUS
  <2>1. servers \in Seq(Server) /\ Len(servers) \in Nat /\ DOMAIN servers = 1..Len(servers)
    BY McpAssumption DEF McpInit
  <2>2. tools = <<>> /\ DOMAIN tools = {} /\ tools \in Seq(Tool)
    BY EmptySeq DEF McpInit
  <2>3. McpTypeOK
    BY <2>1, <2>2 DEF McpInit, McpTypeOK
  <2>4. ToolsInv
    BY <2>1, <2>2 DEF McpInit, ToolsInv, Unserved
  <2>5. QED
    BY <2>3, <2>4 DEF McpInv
<1>2. McpInv /\ [McpNext]_mvars => McpInv'
  BY ListStep, FailStep, ReturnStep, OtherStep DEF McpNext
<1>3. QED
  BY <1>1, <1>2, PTL DEF McpSpec

\* Tools serves what the working servers listed, in order, under names that
\* differ and that the API accepts, and errs only when every server failed.
THEOREM WorkingToolsServedAlways ==
  ASSUME Numerals
  PROVE  McpSpec => []WorkingToolsServed
<1>1. McpInv => WorkingToolsServed
  <2> SUFFICES ASSUME McpInv, mpc = "returned"
               PROVE  WorkingToolsServed
    BY DEF WorkingToolsServed
  <2>1. McpTypeOK /\ ToolsInv
    BY DEF McpInv
  <2>2. /\ servers \in Seq(Server) /\ Len(servers) \in Nat /\ DOMAIN servers = 1..Len(servers)
        /\ Len(tools) \in Nat /\ DOMAIN tools = 1..Len(tools)
        /\ \A c \in DOMAIN servers :
              /\ servers[c].tools \in Seq(Seq(STRING)) /\ Len(servers[c].tools) \in Nat
              /\ DOMAIN servers[c].tools = 1..Len(servers[c].tools)
    BY <2>1, McpFacts
  <2> DEFINE works == DOMAIN servers \ failed
  <2>3. toolsErr <=> servers # <<>> /\ works = {}
    BY <2>1 DEF ToolsInv
  <2>4. ASSUME NEW c \in DOMAIN servers
        PROVE  LET mine == Ascending({i \in DOMAIN tools : tools[i].client = c})
               IN  [k \in DOMAIN mine |-> tools[mine[k]].real]
                     = IF c \in works THEN servers[c].tools ELSE <<>>
    <3> DEFINE P == {i \in DOMAIN tools : tools[i].client = c}
               n == Len(servers[c].tools)
    <3>1. c < at /\ n \in Nat
      BY <2>1, <2>2 DEF McpTypeOK
    <3>2. CASE c \in works
      <4>1. Served(c)
        BY <2>1, <3>1, <3>2 DEF ToolsInv
      <4>2. PICK o \in 0..Len(tools) :
              /\ o + n <= Len(tools)
              /\ \A i \in 1..Len(tools) : tools[i].client = c <=> o < i /\ i <= o + n
              /\ \A k \in 1..n : tools[o + k].real = servers[c].tools[k]
        BY <2>2, <4>1 DEF Served
      <4>3. P = o + 1..o + n /\ o \in Nat
        BY <2>2, <3>1, <4>2
      <4> HIDE DEF P
      <4>4. Ascending(P) = [k \in 1..n |-> o + k]
        BY <3>1, <4>3, AscendingInterval
      <4>5. [k \in DOMAIN Ascending(P) |-> tools[Ascending(P)[k]].real]
              = [k \in 1..n |-> servers[c].tools[k]]
        BY <4>2, <4>4
      <4>6. servers[c].tools = [k \in 1..n |-> servers[c].tools[k]]
        <5> DEFINE ts == servers[c].tools
        <5>1. ts \in Seq(Seq(STRING)) /\ DOMAIN ts = 1..n
          BY <2>2
        <5> HIDE DEF ts
        <5>2. ts = [k \in 1..n |-> ts[k]]
          BY <5>1
        <5>3. QED
          BY <5>2 DEF ts
      <4>7. QED
        BY <3>2, <4>5, <4>6 DEF P
    <3>3. CASE c \notin works
      <4>1. P = {}
        BY <2>1, <3>3 DEF ToolsInv, Unserved
      <4>2. P = 0 + 1..0 + 0
        BY <4>1
      <4> HIDE DEF P
      <4>3. Ascending(P) = [k \in 1..0 |-> 0 + k]
        BY <4>2, AscendingInterval
      <4>4. [k \in DOMAIN Ascending(P) |-> tools[Ascending(P)[k]].real] = <<>>
        BY <4>3
      <4>5. QED
        BY <3>3, <4>4 DEF P
    <3>4. QED
      BY <3>2, <3>3
  <2>5. QED
    BY <2>1, <2>3, <2>4 DEF WorkingToolsServed, ToolsInv
<1>2. QED
  BY <1>1, McpInvariant, PTL

-------------------------------------------------------------------------------
(* mcp.Tools: subprocesses *)

\* Every step of Tools and of Close keeps each open client within reach of the
\* closer, or of the failure path of the listing that is going on.
LEMMA NoLeakStep == NoLeak /\ [McpNext]_mvars => NoLeak'
<1> SUFFICES ASSUME NoLeak, [McpNext]_mvars
             PROVE  NoLeak'
  OBVIOUS
<1>1. CASE Dial
  BY <1>1 DEF NoLeak, Dial
<1>2. CASE DialFails
  BY <1>2 DEF NoLeak, DialFails
<1>3. CASE ListTools
  BY <1>3 DEF NoLeak, ListTools
<1>4. CASE ListFails
  BY <1>4 DEF NoLeak, ListFails
<1>5. CASE Return
  <2>1. open \subseteq closer
    BY <1>5 DEF NoLeak, Return
  <2>2. open' = {} \/ (open' = open /\ toolsErr' = FALSE)
    BY <1>5, <2>1 DEF Return
  <2> QED
    BY <1>5, <2>1, <2>2 DEF NoLeak, Return
<1>6. ASSUME NEW errs \in SUBSET closer, Close(errs)
      PROVE  NoLeak'
  <2>1. open \subseteq closer
    BY <1>6 DEF NoLeak, Close
  <2> QED
    BY <1>6, <2>1 DEF NoLeak, Close
<1>7. ASSUME NEW c \in open, Exit(c)
      PROVE  NoLeak'
  BY <1>7 DEF NoLeak, Exit
<1>8. CASE UNCHANGED mvars
  BY <1>8 DEF NoLeak, mvars
<1> QED
  BY <1>1, <1>2, <1>3, <1>4, <1>5, <1>6, <1>7, <1>8 DEF McpNext

\* mcp.Tools and multiCloser: a client that was started is closed by the failure
\* path of its listing or reached by the closer, and after an error or a Close
\* none is left open.
THEOREM NoLeakAlways == McpSpec => []NoLeak
<1>1. McpInit => NoLeak
  BY DEF McpInit, NoLeak
<1> QED
  BY <1>1, NoLeakStep, PTL DEF McpSpec

-------------------------------------------------------------------------------
(* Skills: the types of parseSkillMd and Load *)

\* Trimming keeps the lines from the first to the last that is not blank.
LEMMA TrimIs ==
  ASSUME NEW ls \in Seq(SkillLine)
  PROVE  /\ TrimLines(ls) \in Seq(SkillLine)
         /\ \A a, b \in 1..Len(ls) :
              /\ ls[a].kind # "blank" /\ ls[b].kind # "blank"
              /\ \A i \in 1..Len(ls) : ls[i].kind # "blank" => a <= i /\ i <= b
              => TrimLines(ls) = SubSeq(ls, a, b)
         /\ (\A i \in 1..Len(ls) : ls[i].kind = "blank") => TrimLines(ls) = <<>>
<1> DEFINE full == {i \in DOMAIN ls : ls[i].kind # "blank"}
<1>1. Len(ls) \in Nat /\ DOMAIN ls = 1..Len(ls) /\ full \in SUBSET (0..Len(ls))
  OBVIOUS
<1>2. TrimLines(ls) = IF full = {} THEN <<>> ELSE SubSeq(ls, Min(full), Max(full))
  BY DEF TrimLines
<1>3. \A i : i \in full <=> i \in 1..Len(ls) /\ ls[i].kind # "blank"
  BY <1>1
<1> HIDE DEF full
<1>4. full # {} => /\ Min(full) \in full /\ Max(full) \in full
                   /\ \A y \in full : Min(full) <= y /\ y <= Max(full)
  BY <1>1, MinMaxIs
<1>5. TrimLines(ls) \in Seq(SkillLine)
  <2>1. CASE full = {}
    BY <1>2, <2>1, EmptySeq
  <2>2. CASE full # {}
    <3>1. Min(full) \in 1..Len(ls) /\ Max(full) \in 1..Len(ls)
      BY <1>3, <1>4, <2>2
    <3>2. Min(full) \in Int /\ Max(full) \in Int
          /\ \A i \in Min(full)..Max(full) : ls[i] \in SkillLine
      BY <1>1, <3>1
    <3>3. SubSeq(ls, Min(full), Max(full)) \in Seq(SkillLine)
      BY <3>2, SubSeqProperties
    <3>4. QED
      BY <1>2, <2>2, <3>3
  <2>3. QED
    BY <2>1, <2>2
<1>6. ASSUME NEW a \in 1..Len(ls), NEW b \in 1..Len(ls),
             ls[a].kind # "blank", ls[b].kind # "blank",
             \A i \in 1..Len(ls) : ls[i].kind # "blank" => a <= i /\ i <= b
      PROVE  TrimLines(ls) = SubSeq(ls, a, b)
  <2>1. a \in full /\ b \in full /\ full # {} /\ \A i \in full : a <= i /\ i <= b
    BY <1>3, <1>6
  <2>2. Min(full) = a /\ Max(full) = b
    <3>1. Min(full) \in Nat /\ Max(full) \in Nat /\ a \in Nat /\ b \in Nat
      BY <1>1, <1>3, <1>4, <2>1
    <3>2. QED
      BY <1>4, <2>1, <3>1
  <2>3. QED
    BY <1>2, <2>1, <2>2
<1>7. (\A i \in 1..Len(ls) : ls[i].kind = "blank") => TrimLines(ls) = <<>>
  BY <1>2, <1>3
<1>8. QED
  BY <1>5, <1>6, <1>7

\* What parseSkillMd keeps between two lines.
ParseState == [inFront : BOOLEAN, sawDelim : BOOLEAN, name : Nat, body : Seq(SkillLine), err : BOOLEAN]
ParseStart == [inFront |-> FALSE, sawDelim |-> FALSE, name |-> 0, body |-> <<>>, err |-> FALSE]

\* What becomes of it, line by line.
LEMMA ParseLineCases ==
  ASSUME NEW p \in ParseState, NEW l \in SkillLine
  PROVE  /\ ~p.inFront /\ ~p.sawDelim /\ l.kind = "delim"
              => ParseLine(p, l) = [p EXCEPT !.inFront = TRUE, !.sawDelim = TRUE]
         /\ ~p.inFront /\ (p.sawDelim \/ l.kind # "delim")
              => ParseLine(p, l) = [p EXCEPT !.body = Append(@, l)]
         /\ p.inFront /\ l.kind = "delim" => ParseLine(p, l) = [p EXCEPT !.inFront = FALSE]
         /\ p.inFront /\ l.kind = "text" => ParseLine(p, l) = [p EXCEPT !.err = TRUE]
         /\ p.inFront /\ l.kind = "name" => ParseLine(p, l) = [p EXCEPT !.name = l.val]
         /\ p.inFront /\ l.kind \notin {"delim", "text", "name"} => ParseLine(p, l) = p
<1>1. "delim" # "text" /\ "delim" # "name" /\ "text" # "name"
  OBVIOUS
<1>2. QED
  BY <1>1 DEF ParseLine

\* A line leaves a state of the parser.
LEMMA ParseLineType ==
  ASSUME NEW p \in ParseState, NEW l \in SkillLine
  PROVE  ParseLine(p, l) \in ParseState
<1>1. l.val \in Nat /\ Append(p.body, l) \in Seq(SkillLine)
  BY DEF ParseState, SkillLine
<1>2. CASE ~p.inFront /\ ~p.sawDelim /\ l.kind = "delim"
  <2>1. ParseLine(p, l) = [p EXCEPT !.inFront = TRUE, !.sawDelim = TRUE]
    BY <1>2, ParseLineCases
  <2>2. QED
    BY <2>1 DEF ParseState
<1>3. CASE ~p.inFront /\ (p.sawDelim \/ l.kind # "delim")
  <2>1. ParseLine(p, l) = [p EXCEPT !.body = Append(@, l)]
    BY <1>3, ParseLineCases
  <2>2. QED
    BY <1>1, <2>1 DEF ParseState
<1>4. CASE p.inFront
  <2>1. \/ ParseLine(p, l) = [p EXCEPT !.inFront = FALSE]
        \/ ParseLine(p, l) = [p EXCEPT !.err = TRUE]
        \/ ParseLine(p, l) = [p EXCEPT !.name = l.val]
        \/ ParseLine(p, l) = p
    BY <1>4, ParseLineCases
  <2>2. QED
    BY <1>1, <2>1 DEF ParseState
<1>5. QED
  BY <1>2, <1>3, <1>4

\* parseSkillMd reads every line, and errs or makes a skill of what it kept.
LEMMA ParseRuns ==
  ASSUME NEW ls \in Seq(SkillLine)
  PROVE  \E g \in [0..Len(ls) -> ParseState] :
           /\ g[0] = ParseStart
           /\ \A n \in 1..Len(ls) : g[n] = ParseLine(g[n - 1], ls[n])
           /\ parseSkillMd(ls) = IF g[Len(ls)].err \/ \E i \in DOMAIN ls : ls[i].kind = "long"
                                 THEN ParseError
                                 ELSE Skill(g[Len(ls)].name, TrimLines(g[Len(ls)].body), <<>>)
<1> DEFINE m == Len(ls)
           step == [n \in 1..m |-> [p \in ParseState |-> ParseLine(p, ls[n])]]
           Runs(f) == f = [n \in 0..m |-> IF n = 0 THEN ParseStart ELSE ParseLine(f[n - 1], ls[n])]
<1>1. m \in Nat /\ \A n \in 1..m : ls[n] \in SkillLine
  OBVIOUS
<1>2. ParseStart \in ParseState
  BY EmptySeq DEF ParseStart, ParseState
<1>3. step \in [1..m -> [ParseState -> ParseState]]
  BY <1>1, ParseLineType
<1>4. PICK f \in [0..m -> ParseState] : Iteration(ParseStart, step, m, f)
  <2> HIDE DEF step, m
  <2>1. QED
    BY <1>1, <1>2, <1>3, Iterates
<1> HIDE DEF m
<1>5. \A n \in 0..m : n # 0 => n \in 1..m /\ n - 1 \in 0..m
  BY <1>1
<1>6. \A n \in 0..m : n # 0 => step[n][f[n - 1]] = ParseLine(f[n - 1], ls[n])
  <2>1. \A n \in 0..m : n # 0 => f[n - 1] \in ParseState
    BY <1>5
  <2>2. QED
    BY <1>5, <2>1
<1> HIDE DEF step
<1>7. \A n \in 0..m : f[n] = IF n = 0 THEN ParseStart ELSE ParseLine(f[n - 1], ls[n])
  <2>1. \A n \in 0..m : f[n] = IF n = 0 THEN ParseStart ELSE step[n][f[n - 1]]
    BY <1>4 DEF Iteration
  <2>2. QED
    BY <1>6, <2>1
<1>8. Runs(f)
  <2>1. f = [n \in 0..m |-> f[n]]
    OBVIOUS
  <2>2. QED
    BY <1>7, <2>1
<1> DEFINE g == CHOOSE h : Runs(h)
<1>9. Runs(g)
  BY <1>8
<1>10. parseSkillMd(ls) = IF g[m].err \/ \E i \in DOMAIN ls : ls[i].kind = "long"
                          THEN ParseError
                          ELSE Skill(g[m].name, TrimLines(g[m].body), <<>>)
  BY DEF parseSkillMd, ParseStart, m
<1> HIDE DEF g
<1>11. g[0] = ParseStart /\ \A n \in 1..m : g[n] = ParseLine(g[n - 1], ls[n])
  <2>1. \A n \in 0..m : g[n] = IF n = 0 THEN ParseStart ELSE ParseLine(g[n - 1], ls[n])
    BY <1>9
  <2>2. 0 \in 0..m /\ \A n \in 1..m : n \in 0..m /\ n # 0
    BY <1>1
  <2>3. QED
    BY <2>1, <2>2
<1>12. g \in [0..m -> ParseState]
  <2> DEFINE T == {n \in 0..m : g[n] \in ParseState}
  <2>1. 0 \in T
    BY <1>1, <1>2, <1>11
  <2>2. ASSUME NEW n \in 1..m, n - 1 \in T
        PROVE  n \in T
    <3>1. n \in 0..m /\ g[n] = ParseLine(g[n - 1], ls[n]) /\ g[n - 1] \in ParseState
      BY <1>1, <1>11, <2>2
    <3>2. QED
      BY <1>1, <3>1, ParseLineType
  <2> HIDE DEF T
  <2>3. \A n \in 0..m : n \in T
    BY <1>1, <2>1, <2>2, CountsUp
  <2>4. \A n \in 0..m : g[n] \in ParseState
    BY <2>3 DEF T
  <2>5. g = [n \in 0..m |-> g[n]]
    BY <1>9
  <2>6. QED
    BY <2>4, <2>5
<1>13. QED
  BY <1>10, <1>11, <1>12 DEF m

\* What parseSkillMd makes has no tools.
LEMMA ParsedSkill ==
  ASSUME NEW ls \in Seq(SkillLine), parseSkillMd(ls) # ParseError
  PROVE  parseSkillMd(ls) \in Skills /\ parseSkillMd(ls).tools = <<>>
<1>1. PICK g \in [0..Len(ls) -> ParseState] :
        parseSkillMd(ls) = IF g[Len(ls)].err \/ \E i \in DOMAIN ls : ls[i].kind = "long"
                           THEN ParseError
                           ELSE Skill(g[Len(ls)].name, TrimLines(g[Len(ls)].body), <<>>)
  BY ParseRuns
<1> DEFINE p == g[Len(ls)]
<1>2. p \in ParseState
  OBVIOUS
<1>3. parseSkillMd(ls) = Skill(p.name, TrimLines(p.body), <<>>)
  BY <1>1
<1> HIDE DEF p
<1>4. p.name \in Nat /\ p.body \in Seq(SkillLine)
  BY <1>2 DEF ParseState
<1>5. TrimLines(p.body) \in Seq(SkillLine) /\ <<>> \in Seq(AgentTool)
  BY <1>4, TrimIs, EmptySeq
<1>6. QED
  BY <1>3, <1>4, <1>5 DEF Skill, Skills

\* A Set as Load builds it: no skill in it has tools yet.
Loaded(s) ==
  /\ IsFiniteSet(DOMAIN s) /\ DOMAIN s \subseteq Nat
  /\ s = [n \in DOMAIN s |-> s[n]]
  /\ \A n \in DOMAIN s : s[n] \in Skills /\ s[n].name = n /\ s[n].tools = <<>>

\* The skill a file adds to a Set, if it is read and parsed.
FileSkill(f) ==
  LET sk == parseSkillMd(f.lines)
  IN  IF sk.name = 0 THEN [sk EXCEPT !.name = f.dir] ELSE sk

\* It has the name of the file, or of its directory, and the parsed prompt.
LEMMA FileSkillIs ==
  ASSUME NEW f \in SkillFile, parseSkillMd(f.lines) # ParseError
  PROVE  /\ FileSkill(f) \in Skills /\ FileSkill(f).tools = <<>>
         /\ FileSkill(f).prompt = parseSkillMd(f.lines).prompt
         /\ FileSkill(f).name = IF parseSkillMd(f.lines).name = 0 THEN f.dir
                                ELSE parseSkillMd(f.lines).name
<1> DEFINE sk == parseSkillMd(f.lines)
<1>1. sk \in Skills /\ sk.tools = <<>>
  <2>1. f.lines \in Seq(SkillLine)
    BY DEF SkillFile
  <2>2. QED
    BY <2>1, ParsedSkill
<1>2. f.dir \in Nat
  BY DEF SkillFile
<1>3. FileSkill(f) = IF sk.name = 0 THEN [sk EXCEPT !.name = f.dir] ELSE sk
  BY DEF FileSkill
<1> HIDE DEF sk
<1>4. /\ FileSkill(f) \in Skills /\ FileSkill(f).tools = <<>>
      /\ FileSkill(f).prompt = sk.prompt
      /\ FileSkill(f).name = IF sk.name = 0 THEN f.dir ELSE sk.name
  BY <1>1, <1>2, <1>3 DEF Skills
<1>5. QED
  BY <1>4 DEF sk

\* Adding a skill whose name is neither empty nor taken.
LEMMA AddIs ==
  ASSUME NEW s, NEW sk, ~SetAddFails(s, sk)
  PROVE  /\ DOMAIN SetAdd(s, sk) = DOMAIN s \cup {sk.name}
         /\ SetAdd(s, sk)[sk.name] = sk
         /\ sk.name \notin DOMAIN s
         /\ \A n \in DOMAIN s : SetAdd(s, sk)[n] = s[n]
         /\ SetAdd(s, sk) = [n \in DOMAIN SetAdd(s, sk) |-> SetAdd(s, sk)[n]]
<1>1. SetAdd(s, sk) = [n \in DOMAIN s \cup {sk.name} |-> IF n = sk.name THEN sk ELSE s[n]]
  BY DEF SetAdd
<1>2. sk.name \notin DOMAIN s
  BY DEF SetAddFails
<1> HIDE DEF SetAdd
<1>3. QED
  BY <1>1, <1>2

\* One file of the walk.
LEMMA LoadFileIs ==
  ASSUME NEW s, Loaded(s), NEW f \in SkillFile
  PROVE  Loaded(LoadFile(s, f))
<1>1. CASE LoadFile(s, f) = s
  BY <1>1
<1>2. CASE LoadFile(s, f) # s
  <2> DEFINE sk == FileSkill(f)
  <2>1. parseSkillMd(f.lines) # ParseError /\ LoadFile(s, f) = SetAdd(s, sk) /\ ~SetAddFails(s, sk)
    BY <1>2 DEF LoadFile, FileSkill, SetAdd
  <2>2. sk \in Skills /\ sk.tools = <<>>
    BY <2>1, FileSkillIs
  <2> HIDE DEF sk
  <2> DEFINE t == SetAdd(s, sk)
  <2>3. /\ DOMAIN t = DOMAIN s \cup {sk.name} /\ t[sk.name] = sk
        /\ \A n \in DOMAIN s : t[n] = s[n]
        /\ t = [n \in DOMAIN t |-> t[n]]
    BY <2>1, AddIs
  <2>4. sk.name \in Nat
    BY <2>2 DEF Skills
  <2> HIDE DEF t
  <2>5. IsFiniteSet(DOMAIN t)
    BY <2>3, FS_AddElement DEF Loaded
  <2>6. Loaded(t)
    BY <2>2, <2>3, <2>4, <2>5 DEF Loaded
  <2>7. QED
    BY <2>1, <2>6 DEF t
<1>3. QED
  BY <1>1, <1>2

\* Load goes over every file of the walk.
LEMMA LoadRuns ==
  ASSUME NEW w \in Seq(SkillFile)
  PROVE  \E g : /\ g[0] = NewSet
                /\ \A n \in 1..Len(w) : g[n] = LoadFile(g[n - 1], w[n])
                /\ \A n \in 0..Len(w) : Loaded(g[n])
                /\ Load(w) = g[Len(w)]
<1> DEFINE m == Len(w)
           S == {s \in UNION {[D -> Skills] : D \in SUBSET Nat} : Loaded(s)}
           step == [n \in 1..m |-> [s \in S |-> LoadFile(s, w[n])]]
           Runs(f) == f = [n \in 0..m |-> IF n = 0 THEN NewSet ELSE LoadFile(f[n - 1], w[n])]
<1>1. m \in Nat /\ \A n \in 1..m : w[n] \in SkillFile
  OBVIOUS
<1>2. \A s : s \in S <=> Loaded(s)
  <2> SUFFICES ASSUME NEW s, Loaded(s)
               PROVE  s \in UNION {[D -> Skills] : D \in SUBSET Nat}
    OBVIOUS
  <2>1. DOMAIN s \in SUBSET Nat /\ s \in [DOMAIN s -> Skills]
    BY DEF Loaded
  <2>2. QED
    BY <2>1
<1> HIDE DEF S
<1>3. Loaded(NewSet)
  <2>1. DOMAIN NewSet = {} /\ NewSet = [n \in DOMAIN NewSet |-> NewSet[n]]
    BY DEF NewSet
  <2>2. QED
    BY <2>1, FS_EmptySet DEF Loaded
<1>4. \A s, n : Loaded(s) /\ n \in 1..m => Loaded(LoadFile(s, w[n]))
  BY <1>1, LoadFileIs
<1>5. step \in [1..m -> [S -> S]]
  BY <1>2, <1>4
<1>6. PICK f \in [0..m -> S] : Iteration(NewSet, step, m, f)
  <2> HIDE DEF step, m
  <2>1. QED
    BY <1>1, <1>2, <1>3, <1>5, Iterates
<1> HIDE DEF m
<1>7. \A n \in 0..m : n # 0 => n \in 1..m /\ n - 1 \in 0..m
  BY <1>1
<1>8. \A n \in 0..m : n # 0 => step[n][f[n - 1]] = LoadFile(f[n - 1], w[n])
  <2>1. \A n \in 0..m : n # 0 => f[n - 1] \in S
    BY <1>7
  <2>2. QED
    BY <1>7, <2>1
<1> HIDE DEF step
<1>9. Runs(f)
  <2>1. f = [n \in 0..m |-> f[n]]
    OBVIOUS
  <2>2. \A n \in 0..m : f[n] = IF n = 0 THEN NewSet ELSE step[n][f[n - 1]]
    BY <1>6 DEF Iteration
  <2>3. \A n \in 0..m : f[n] = IF n = 0 THEN NewSet ELSE LoadFile(f[n - 1], w[n])
    BY <1>8, <2>2
  <2>4. QED
    BY <2>1, <2>3
<1> DEFINE g == CHOOSE h : Runs(h)
<1>10. Runs(g)
  BY <1>9
<1>11. Load(w) = g[m]
  BY DEF Load, m
<1> HIDE DEF g
<1>12. g[0] = NewSet /\ \A n \in 1..m : g[n] = LoadFile(g[n - 1], w[n])
  <2>1. \A n \in 0..m : g[n] = IF n = 0 THEN NewSet ELSE LoadFile(g[n - 1], w[n])
    BY <1>10
  <2>2. 0 \in 0..m /\ \A n \in 1..m : n \in 0..m /\ n # 0
    BY <1>1
  <2>3. QED
    BY <2>1, <2>2
<1>13. \A n \in 0..m : Loaded(g[n])
  <2> DEFINE T == {n \in 0..m : Loaded(g[n])}
  <2>1. 0 \in T
    BY <1>1, <1>3, <1>12
  <2>2. ASSUME NEW n \in 1..m, n - 1 \in T
        PROVE  n \in T
    <3>1. n \in 0..m /\ g[n] = LoadFile(g[n - 1], w[n]) /\ Loaded(g[n - 1])
      BY <1>1, <1>12, <2>2
    <3>2. QED
      BY <1>4, <3>1
  <2> HIDE DEF T
  <2>3. \A n \in 0..m : n \in T
    BY <1>1, <2>1, <2>2, CountsUp
  <2>4. QED
    BY <2>3 DEF T
<1>14. QED
  BY <1>11, <1>12, <1>13 DEF m

-------------------------------------------------------------------------------
(* core.Agent: every tool is offered once *)

\* How often an element is in a longer sequence.
LEMMA OnceAppend ==
  ASSUME NEW S, NEW s \in Seq(S), NEW y \in S, NEW x
  PROVE  /\ Append(s, y) \in Seq(S)
         /\ y # x /\ Never(s, x) => Never(Append(s, y), x)
         /\ y # x /\ Once(s, x) => Once(Append(s, y), x)
         /\ y = x /\ Never(s, x) => Once(Append(s, y), x)
         /\ \A i \in DOMAIN Append(s, y) : Append(s, y)[i] = y \/ \E j \in DOMAIN s : Append(s, y)[i] = s[j]
<1> DEFINE a == Append(s, y)
           l == Len(s)
<1>1. /\ a \in Seq(S) /\ l \in Nat /\ DOMAIN s = 1..l /\ DOMAIN a = 1..l + 1
      /\ a[l + 1] = y /\ \A i \in 1..l : a[i] = s[i]
  OBVIOUS
<1>2. \A i : i \in 1..l + 1 <=> i \in 1..l \/ i = l + 1
  BY <1>1
<1>3. l + 1 \notin 1..l
  BY <1>1
<1> HIDE DEF a, l
<1>4. QED
  BY <1>1, <1>2, <1>3 DEF Never, Once, a

\* How often an element is in two sequences, one after the other.
LEMMA OnceConcat ==
  ASSUME NEW S, NEW s \in Seq(S), NEW t \in Seq(S), NEW x
  PROVE  /\ s \o t \in Seq(S)
         /\ Never(s, x) /\ Never(t, x) => Never(s \o t, x)
         /\ Once(s, x) /\ Never(t, x) => Once(s \o t, x)
         /\ Never(s, x) /\ Once(t, x) => Once(s \o t, x)
<1> DEFINE c == s \o t
           l == Len(s)
           m == Len(t)
<1>1. /\ c \in Seq(S) /\ l \in Nat /\ m \in Nat /\ DOMAIN s = 1..l /\ DOMAIN t = 1..m
      /\ DOMAIN c = 1..l + m
      /\ \A i \in 1..l : c[i] = s[i]
      /\ \A i \in l + 1..l + m : c[i] = t[i - l]
  OBVIOUS
<1> HIDE DEF c, l, m
<1>2. \A i : i \in 1..l + m <=> i \in 1..l \/ i \in l + 1..l + m
  BY <1>1
<1>3. \A i \in l + 1..l + m : i - l \in 1..m /\ i = l + (i - l) /\ i \notin 1..l
  BY <1>1
<1>4. \A k \in 1..m : l + k \in l + 1..l + m /\ (l + k) - l = k
  BY <1>1
<1>5. Never(s, x) /\ Never(t, x) => Never(c, x)
  BY <1>1, <1>2, <1>3 DEF Never
<1>6. ASSUME Once(s, x), Never(t, x)
      PROVE  Once(c, x)
  <2>1. PICK i \in 1..l : s[i] = x /\ \A j \in 1..l : s[j] = x => j = i
    BY <1>1, <1>6 DEF Once
  <2>2. i \in DOMAIN c /\ c[i] = x
    BY <1>1, <1>2, <2>1
  <2>3. \A j \in DOMAIN c : c[j] = x => j = i
    BY <1>1, <1>2, <1>3, <1>6, <2>1 DEF Never
  <2>4. QED
    BY <2>2, <2>3 DEF Once
<1>7. ASSUME Never(s, x), Once(t, x)
      PROVE  Once(c, x)
  <2>1. PICK k \in 1..m : t[k] = x /\ \A j \in 1..m : t[j] = x => j = k
    BY <1>1, <1>7 DEF Once
  <2>2. l + k \in DOMAIN c /\ c[l + k] = x
    BY <1>1, <1>2, <1>4, <2>1
  <2>3. ASSUME NEW j \in DOMAIN c, c[j] = x
        PROVE  j = l + k
    <3>1. j \in l + 1..l + m
      BY <1>1, <1>2, <1>7, <2>3 DEF Never
    <3>2. j - l \in 1..m /\ t[j - l] = x /\ j = l + (j - l)
      BY <1>1, <1>3, <2>3, <3>1
    <3>3. QED
      BY <2>1, <3>2
  <2>4. QED
    BY <2>2, <2>3 DEF Once
<1>8. QED
  BY <1>1, <1>5, <1>6, <1>7 DEF c

\* Counting says the same.
LEMMA TimesIs ==
  ASSUME NEW s, NEW x
  PROVE  /\ Once(s, x) => Times(s, x) = 1
         /\ Never(s, x) => Times(s, x) = 0
<1> DEFINE P == {i \in DOMAIN s : s[i] = x}
<1>1. ASSUME Once(s, x)
      PROVE  Cardinality(P) = 1
  <2>1. PICK i \in DOMAIN s : s[i] = x /\ \A j \in DOMAIN s : s[j] = x => j = i
    BY <1>1 DEF Once
  <2>2. P = {i}
    BY <2>1
  <2>3. QED
    BY <2>2, FS_Singleton
<1>2. ASSUME Never(s, x)
      PROVE  Cardinality(P) = 0
  <2>1. P = {}
    BY <1>2 DEF Never
  <2>2. QED
    BY <2>1, FS_EmptySet
<1>3. QED
  BY <1>1, <1>2 DEF Times

\* The names of a Set, sorted: each once.
LEMMA SortedNamesAre ==
  ASSUME NEW s, SetOK(s)
  PROVE  /\ SortedNames(s) \in Seq(Nat)
         /\ \A j, k \in DOMAIN SortedNames(s) : SortedNames(s)[j] = SortedNames(s)[k] => j = k
         /\ \A n \in DOMAIN s : \E k \in DOMAIN SortedNames(s) : SortedNames(s)[k] = n
<1> DEFINE D == DOMAIN s
           a == Ascending(D)
           m == Cardinality(D)
<1>1. D \in SUBSET Nat /\ IsFiniteSet(D)
  BY DEF SetOK
<1> HIDE DEF D
<1>2. /\ m \in Nat /\ a \in [1..m -> D]
      /\ \A n \in D : \E k \in 1..m : a[k] = n
      /\ \A j, k \in 1..m : j < k <=> a[j] < a[k]
  BY <1>1, AscendingEnumerates
<1> HIDE DEF m, a
<1>3. a \in [1..m -> Nat] /\ DOMAIN a = 1..m /\ \A k \in 1..m : a[k] \in Nat
  BY <1>1, <1>2
<1>4. a \in Seq(Nat)
  BY <1>2, <1>3
<1>5. ASSUME NEW j \in 1..m, NEW k \in 1..m, a[j] = a[k]
      PROVE  j = k
  <2>1. ~(j < k) /\ ~(k < j)
    BY <1>2, <1>3, <1>5
  <2>2. QED
    BY <1>2, <2>1
<1>6. SortedNames(s) = a
  BY DEF SortedNames, D, a
<1>7. QED
  BY <1>2, <1>3, <1>4, <1>5, <1>6 DEF D

\* Once the loop is past a name it is past one more.
LEMMA PassedNext ==
  ASSUME BuildTypeOK, pos <= Len(names), pos' = pos + 1, names' = names, NEW n
  PROVE  Passed(n)' <=> Passed(n) \/ names[pos] = n
<1>1. pos \in DOMAIN names /\ pos \in Nat /\ \A k \in DOMAIN names : k \in Nat
  BY DEF BuildTypeOK
<1>2. \A k \in DOMAIN names : k < pos + 1 <=> k < pos \/ k = pos
  BY <1>1
<1>3. QED
  BY <1>1, <1>2 DEF Passed

\* The loop is not past a name it stands at, or past none at its beginning, and
\* past all at its end.
LEMMA PassedNow ==
  ASSUME BuildTypeOK, NEW n
  PROVE  /\ pos <= Len(names) /\ names[pos] = n => ~Passed(n)
         /\ pos = 1 => ~Passed(n)
         /\ pos > Len(names) /\ (\E k \in DOMAIN names : names[k] = n) => Passed(n)
<1>1. /\ names \in Seq(Nat) /\ pos \in Nat /\ DOMAIN names = 1..Len(names) /\ Len(names) \in Nat
      /\ pos >= 1 /\ \A j, k \in DOMAIN names : names[j] = names[k] => j = k
  BY DEF BuildTypeOK
<1>2. pos <= Len(names) /\ names[pos] = n => ~Passed(n)
  BY <1>1 DEF Passed
<1>3. pos = 1 => ~Passed(n)
  BY <1>1 DEF Passed
<1>4. pos > Len(names) /\ (\E k \in DOMAIN names : names[k] = n) => Passed(n)
  BY <1>1 DEF Passed
<1>5. QED
  BY <1>2, <1>3, <1>4

\* The inductive invariant of the assembly of an agent.
BuildInv == BuildTypeOK /\ OfferInv

\* The Set is loaded.
LEMMA LoadStep ==
  ASSUME BuildInv, LoadSkills
  PROVE  BuildInv'
<1>1. BuildTypeOK /\ OfferInv
  BY DEF BuildInv
<1>2. /\ stage = "load" /\ stage' = "mcp"
      /\ set' = (IF LoadFails(walk) THEN NewSet ELSE Load(walk))
      /\ UNCHANGED <<touched, names, pos, index, blocks, agentTools>>
  BY DEF LoadSkills
<1>3. walk \in Seq(SkillFile)
  BY <1>1, <1>2 DEF BuildTypeOK
<1>4. Loaded(set')
  <2>1. PICK g : /\ g[0] = NewSet /\ Load(walk) = g[Len(walk)]
                 /\ \A n \in 0..Len(walk) : Loaded(g[n])
    BY <1>3, LoadRuns
  <2>2. Len(walk) \in 0..Len(walk) /\ 0 \in 0..Len(walk)
    BY <1>3
  <2>3. QED
    BY <1>2, <2>1, <2>2
<1>5. SetOK(set')
  BY <1>4 DEF Loaded, SetOK
<1>6. BuildTypeOK'
  BY <1>1, <1>2, <1>5 DEF BuildTypeOK
<1>7. touched = {} /\ index = <<>> /\ blocks = <<>>
  BY <1>1, <1>2 DEF OfferInv
<1>8. OfferInv'
  BY <1>2, <1>7 DEF OfferInv, Offered
<1>9. QED
  BY <1>6, <1>8 DEF BuildInv

\* SkillBlocks reads the names.
LEMMA BlocksNamesStep ==
  ASSUME BuildInv, SkillBlocksNames
  PROVE  BuildInv'
<1>1. BuildTypeOK /\ OfferInv
  BY DEF BuildInv
<1>2. /\ stage = "mcp" /\ names' = SortedNames(set) /\ pos' = 1
      /\ stage' = (IF DOMAIN set = {} THEN "tools" ELSE "index")
      /\ UNCHANGED <<set, touched, index, blocks, agentTools>>
  BY DEF SkillBlocksNames
<1>3. /\ names' \in Seq(Nat)
      /\ \A j, k \in DOMAIN names' : names'[j] = names'[k] => j = k
      /\ \A n \in DOMAIN set : \E k \in DOMAIN names' : names'[k] = n
  BY <1>1, <1>2, SortedNamesAre DEF BuildTypeOK
<1>4. BuildTypeOK'
  <2>1. pos' \in 1..Len(names') + 1
    BY <1>2, <1>3
  <2>2. QED
    BY <1>1, <1>2, <1>3, <2>1 DEF BuildTypeOK
<1>5. touched = {} /\ index = <<>> /\ blocks = <<>>
  BY <1>1, <1>2 DEF OfferInv
<1>6. ASSUME NEW n \in DOMAIN set' \ touched'
      PROVE  Offered(n)'
  <2>1. stage' = "index" /\ n \in DOMAIN set
    BY <1>2, <1>6
  <2>2. ~Passed(n)'
    <3>1. \A k \in DOMAIN names' : ~(k < 1)
      BY <1>3
    <3>2. QED
      BY <1>2, <3>1 DEF Passed
  <2>3. Never(index', n)
    BY <1>2, <1>5 DEF Never
  <2>4. QED
    BY <1>3, <2>1, <2>2, <2>3 DEF Offered
<1>7. OfferInv'
  BY <1>2, <1>5, <1>6 DEF OfferInv
<1>8. QED
  BY <1>4, <1>7 DEF BuildInv

\* What every round of a loop has in common.
LEMMA RoundFacts ==
  ASSUME BuildTypeOK, NEW phase, Looping(phase)
  PROVE  /\ pos \in Nat /\ names[pos] \in Nat /\ pos \in DOMAIN names
         /\ pos + 1 \in 1..Len(names) + 1
BY DEF BuildTypeOK, Looping

\* One name of the index.
LEMMA IndexStep ==
  ASSUME BuildInv, IndexGet
  PROVE  BuildInv'
<1>1. BuildTypeOK /\ OfferInv
  BY DEF BuildInv
<1>2. /\ stage = "index" /\ pos <= Len(names) /\ Looping("index") /\ pos' = pos + 1
      /\ index' = IF Found THEN Append(index, names[pos]) ELSE index
      /\ UNCHANGED <<stage, set, touched, names, blocks, agentTools>>
  BY DEF IndexGet, Looping, Got
<1> DEFINE x == names[pos]
<1>3. x \in Nat /\ pos + 1 \in 1..Len(names) + 1 /\ index \in Seq(Nat)
  BY <1>1, <1>2, RoundFacts DEF BuildTypeOK
<1>4. index' = IF x \in DOMAIN set THEN Append(index, x) ELSE index
  BY <1>2 DEF Found
<1> HIDE DEF x
<1>5. index' \in Seq(Nat)
  BY <1>3, <1>4
<1>6. BuildTypeOK'
  BY <1>1, <1>2, <1>3, <1>5 DEF BuildTypeOK
<1>7. \A i \in DOMAIN index' : index'[i] \in DOMAIN set' \cup touched'
  <2>1. \A i \in DOMAIN index : index[i] \in DOMAIN set \cup touched
    BY <1>1 DEF OfferInv
  <2>2. CASE x \in DOMAIN set
    <3>1. \A i \in DOMAIN index' : index'[i] = x \/ \E j \in DOMAIN index : index'[i] = index[j]
      BY <1>3, <1>4, <2>2, OnceAppend
    <3>2. QED
      BY <1>2, <2>1, <2>2, <3>1
  <2>3. CASE x \notin DOMAIN set
    BY <1>2, <1>4, <2>1, <2>3
  <2>4. QED
    BY <2>2, <2>3
<1>8. ASSUME NEW n \in DOMAIN set' \ touched'
      PROVE  Offered(n)'
  <2>1. n \in DOMAIN set \ touched /\ Offered(n)
    BY <1>1, <1>2, <1>8 DEF OfferInv
  <2>2. (\E k \in DOMAIN names : names[k] = n)
        /\ IF Passed(n) THEN Once(index, n) ELSE Never(index, n)
    BY <1>2, <2>1 DEF Offered
  <2>3. Passed(n)' <=> Passed(n) \/ x = n
    BY <1>1, <1>2, PassedNext DEF x
  <2>4. x = n => ~Passed(n)
    BY <1>1, <1>2, PassedNow DEF x
  <2>5. IF Passed(n)' THEN Once(index', n) ELSE Never(index', n)
    <3>1. CASE x = n
      <4>1. Once(Append(index, x), n)
        BY <1>3, <2>2, <2>4, <3>1, OnceAppend
      <4>2. QED
        BY <1>4, <2>1, <2>3, <3>1, <4>1
    <3>2. CASE x # n
      <4>1. /\ Never(index, n) => Never(Append(index, x), n)
            /\ Once(index, n) => Once(Append(index, x), n)
        BY <1>3, <3>2, OnceAppend
      <4>2. QED
        BY <1>4, <2>2, <2>3, <3>2, <4>1
    <3>3. QED
      BY <3>1, <3>2
  <2>6. QED
    BY <1>2, <2>2, <2>5 DEF Offered
<1>9. OfferInv'
  BY <1>1, <1>2, <1>7, <1>8 DEF OfferInv
<1>10. QED
  BY <1>6, <1>9 DEF BuildInv

\* From the index to the blocks.
LEMMA IndexDoneStep ==
  ASSUME BuildInv, IndexDone
  PROVE  BuildInv'
<1>1. BuildTypeOK /\ OfferInv
  BY DEF BuildInv
<1>2. /\ stage = "index" /\ pos > Len(names) /\ stage' = "blocks" /\ pos' = 1
      /\ UNCHANGED <<set, touched, names, index, blocks, agentTools>>
  BY DEF IndexDone
<1>3. BuildTypeOK'
  <2>1. pos' \in 1..Len(names') + 1
    BY <1>1, <1>2 DEF BuildTypeOK
  <2>2. QED
    BY <1>1, <1>2, <2>1 DEF BuildTypeOK
<1>4. blocks = <<>>
  BY <1>1, <1>2 DEF OfferInv
<1>5. ASSUME NEW n \in DOMAIN set' \ touched'
      PROVE  Offered(n)'
  <2>1. Offered(n)
    BY <1>1, <1>2, <1>5 DEF OfferInv
  <2>2. \E k \in DOMAIN names : names[k] = n
    BY <1>2, <2>1 DEF Offered
  <2>3. Passed(n)
    BY <1>1, <1>2, <2>2, PassedNow
  <2>4. Once(index, n)
    BY <1>2, <2>1, <2>3 DEF Offered
  <2>5. Never(blocks', n)
    BY <1>2, <1>4 DEF Never
  <2>6. ~Passed(n)'
    <3>1. \A k \in DOMAIN names' : ~(k < 1)
      BY <1>1, <1>2 DEF BuildTypeOK
    <3>2. QED
      BY <1>2, <3>1 DEF Passed
  <2>7. QED
    BY <1>2, <2>2, <2>4, <2>5, <2>6 DEF Offered
<1>6. OfferInv'
  BY <1>1, <1>2, <1>5 DEF OfferInv
<1>7. QED
  BY <1>3, <1>6 DEF BuildInv

\* One name of the blocks.
LEMMA BlockStep ==
  ASSUME BuildInv, BlockGet
  PROVE  BuildInv'
<1>1. BuildTypeOK /\ OfferInv
  BY DEF BuildInv
<1> DEFINE x == names[pos]
           said(n) == HasBlock(set[n])
<1>2. /\ stage = "blocks" /\ pos <= Len(names) /\ Looping("blocks") /\ pos' = pos + 1
      /\ blocks' = IF x \in DOMAIN set /\ said(x) THEN Append(blocks, x) ELSE blocks
      /\ UNCHANGED <<stage, set, touched, names, index, agentTools>>
  BY DEF BlockGet, Looping, Got, Found
<1>3. x \in Nat /\ pos + 1 \in 1..Len(names) + 1 /\ blocks \in Seq(Nat)
  BY <1>1, <1>2, RoundFacts DEF BuildTypeOK
<1> HIDE DEF x
<1>4. blocks' \in Seq(Nat)
  BY <1>2, <1>3
<1>5. BuildTypeOK'
  BY <1>1, <1>2, <1>3, <1>4 DEF BuildTypeOK
<1>6. \A i \in DOMAIN blocks' : blocks'[i] \in DOMAIN set' \cup touched'
  <2>1. \A i \in DOMAIN blocks : blocks[i] \in DOMAIN set \cup touched
    BY <1>1 DEF OfferInv
  <2>2. CASE x \in DOMAIN set /\ said(x)
    <3>1. \A i \in DOMAIN blocks' : blocks'[i] = x \/ \E j \in DOMAIN blocks : blocks'[i] = blocks[j]
      BY <1>2, <1>3, <2>2, OnceAppend
    <3>2. QED
      BY <1>2, <2>1, <2>2, <3>1
  <2>3. CASE ~(x \in DOMAIN set /\ said(x))
    BY <1>2, <2>1, <2>3
  <2>4. QED
    BY <2>2, <2>3
<1>7. ASSUME NEW n \in DOMAIN set' \ touched'
      PROVE  Offered(n)'
  <2>1. n \in DOMAIN set \ touched /\ Offered(n) /\ (said(n)' <=> said(n))
    BY <1>1, <1>2, <1>7 DEF OfferInv
  <2>2. (\E k \in DOMAIN names : names[k] = n) /\ Once(index, n)
        /\ IF said(n) /\ Passed(n) THEN Once(blocks, n) ELSE Never(blocks, n)
    BY <1>2, <2>1 DEF Offered
  <2>3. Passed(n)' <=> Passed(n) \/ x = n
    BY <1>1, <1>2, PassedNext DEF x
  <2>4. x = n => ~Passed(n)
    BY <1>1, <1>2, PassedNow DEF x
  <2> HIDE DEF said
  <2>5. IF said(n) /\ Passed(n)' THEN Once(blocks', n) ELSE Never(blocks', n)
    <3>1. CASE x = n
      <4>1. Never(blocks, n) /\ Once(Append(blocks, x), n)
        BY <1>3, <2>2, <2>4, <3>1, OnceAppend
      <4>2. QED
        BY <1>2, <2>1, <2>3, <3>1, <4>1
    <3>2. CASE x # n
      <4>1. /\ Never(blocks, n) => Never(Append(blocks, x), n)
            /\ Once(blocks, n) => Once(Append(blocks, x), n)
        BY <1>3, <3>2, OnceAppend
      <4>2. QED
        BY <1>2, <2>2, <2>3, <3>2, <4>1
    <3>3. QED
      BY <3>1, <3>2
  <2>6. QED
    BY <1>2, <2>2, <2>5 DEF Offered, said
<1>8. OfferInv'
  BY <1>1, <1>2, <1>6, <1>7 DEF OfferInv
<1>9. QED
  BY <1>5, <1>8 DEF BuildInv

\* The elements of a sequence.
LEMMA ElementOf ==
  ASSUME NEW S, NEW s \in Seq(S)
  PROVE  Len(s) \in Nat /\ DOMAIN s = 1..Len(s) /\ \A i \in DOMAIN s : s[i] \in S
OBVIOUS

\* SkillTools reads the names again; the tools there are so far are of no skill.
LEMMA ToolsNamesStep ==
  ASSUME ToolsApart, McpInv, BuildInv, SkillToolsNames
  PROVE  BuildInv'
<1>1. BuildTypeOK /\ OfferInv /\ McpTypeOK /\ ToolsInv
  BY DEF BuildInv, McpInv
<1> DEFINE host == [i \in DOMAIN HostTools |-> HostTool(HostTools[i])]
           mcp == [i \in DOMAIN tools |->
                     [name |-> tools[i].name, real |-> tools[i].real,
                      client |-> tools[i].client, safe |-> FALSE]]
<1>2. /\ stage = "tools" \/ (stage = "blocks" /\ pos > Len(names))
      /\ stage' = "get" /\ names' = SortedNames(set) /\ pos' = 1
      /\ agentTools' = host \o mcp
      /\ UNCHANGED <<set, touched, index, blocks>>
  BY DEF SkillToolsNames
<1>3. host \in Seq(AgentTool)
  <2>1. /\ Len(HostTools) \in Nat /\ DOMAIN HostTools = 1..Len(HostTools)
        /\ \A i \in DOMAIN HostTools : HostTools[i] \in [name : Seq(STRING), safe : BOOLEAN]
    BY AgentAssumption, ElementOf
  <2>2. \A i \in DOMAIN HostTools : HostTool(HostTools[i]) \in AgentTool
    BY <2>1 DEF HostTool, AgentTool
  <2>3. QED
    BY <2>1, <2>2
<1>4. mcp \in Seq(AgentTool) /\ DOMAIN mcp = DOMAIN tools
      /\ \A i \in DOMAIN tools : mcp[i].client = tools[i].client /\ tools[i].client # 0
  <2>1. /\ tools \in Seq(Tool) /\ Len(tools) \in Nat /\ DOMAIN tools = 1..Len(tools)
        /\ DOMAIN servers = 1..Len(servers)
    BY <1>1, McpFacts
  <2>2. \A i \in DOMAIN tools : tools[i] \in Tool /\ tools[i].client # 0
    BY <1>1, <2>1 DEF ToolsInv
  <2>3. \A i \in DOMAIN tools : [name |-> tools[i].name, real |-> tools[i].real,
                                 client |-> tools[i].client, safe |-> FALSE] \in AgentTool
    BY <2>2 DEF Tool, AgentTool
  <2>4. mcp \in Seq(AgentTool)
    BY <2>1, <2>3
  <2>5. QED
    BY <2>2, <2>4
<1>5. \A i \in DOMAIN HostTools : host[i] = HostTool(HostTools[i])
  OBVIOUS
<1>6. DOMAIN host = DOMAIN HostTools
  OBVIOUS
<1> HIDE DEF host, mcp
<1>7. /\ names' \in Seq(Nat)
      /\ \A j, k \in DOMAIN names' : names'[j] = names'[k] => j = k
      /\ \A n \in DOMAIN set : \E k \in DOMAIN names' : names'[k] = n
  BY <1>1, <1>2, SortedNamesAre DEF BuildTypeOK
<1>8. BuildTypeOK'
  <2>1. pos' \in 1..Len(names') + 1
    BY <1>2, <1>7
  <2>2. agentTools' \in Seq(AgentTool)
    BY <1>2, <1>3, <1>4
  <2>3. QED
    BY <1>1, <1>2, <1>7, <2>1, <2>2 DEF BuildTypeOK
<1>9. ASSUME NEW n \in DOMAIN set' \ touched'
      PROVE  Offered(n)'
  <2>1. n \in DOMAIN set \ touched /\ Offered(n)
    BY <1>1, <1>2, <1>9 DEF OfferInv
  <2>2. stage = "blocks" /\ pos > Len(names)
    BY <1>1, <1>2, <2>1 DEF OfferInv
  <2>3. (\E k \in DOMAIN names : names[k] = n) /\ Once(index, n)
        /\ IF HasBlock(set[n]) /\ Passed(n) THEN Once(blocks, n) ELSE Never(blocks, n)
    BY <2>1, <2>2 DEF Offered
  <2>4. Passed(n)
    BY <1>1, <2>2, <2>3, PassedNow
  <2>5. ~Passed(n)'
    <3>1. \A k \in DOMAIN names' : ~(k < 1)
      BY <1>7
    <3>2. QED
      BY <1>2, <3>1 DEF Passed
  <2>6. ASSUME NEW i \in DOMAIN set[n].tools
        PROVE  Never(agentTools', set[n].tools[i])
    <3> DEFINE t == set[n].tools[i]
    <3>1. set[n] \in HostSkills
      <4>1. set[n].tools # <<>>
        BY <2>6
      <4>2. QED
        BY <1>1, <2>1, <4>1 DEF BuildTypeOK, SetOK
    <3>2. t.client = 0 /\ \A j \in DOMAIN HostTools : t # HostTool(HostTools[j])
      BY <2>6, <3>1 DEF ToolsApart
    <3> HIDE DEF t
    <3>3. Never(host, t)
      BY <1>5, <1>6, <3>2 DEF Never
    <3>4. Never(mcp, t)
      BY <1>4, <3>2 DEF Never
    <3>5. Never(host \o mcp, t)
      BY <1>3, <1>4, <3>3, <3>4, OnceConcat
    <3>6. QED
      BY <1>2, <3>5 DEF t
  <2>7. QED
    BY <1>2, <1>7, <2>1, <2>3, <2>4, <2>5, <2>6 DEF Offered
<1>10. OfferInv'
  BY <1>1, <1>2, <1>9 DEF OfferInv
<1>11. QED
  BY <1>8, <1>10 DEF BuildInv

\* The tools of one skill.
LEMMA ToolStep ==
  ASSUME ToolsApart, BuildInv, ToolGet
  PROVE  BuildInv'
<1>1. BuildTypeOK /\ OfferInv
  BY DEF BuildInv
<1> DEFINE x == names[pos]
<1>2. /\ stage = "get" /\ pos <= Len(names) /\ Looping("get") /\ pos' = pos + 1
      /\ agentTools' = IF x \in DOMAIN set THEN agentTools \o set[x].tools ELSE agentTools
      /\ UNCHANGED <<stage, set, touched, names, index, blocks>>
  BY DEF ToolGet, Looping, Got, Found
<1>3. pos + 1 \in 1..Len(names) + 1 /\ agentTools \in Seq(AgentTool)
  BY <1>1, <1>2, RoundFacts DEF BuildTypeOK
<1>4. \A n \in DOMAIN set : /\ set[n].tools \in Seq(AgentTool) /\ set[n].name = n
                            /\ \A i \in DOMAIN set[n].tools : set[n] \in HostSkills
  <2> SUFFICES ASSUME NEW n \in DOMAIN set
               PROVE  /\ set[n].tools \in Seq(AgentTool) /\ set[n].name = n
                      /\ \A i \in DOMAIN set[n].tools : set[n] \in HostSkills
    OBVIOUS
  <2>1. set[n] \in Skills /\ set[n].name = n /\ (set[n].tools = <<>> \/ set[n] \in HostSkills)
    BY <1>1 DEF BuildTypeOK, SetOK
  <2>2. QED
    BY <2>1 DEF Skills
<1> HIDE DEF x
<1>5. agentTools' \in Seq(AgentTool)
  BY <1>2, <1>3, <1>4
<1>6. BuildTypeOK'
  BY <1>1, <1>2, <1>3, <1>5 DEF BuildTypeOK
<1>7. ASSUME NEW n \in DOMAIN set' \ touched'
      PROVE  Offered(n)'
  <2>1. n \in DOMAIN set \ touched /\ Offered(n)
    BY <1>1, <1>2, <1>7 DEF OfferInv
  <2>2. (\E k \in DOMAIN names : names[k] = n) /\ Once(index, n)
        /\ (IF HasBlock(set[n]) THEN Once(blocks, n) ELSE Never(blocks, n))
        /\ \A i \in DOMAIN set[n].tools :
             IF Passed(n) THEN Once(agentTools, set[n].tools[i])
             ELSE Never(agentTools, set[n].tools[i])
    BY <1>2, <2>1 DEF Offered
  <2>3. Passed(n)' <=> Passed(n) \/ x = n
    BY <1>1, <1>2, PassedNext DEF x
  <2>4. x = n => ~Passed(n)
    BY <1>1, <1>2, PassedNow DEF x
  <2>5. ASSUME NEW i \in DOMAIN set[n].tools
        PROVE  IF Passed(n)' THEN Once(agentTools', set[n].tools[i])
               ELSE Never(agentTools', set[n].tools[i])
    <3> DEFINE t == set[n].tools[i]
    <3>1. set[n] \in HostSkills
      BY <1>4, <2>1, <2>5
    <3>2. IF Passed(n) THEN Once(agentTools, t) ELSE Never(agentTools, t)
      BY <2>2, <2>5
    <3>3. CASE x = n
      <4>1. Once(set[x].tools, t)
        <5>1. \A j \in DOMAIN set[n].tools : set[n].tools[j] = t => j = i
          BY <2>5, <3>1 DEF ToolsApart
        <5>2. QED
          BY <2>5, <3>3, <5>1 DEF Once
      <4>2. Once(agentTools \o set[x].tools, t)
        <5>1. Never(agentTools, t) /\ set[x].tools \in Seq(AgentTool)
          BY <1>4, <2>1, <2>4, <3>2, <3>3
        <5> HIDE DEF t
        <5>2. QED
          BY <1>3, <4>1, <5>1, OnceConcat
      <4>3. QED
        BY <1>2, <2>1, <2>3, <3>3, <4>2
    <3>4. CASE x # n /\ x \in DOMAIN set
      <4>1. Never(set[x].tools, t)
        <5>1. ASSUME NEW j \in DOMAIN set[x].tools
              PROVE  set[x].tools[j] # t
          <6>1. set[x] \in HostSkills /\ set[x].name = x /\ set[n].name = n
            BY <1>4, <2>1, <3>4, <5>1
          <6>2. QED
            BY <2>5, <3>1, <3>4, <5>1, <6>1 DEF ToolsApart
        <5>2. QED
          BY <5>1 DEF Never
      <4>2. set[x].tools \in Seq(AgentTool)
        BY <1>4, <3>4
      <4> HIDE DEF t
      <4>3. /\ Never(agentTools, t) => Never(agentTools \o set[x].tools, t)
            /\ Once(agentTools, t) => Once(agentTools \o set[x].tools, t)
        BY <1>3, <4>1, <4>2, OnceConcat
      <4>4. QED
        BY <1>2, <2>3, <3>2, <3>4, <4>3 DEF t
    <3>5. CASE x # n /\ x \notin DOMAIN set
      BY <1>2, <2>3, <3>2, <3>5
    <3>6. QED
      BY <3>3, <3>4, <3>5
  <2>6. QED
    BY <1>2, <2>2, <2>5 DEF Offered
<1>8. OfferInv'
  BY <1>1, <1>2, <1>7 DEF OfferInv
<1>9. QED
  BY <1>6, <1>8 DEF BuildInv

\* core.Agent ends.
LEMMA AssembleStep ==
  ASSUME BuildInv, Assemble
  PROVE  BuildInv'
<1>1. BuildTypeOK /\ OfferInv
  BY DEF BuildInv
<1>2. /\ stage = "get" /\ pos > Len(names) /\ stage' = "run" /\ names' = <<>> /\ pos' = 1
      /\ UNCHANGED <<set, touched, index, blocks, agentTools>>
  BY DEF Assemble
<1>3. BuildTypeOK'
  <2>1. names' \in Seq(Nat) /\ pos' \in 1..Len(names') + 1 /\ DOMAIN names' = {}
    BY <1>2
  <2>2. QED
    BY <1>1, <1>2, <2>1 DEF BuildTypeOK
<1>4. ASSUME NEW n \in DOMAIN set' \ touched'
      PROVE  Offered(n)'
  <2>1. Offered(n)
    BY <1>1, <1>2, <1>4 DEF OfferInv
  <2>2. \E k \in DOMAIN names : names[k] = n
    BY <1>2, <2>1 DEF Offered
  <2>3. Passed(n)
    BY <1>1, <1>2, <2>2, PassedNow
  <2>4. QED
    BY <1>2, <2>1, <2>3 DEF Offered
<1>5. OfferInv'
  BY <1>1, <1>2, <1>4 DEF OfferInv
<1>6. QED
  BY <1>3, <1>5 DEF BuildInv

\* Another goroutine changes the Set: it touches one name and leaves the others.
LEMMA EditStep ==
  ASSUME BuildInv, NEW new, NEW x \in Nat, Edit(new, x), SetOK(new),
         DOMAIN set \subseteq DOMAIN new \cup {x},
         \A n \in DOMAIN new : n # x => n \in DOMAIN set /\ new[n] = set[n]
  PROVE  BuildInv'
<1>1. BuildTypeOK /\ OfferInv
  BY DEF BuildInv
<1>2. /\ stage \in {"index", "blocks", "tools", "get"}
      /\ set' = new /\ touched' = touched \cup {x}
      /\ UNCHANGED <<stage, names, pos, index, blocks, agentTools>>
  BY DEF Edit
<1>3. BuildTypeOK'
  BY <1>1, <1>2 DEF BuildTypeOK
<1>4. ASSUME NEW n \in DOMAIN set' \ touched'
      PROVE  Offered(n)'
  <2>1. n \in DOMAIN set \ touched /\ set'[n] = set[n]
    BY <1>2, <1>4
  <2>2. Offered(n)
    BY <1>1, <2>1 DEF OfferInv
  <2>3. Passed(n)' <=> Passed(n)
    BY <1>2 DEF Passed
  <2>4. QED
    BY <1>2, <2>1, <2>2, <2>3 DEF Offered
<1>5. DOMAIN set \cup touched \subseteq DOMAIN set' \cup touched'
  BY <1>2
<1>6. stage' = "tools" => DOMAIN set' \subseteq touched'
  BY <1>1, <1>2 DEF OfferInv
<1>7. OfferInv'
  BY <1>1, <1>2, <1>4, <1>5, <1>6 DEF OfferInv
<1>8. QED
  BY <1>3, <1>7 DEF BuildInv

\* Set.Add.
LEMMA AddStep ==
  ASSUME BuildInv, NEW sk \in HostSkills, AddSkill(sk)
  PROVE  BuildInv'
<1>0. ~SetAddFails(set, sk)
  BY DEF AddSkill
<1>1. SetOK(set) /\ Edit(SetAdd(set, sk), sk.name) /\ sk \in Skills
  BY AgentAssumption DEF BuildInv, BuildTypeOK, AddSkill
<1> DEFINE new == SetAdd(set, sk)
<1>2. /\ DOMAIN new = DOMAIN set \cup {sk.name} /\ new[sk.name] = sk
      /\ \A n \in DOMAIN set : new[n] = set[n]
      /\ new = [n \in DOMAIN new |-> new[n]]
  <2>1. new = [n \in DOMAIN set \cup {sk.name} |-> IF n = sk.name THEN sk ELSE set[n]]
    BY <1>0 DEF SetAdd
  <2>2. sk.name \notin DOMAIN set
    BY <1>0 DEF SetAddFails
  <2> HIDE DEF new
  <2>3. QED
    BY <2>1, <2>2
<1>3. sk.name \in Nat
  BY <1>1 DEF Skills
<1>4. Edit(new, sk.name)
  BY <1>1
<1> HIDE DEF new
<1>5. IsFiniteSet(DOMAIN new)
  BY <1>1, <1>2, FS_AddElement DEF SetOK
<1>6. SetOK(new)
  BY <1>1, <1>2, <1>3, <1>5 DEF SetOK
<1>7. QED
  BY <1>2, <1>3, <1>4, <1>6, EditStep

\* Set.Remove.
LEMMA RemoveStep ==
  ASSUME BuildInv, NEW x \in DOMAIN set, RemoveSkill(x)
  PROVE  BuildInv'
<1>1. SetOK(set) /\ Edit(SetRemove(set, x), x)
  BY DEF BuildInv, BuildTypeOK, RemoveSkill
<1> DEFINE new == SetRemove(set, x)
<1>2. /\ DOMAIN new = DOMAIN set \ {x}
      /\ \A n \in DOMAIN new : new[n] = set[n]
      /\ new = [n \in DOMAIN new |-> new[n]]
  BY DEF SetRemove
<1>3. Edit(new, x) /\ x \in Nat
  BY <1>1 DEF SetOK
<1> HIDE DEF new
<1>4. IsFiniteSet(DOMAIN new)
  BY <1>1, <1>2, FS_Subset DEF SetOK
<1>5. SetOK(new)
  BY <1>1, <1>2, <1>4 DEF SetOK
<1>6. QED
  BY <1>2, <1>3, <1>5, EditStep

\* What leaves the build alone.
LEMMA IdleStep ==
  ASSUME BuildInv,
         \/ McpStep
         \/ \E i \in DOMAIN agentTools : Call(agentTools[i])
         \/ UNCHANGED allvars
  PROVE  BuildInv'
<1>1. /\ UNCHANGED <<stage, set, touched, names, pos, index, blocks, agentTools>>
      /\ stage # "load" \/ walk' = walk
  BY DEF McpStep, Call, allvars, avars
<1>2. BuildTypeOK'
  BY <1>1 DEF BuildInv, BuildTypeOK
<1>3. \A n : (Offered(n)' <=> Offered(n))
  BY <1>1 DEF Offered, Passed
<1>4. OfferInv'
  BY <1>1, <1>3 DEF BuildInv, OfferInv
<1>5. QED
  BY <1>2, <1>4 DEF BuildInv

\* mcp.Tools does the same whether or not an agent is built from its tools.
LEMMA AgentIsMcp == AgentSpec => McpSpec
<1>1. AgentInit => McpInit
  BY DEF AgentInit
<1>2. [AgentNext]_allvars => [McpNext]_mvars
  BY DEF AgentNext, allvars, LoadSkills, McpStep, SkillBlocksNames, IndexGet, IndexDone, BlockGet,
     SkillToolsNames, ToolGet, Assemble, AddSkill, RemoveSkill, Edit, Call
<1>3. QED
  BY <1>1, <1>2, PTL DEF AgentSpec, McpSpec

\* Building an agent, whatever the Set goes through meanwhile.
THEOREM BuildInvariant ==
  ASSUME Numerals, ToolsApart
  PROVE  AgentSpec => []BuildInv
<1>1. AgentInit => BuildInv
  <2> SUFFICES ASSUME AgentInit
               PROVE  BuildInv
    OBVIOUS
  <2>1. /\ stage = "load" /\ set = NewSet /\ touched = {} /\ names = <<>> /\ pos = 1
        /\ index = <<>> /\ blocks = <<>> /\ agentTools = <<>>
    BY DEF AgentInit
  <2>2. walk \in Seq(SkillFile)
    BY AgentAssumption DEF AgentInit, McpInit
  <2>3. DOMAIN set = {} /\ set = [n \in DOMAIN set |-> set[n]]
    BY <2>1 DEF NewSet
  <2>4. SetOK(set)
    BY <2>3, FS_EmptySet DEF SetOK
  <2>5. names \in Seq(Nat) /\ pos \in 1..Len(names) + 1 /\ DOMAIN names = {}
        /\ index \in Seq(Nat) /\ blocks \in Seq(Nat) /\ agentTools \in Seq(AgentTool)
    BY <2>1
  <2>6. BuildTypeOK
    BY <2>1, <2>2, <2>4, <2>5 DEF BuildTypeOK
  <2>7. OfferInv
    BY <2>1, <2>3 DEF OfferInv
  <2>8. QED
    BY <2>6, <2>7 DEF BuildInv
<1>2. McpInv /\ BuildInv /\ [AgentNext]_allvars => BuildInv'
  <2> SUFFICES ASSUME McpInv, BuildInv, [AgentNext]_allvars
               PROVE  BuildInv'
    OBVIOUS
  <2>1. CASE LoadSkills
    BY <2>1, LoadStep
  <2>2. CASE SkillBlocksNames \/ IndexGet \/ IndexDone
    BY <2>2, BlocksNamesStep, IndexStep, IndexDoneStep
  <2>3. CASE BlockGet \/ SkillToolsNames \/ ToolGet \/ Assemble
    BY <2>3, BlockStep, ToolsNamesStep, ToolStep, AssembleStep
  <2>4. CASE \E sk \in HostSkills : AddSkill(sk)
    BY <2>4, AddStep
  <2>5. CASE \E n \in DOMAIN set : RemoveSkill(n)
    BY <2>5, RemoveStep
  <2>6. CASE McpStep \/ (\E i \in DOMAIN agentTools : Call(agentTools[i])) \/ UNCHANGED allvars
    BY <2>6, IdleStep
  <2>7. QED
    BY <2>1, <2>2, <2>3, <2>4, <2>5, <2>6 DEF AgentNext
<1>3. QED
  BY <1>1, <1>2, AgentIsMcp, McpInvariant, PTL DEF AgentSpec

\* A skill nobody touches while the agent is built is offered whole, whatever
\* other goroutines do to the Set between two of the reads, and nothing is
\* offered that was never there.  The tools of the host's skills are all
\* different, or the count of one of them would say nothing.
THEOREM OfferedWholeAlways ==
  ASSUME Numerals, ToolsApart
  PROVE  AgentSpec => []OfferedWhole
<1>1. BuildInv => OfferedWhole
  <2> SUFFICES ASSUME BuildInv, stage = "run"
               PROVE  OfferedWhole
    BY DEF OfferedWhole
  <2>1. BuildTypeOK /\ OfferInv
    BY DEF BuildInv
  <2>2. ASSUME NEW n \in DOMAIN set \ touched
        PROVE  /\ Times(index, n) = 1
               /\ Times(blocks, n) = IF HasBlock(set[n]) THEN 1 ELSE 0
               /\ \A i \in DOMAIN set[n].tools : Times(agentTools, set[n].tools[i]) = 1
    <3>1. Offered(n)
      BY <2>1 DEF OfferInv
    <3>2. /\ Once(index, n)
          /\ IF HasBlock(set[n]) THEN Once(blocks, n) ELSE Never(blocks, n)
          /\ \A i \in DOMAIN set[n].tools : Once(agentTools, set[n].tools[i])
      BY <3>1 DEF Offered
    <3>3. QED
      BY <3>2, TimesIs
  <2>3. ToSet(index) \cup ToSet(blocks) \subseteq DOMAIN set \cup touched
    BY <2>1 DEF OfferInv, ToSet
  <2>4. QED
    BY <2>2, <2>3 DEF OfferedWhole
<1>2. QED
  BY <1>1, BuildInvariant, PTL

-------------------------------------------------------------------------------
(* Skills: what a file says *)

\* Blank lines in front make no difference to what trimming keeps.
LEMMA TrimShift ==
  ASSUME NEW s \in Seq(SkillLine), NEW t \in Seq(SkillLine), NEW o \in Nat,
         Len(t) = o + Len(s),
         \A k \in 1..o : t[k].kind = "blank",
         \A k \in 1..Len(s) : t[o + k] = s[k]
  PROVE  TrimLines(t) = TrimLines(s)
<1>1. Len(s) \in Nat /\ Len(t) \in Nat
  OBVIOUS
<1>2. CASE \A k \in 1..Len(s) : s[k].kind = "blank"
  <2>1. \A k \in 1..Len(t) : k \in 1..o \/ (k - o \in 1..Len(s) /\ o + (k - o) = k)
    BY <1>1
  <2>2. ASSUME NEW k \in 1..Len(t)
        PROVE  t[k].kind = "blank"
    <3>1. CASE k \in 1..o
      BY <3>1
    <3>2. CASE k - o \in 1..Len(s) /\ o + (k - o) = k
      <4>1. t[o + (k - o)] = s[k - o] /\ s[k - o].kind = "blank"
        BY <1>2, <3>2
      <4>2. QED
        BY <3>2, <4>1
    <3>3. QED
      BY <2>1, <3>1, <3>2
  <2>3. QED
    BY <1>2, <2>2, TrimIs
<1>3. CASE ~ \A k \in 1..Len(s) : s[k].kind = "blank"
  <2> DEFINE full == {k \in 1..Len(s) : s[k].kind # "blank"}
             a == Min(full)
             b == Max(full)
  <2>1. full \in SUBSET (0..Len(s)) /\ full # {}
    BY <1>1, <1>3
  <2>2. a \in full /\ b \in full /\ \A y \in full : a <= y /\ y <= b
    <3> HIDE DEF full
    <3>1. QED
      BY <1>1, <2>1, MinMaxIs
  <2>3. /\ a \in 1..Len(s) /\ b \in 1..Len(s) /\ a <= b /\ s[a].kind # "blank" /\ s[b].kind # "blank"
        /\ \A i \in 1..Len(s) : s[i].kind # "blank" => a <= i /\ i <= b
    BY <2>2
  <2> HIDE DEF full, a, b
  <2>4. TrimLines(s) = SubSeq(s, a, b)
    BY <2>3, TrimIs
  <2>5. /\ o + a \in 1..Len(t) /\ o + b \in 1..Len(t)
        /\ t[o + a].kind # "blank" /\ t[o + b].kind # "blank"
    BY <1>1, <2>3
  <2>6. \A i \in 1..Len(t) : t[i].kind # "blank" => o + a <= i /\ i <= o + b
    <3> SUFFICES ASSUME NEW i \in 1..Len(t), t[i].kind # "blank"
                 PROVE  o + a <= i /\ i <= o + b
      OBVIOUS
    <3>1. i \notin 1..o
      OBVIOUS
    <3>2. i - o \in 1..Len(s) /\ o + (i - o) = i
      BY <1>1, <3>1
    <3>3. s[i - o].kind # "blank"
      BY <3>2
    <3>4. a <= i - o /\ i - o <= b
      BY <2>3, <3>2, <3>3
    <3>5. QED
      BY <1>1, <2>3, <3>4
  <2>7. TrimLines(t) = SubSeq(t, o + a, o + b)
    BY <2>5, <2>6, TrimIs
  <2>8. SubSeq(t, o + a, o + b) = SubSeq(s, a, b)
    <3>1. a \in Int /\ b \in Int /\ o + a \in Int /\ o + b \in Int /\ o \in Int
      BY <2>3
    <3>2. \A i \in a..b : s[i] \in SkillLine /\ t[o + i] = s[i]
      BY <1>1, <2>3
    <3>3. \A i \in o + a..o + b : i - o \in a..b /\ o + (i - o) = i
      BY <3>1
    <3>4. \A i \in o + a..o + b : t[i] \in SkillLine
      BY <3>2, <3>3
    <3>5. /\ SubSeq(s, a, b) \in Seq(SkillLine) /\ Len(SubSeq(s, a, b)) = b - a + 1
          /\ \A i \in 1..b - a + 1 : SubSeq(s, a, b)[i] = s[a + i - 1]
      BY <2>3, <3>1, <3>2, SubSeqProperties
    <3>6. /\ SubSeq(t, o + a, o + b) \in Seq(SkillLine)
          /\ Len(SubSeq(t, o + a, o + b)) = b - a + 1
          /\ \A i \in 1..b - a + 1 : SubSeq(t, o + a, o + b)[i] = t[o + a + i - 1]
      <4> DEFINE c == o + a
                 d == o + b
      <4>1. c \in Int /\ d \in Int /\ c <= d /\ d - c + 1 = b - a + 1
        BY <2>3, <3>1
      <4>2. \A i \in c..d : t[i] \in SkillLine
        BY <3>4
      <4> HIDE DEF c, d
      <4>3. /\ SubSeq(t, c, d) \in Seq(SkillLine) /\ Len(SubSeq(t, c, d)) = d - c + 1
            /\ \A i \in 1..d - c + 1 : SubSeq(t, c, d)[i] = t[c + i - 1]
        BY <4>1, <4>2, SubSeqProperties
      <4>4. QED
        BY <4>1, <4>3 DEF c, d
    <3>7. \A i \in 1..b - a + 1 : o + a + i - 1 = o + (a + i - 1) /\ a + i - 1 \in a..b
      BY <3>1
    <3>8. \A i \in 1..b - a + 1 : SubSeq(t, o + a, o + b)[i] = SubSeq(s, a, b)[i]
      BY <3>2, <3>5, <3>6, <3>7
    <3>9. QED
      BY <3>5, <3>6, <3>8, SeqEqual
  <2>9. QED
    BY <2>4, <2>7, <2>8
<1>4. QED
  BY <1>2, <1>3

\* What parseSkillMd has kept after n lines of a file whose first delimiter is
\* line a and whose second is line b; without one it is the line after the last.
FrontLines(a, b, n) == {i \in 1..n : a < i /\ i < b}

\* Its flags.
ReadFlags(ls, a, b, n, p) ==
  /\ p.sawDelim <=> n >= a
  /\ p.inFront <=> a <= n /\ n < b
  /\ p.err <=> \E i \in FrontLines(a, b, n) : ls[i].kind = "text"

\* Its name: the last one of the front matter.
ReadName(ls, a, b, n, p) ==
  /\ (\A i \in FrontLines(a, b, n) : ls[i].kind # "name") => p.name = 0
  /\ \A i \in FrontLines(a, b, n) :
       ls[i].kind = "name" /\ (\A j \in FrontLines(a, b, n) : ls[j].kind = "name" => j <= i)
         => p.name = ls[i].val

\* How much of the file is body.
BodyLength(a, b, n) == IF n < a THEN n ELSE IF n < b THEN a - 1 ELSE (a - 1) + (n - b)

\* Its body: the lines around the front matter.
ReadBody(ls, a, b, n, p) ==
  /\ Len(p.body) = BodyLength(a, b, n)
  /\ \A k \in 1..BodyLength(a, b, n) :
       p.body[k] = IF k < a THEN ls[k] ELSE ls[b + (k - (a - 1))]

\* The invariant of the loop over the lines.
ReadTo(ls, a, b, n, p) ==
  ReadFlags(ls, a, b, n, p) /\ ReadName(ls, a, b, n, p) /\ ReadBody(ls, a, b, n, p)

\* Lines a and b are the first two delimiters.
Delimited(ls, a, b) ==
  /\ a \in 1..Len(ls) + 1 /\ b \in 1..Len(ls) + 1 /\ a <= b
  /\ \A i \in 1..a - 1 : ls[i].kind # "delim"
  /\ a <= Len(ls) => a < b /\ ls[a].kind = "delim"
  /\ \A i \in a + 1..b - 1 : ls[i].kind # "delim"
  /\ b <= Len(ls) => ls[b].kind = "delim"

\* One line more.
LEMMA ReadLine ==
  ASSUME NEW ls \in Seq(SkillLine), NEW a, NEW b, Delimited(ls, a, b),
         NEW n \in 1..Len(ls), NEW p \in ParseState, ReadTo(ls, a, b, n - 1, p)
  PROVE  ReadTo(ls, a, b, n, ParseLine(p, ls[n]))
<1> DEFINE l == ls[n]
           q == ParseLine(p, l)
           m == Len(ls)
<1>1. /\ m \in Nat /\ l \in SkillLine /\ n \in Nat /\ a \in Nat /\ b \in Nat /\ a >= 1 /\ a <= b
      /\ n >= 1 /\ n <= m /\ n - 1 \in Nat
  BY DEF Delimited
<1>2. /\ ~p.inFront /\ ~p.sawDelim /\ l.kind = "delim" => q = [p EXCEPT !.inFront = TRUE, !.sawDelim = TRUE]
      /\ ~p.inFront /\ (p.sawDelim \/ l.kind # "delim") => q = [p EXCEPT !.body = Append(@, l)]
      /\ p.inFront /\ l.kind = "delim" => q = [p EXCEPT !.inFront = FALSE]
      /\ p.inFront /\ l.kind = "text" => q = [p EXCEPT !.err = TRUE]
      /\ p.inFront /\ l.kind = "name" => q = [p EXCEPT !.name = l.val]
      /\ p.inFront /\ l.kind \notin {"delim", "text", "name"} => q = p
  BY <1>1, ParseLineCases
<1> SUFFICES ReadTo(ls, a, b, n, q)
  OBVIOUS
<1>3. ReadFlags(ls, a, b, n - 1, p) /\ ReadName(ls, a, b, n - 1, p) /\ ReadBody(ls, a, b, n - 1, p)
  BY DEF ReadTo
<1>4. /\ p.sawDelim <=> n - 1 >= a
      /\ p.inFront <=> a <= n - 1 /\ n - 1 < b
      /\ p.err <=> \E i \in FrontLines(a, b, n - 1) : ls[i].kind = "text"
  BY <1>3 DEF ReadFlags
<1>5. /\ Len(p.body) = BodyLength(a, b, n - 1)
      /\ \A k \in 1..BodyLength(a, b, n - 1) :
           p.body[k] = IF k < a THEN ls[k] ELSE ls[b + (k - (a - 1))]
  BY <1>3 DEF ReadBody
<1>6. p.body \in Seq(SkillLine) /\ p.inFront \in BOOLEAN /\ p.sawDelim \in BOOLEAN /\ p.err \in BOOLEAN
  BY DEF ParseState
<1>7. \A r : r = [p EXCEPT !.body = Append(@, l)]
               => /\ r.sawDelim = p.sawDelim /\ r.inFront = p.inFront /\ r.err = p.err
                  /\ r.name = p.name /\ r.body = Append(p.body, l)
  BY DEF ParseState
<1>8. /\ Append(p.body, l)[Len(p.body) + 1] = l /\ Len(Append(p.body, l)) = Len(p.body) + 1
      /\ Len(p.body) \in Nat
      /\ \A k \in 1..Len(p.body) : Append(p.body, l)[k] = p.body[k]
  BY <1>1, <1>6
<1>9. l = ls[n]
  OBVIOUS
<1> HIDE DEF q, l, m
<1>10. CASE n < a
  <2>1. l.kind # "delim"
    BY <1>1, <1>9, <1>10 DEF Delimited
  <2>2. ~p.inFront /\ ~p.sawDelim
    BY <1>1, <1>4, <1>10
  <2>3. q = [p EXCEPT !.body = Append(@, l)]
    BY <1>2, <2>1, <2>2
  <2>4. /\ q.sawDelim = p.sawDelim /\ q.inFront = p.inFront /\ q.err = p.err /\ q.name = p.name
        /\ q.body = Append(p.body, l)
    BY <1>7, <2>3
  <2>5. FrontLines(a, b, n) = {} /\ FrontLines(a, b, n - 1) = {}
    BY <1>1, <1>10 DEF FrontLines
  <2>6. BodyLength(a, b, n) = n /\ BodyLength(a, b, n - 1) = n - 1
    BY <1>1, <1>10 DEF BodyLength
  <2>7. ReadFlags(ls, a, b, n, q)
    BY <1>1, <1>4, <1>10, <2>2, <2>4, <2>5 DEF ReadFlags
  <2>8. ReadName(ls, a, b, n, q)
    BY <1>3, <2>4, <2>5 DEF ReadName
  <2>9. ReadBody(ls, a, b, n, q)
    <3>1. Len(q.body) = n /\ q.body[n] = ls[n] /\ \A k \in 1..n - 1 : q.body[k] = ls[k]
      BY <1>1, <1>5, <1>8, <1>9, <1>10, <2>4, <2>6
    <3>2. \A k \in 1..n : k < a /\ (k = n \/ k \in 1..n - 1)
      BY <1>1, <1>10
    <3>3. QED
      BY <2>6, <3>1, <3>2 DEF ReadBody
  <2>10. QED
    BY <2>7, <2>8, <2>9 DEF ReadTo
<1>11. CASE n = a
  <2>1. l.kind = "delim" /\ a < b
    BY <1>1, <1>9, <1>11 DEF Delimited, m
  <2>2. ~p.sawDelim /\ ~p.inFront
    BY <1>1, <1>4, <1>11
  <2>3. q = [p EXCEPT !.inFront = TRUE, !.sawDelim = TRUE]
    BY <1>2, <2>1, <2>2
  <2>4. q.sawDelim = TRUE /\ q.inFront = TRUE /\ q.err = p.err /\ q.name = p.name /\ q.body = p.body
    BY <2>3 DEF ParseState
  <2>5. FrontLines(a, b, n) = {} /\ FrontLines(a, b, n - 1) = {}
    BY <1>1, <1>11 DEF FrontLines
  <2>6. BodyLength(a, b, n) = BodyLength(a, b, n - 1)
    BY <1>1, <1>11, <2>1 DEF BodyLength
  <2>7. ReadFlags(ls, a, b, n, q)
    BY <1>1, <1>4, <1>11, <2>1, <2>4, <2>5 DEF ReadFlags
  <2>8. ReadName(ls, a, b, n, q)
    BY <1>3, <2>4, <2>5 DEF ReadName
  <2>9. ReadBody(ls, a, b, n, q)
    BY <1>5, <2>4, <2>6 DEF ReadBody
  <2>10. QED
    BY <2>7, <2>8, <2>9 DEF ReadTo
<1>12. CASE a < n /\ n < b
  <2>1. l.kind # "delim"
    BY <1>1, <1>9, <1>12 DEF Delimited
  <2>2. p.inFront /\ p.sawDelim
    BY <1>1, <1>4, <1>12
  <2>3. FrontLines(a, b, n) = FrontLines(a, b, n - 1) \cup {n} /\ \A i \in FrontLines(a, b, n - 1) : i < n /\ i \in Nat
    BY <1>1, <1>12 DEF FrontLines
  <2>4. /\ q.sawDelim = p.sawDelim /\ q.inFront = p.inFront /\ q.body = p.body
        /\ q.err = (p.err \/ l.kind = "text")
        /\ q.name = IF l.kind = "name" THEN l.val ELSE p.name
    <3>1. CASE l.kind = "text"
      <4>1. q = [p EXCEPT !.err = TRUE] /\ l.kind # "name"
        BY <1>2, <2>2, <3>1
      <4>2. QED
        BY <3>1, <4>1 DEF ParseState
    <3>2. CASE l.kind = "name"
      <4>1. q = [p EXCEPT !.name = l.val] /\ l.kind # "text"
        BY <1>2, <2>2, <3>2
      <4>2. QED
        BY <1>6, <3>2, <4>1 DEF ParseState
    <3>3. CASE l.kind \notin {"text", "name"}
      <4>1. q = p
        BY <1>2, <2>1, <2>2, <3>3
      <4>2. QED
        BY <1>6, <3>3, <4>1
    <3>4. QED
      BY <3>1, <3>2, <3>3
  <2>5. ReadFlags(ls, a, b, n, q)
    <3>1. q.err <=> \E i \in FrontLines(a, b, n) : ls[i].kind = "text"
      BY <1>4, <1>9, <2>3, <2>4
    <3>2. /\ q.sawDelim <=> n >= a
          /\ q.inFront <=> a <= n /\ n < b
      BY <1>1, <1>12, <2>2, <2>4
    <3>3. QED
      BY <3>1, <3>2 DEF ReadFlags
  <2>6. ReadName(ls, a, b, n, q)
    <3>1. (\A i \in FrontLines(a, b, n) : ls[i].kind # "name") => q.name = 0
      BY <1>3, <1>9, <2>3, <2>4 DEF ReadName
    <3>2. ASSUME NEW i \in FrontLines(a, b, n), ls[i].kind = "name",
                 \A j \in FrontLines(a, b, n) : ls[j].kind = "name" => j <= i
          PROVE  q.name = ls[i].val
      <4>1. CASE l.kind = "name"
        <5>1. n <= i /\ (i = n \/ (i < n /\ i \in Nat))
          BY <1>9, <2>3, <3>2, <4>1
        <5>2. i = n
          BY <1>1, <5>1
        <5>3. QED
          BY <1>9, <2>4, <4>1, <5>2
      <4>2. CASE l.kind # "name"
        <5>1. i \in FrontLines(a, b, n - 1)
          BY <1>9, <2>3, <3>2, <4>2
        <5>2. p.name = ls[i].val
          BY <1>3, <2>3, <3>2, <5>1 DEF ReadName
        <5>3. QED
          BY <2>4, <4>2, <5>2
      <4>3. QED
        BY <4>1, <4>2
    <3>3. QED
      BY <3>1, <3>2 DEF ReadName
  <2>7. BodyLength(a, b, n) = BodyLength(a, b, n - 1)
    BY <1>1, <1>12 DEF BodyLength
  <2>8. ReadBody(ls, a, b, n, q)
    BY <1>5, <2>4, <2>7 DEF ReadBody
  <2>9. QED
    BY <2>5, <2>6, <2>8 DEF ReadTo
<1>13. CASE a < n /\ b <= n
  <2>1. FrontLines(a, b, n) = FrontLines(a, b, n - 1)
    BY <1>1, <1>13 DEF FrontLines
  <2>2. p.sawDelim /\ (n = b <=> p.inFront) /\ n >= a /\ ~(n < b)
    BY <1>1, <1>4, <1>13
  <2>3. CASE n = b
    <3>1. l.kind = "delim"
      BY <1>1, <1>9, <2>3 DEF Delimited, m
    <3>2. q = [p EXCEPT !.inFront = FALSE]
      BY <1>2, <2>2, <2>3, <3>1
    <3>3. q.sawDelim = p.sawDelim /\ q.inFront = FALSE /\ q.err = p.err /\ q.name = p.name /\ q.body = p.body
      BY <3>2 DEF ParseState
    <3>4. BodyLength(a, b, n) = BodyLength(a, b, n - 1)
      BY <1>1, <1>13, <2>3 DEF BodyLength
    <3>5. ReadFlags(ls, a, b, n, q)
      BY <1>4, <2>1, <2>2, <3>3 DEF ReadFlags
    <3>6. ReadName(ls, a, b, n, q)
      BY <1>3, <2>1, <3>3 DEF ReadName
    <3>7. ReadBody(ls, a, b, n, q)
      BY <1>5, <3>3, <3>4 DEF ReadBody
    <3>8. QED
      BY <3>5, <3>6, <3>7 DEF ReadTo
  <2>4. CASE n # b
    <3>1. q = [p EXCEPT !.body = Append(@, l)] /\ ~p.inFront
      BY <1>2, <2>2, <2>4
    <3>2. /\ q.sawDelim = p.sawDelim /\ q.inFront = p.inFront /\ q.err = p.err /\ q.name = p.name
          /\ q.body = Append(p.body, l)
      BY <1>7, <3>1
    <3> DEFINE c == BodyLength(a, b, n - 1)
    <3>3. c \in Nat /\ BodyLength(a, b, n) = c + 1 /\ ~(c + 1 < a) /\ b + ((c + 1) - (a - 1)) = n
      BY <1>1, <1>13, <2>4 DEF BodyLength
    <3>4. c = Len(p.body) /\ \A k \in 1..c : p.body[k] = IF k < a THEN ls[k] ELSE ls[b + (k - (a - 1))]
      BY <1>5
    <3> HIDE DEF c
    <3>5. /\ Len(q.body) = c + 1 /\ q.body[c + 1] = ls[n]
          /\ \A k \in 1..c : q.body[k] = p.body[k]
      BY <1>8, <1>9, <3>2, <3>4
    <3>6. \A k \in 1..c + 1 : q.body[k] = IF k < a THEN ls[k] ELSE ls[b + (k - (a - 1))]
      <4>1. \A k \in 1..c + 1 : k \in 1..c \/ k = c + 1
        BY <3>3
      <4>2. q.body[c + 1] = IF c + 1 < a THEN ls[c + 1] ELSE ls[b + ((c + 1) - (a - 1))]
        BY <3>3, <3>5
      <4>3. QED
        BY <3>4, <3>5, <4>1, <4>2
    <3>7. ReadBody(ls, a, b, n, q)
      BY <3>3, <3>5, <3>6 DEF ReadBody
    <3>8. ReadFlags(ls, a, b, n, q)
      BY <1>4, <2>1, <2>2, <2>4, <3>2 DEF ReadFlags
    <3>9. ReadName(ls, a, b, n, q)
      BY <1>3, <2>1, <3>2 DEF ReadName
    <3>10. QED
      BY <3>7, <3>8, <3>9 DEF ReadTo
  <2>5. QED
    BY <2>3, <2>4
<1>14. QED
  BY <1>1, <1>10, <1>11, <1>12, <1>13

\* What parseSkillMd makes of a file whose first two delimiters are a and b.
LEMMA ParseReads ==
  ASSUME NEW ls \in Seq(SkillLine), NEW a, NEW b, Delimited(ls, a, b)
  PROVE  \E p \in ParseState :
           /\ ReadTo(ls, a, b, Len(ls), p)
           /\ parseSkillMd(ls) = IF p.err \/ \E i \in DOMAIN ls : ls[i].kind = "long"
                                 THEN ParseError
                                 ELSE Skill(p.name, TrimLines(p.body), <<>>)
<1> DEFINE m == Len(ls)
<1>1. PICK g \in [0..m -> ParseState] :
        /\ g[0] = ParseStart
        /\ \A n \in 1..m : g[n] = ParseLine(g[n - 1], ls[n])
        /\ parseSkillMd(ls) = IF g[m].err \/ \E i \in DOMAIN ls : ls[i].kind = "long"
                              THEN ParseError
                              ELSE Skill(g[m].name, TrimLines(g[m].body), <<>>)
  BY ParseRuns
<1>2. m \in Nat /\ a \in Nat /\ b \in Nat /\ a >= 1 /\ a <= b
  BY DEF Delimited
<1> DEFINE T == {n \in 0..m : ReadTo(ls, a, b, n, g[n])}
<1>3. 0 \in T
  <2>1. FrontLines(a, b, 0) = {} /\ BodyLength(a, b, 0) = 0
    BY <1>2 DEF FrontLines, BodyLength
  <2>2. /\ g[0].sawDelim = FALSE /\ g[0].inFront = FALSE /\ g[0].err = FALSE
        /\ g[0].name = 0 /\ g[0].body = <<>>
    BY <1>1 DEF ParseStart
  <2>3. ReadFlags(ls, a, b, 0, g[0])
    BY <1>2, <2>1, <2>2 DEF ReadFlags
  <2>4. ReadName(ls, a, b, 0, g[0])
    BY <2>1, <2>2 DEF ReadName
  <2>5. ReadBody(ls, a, b, 0, g[0])
    BY <2>1, <2>2 DEF ReadBody
  <2>6. QED
    BY <1>2, <2>3, <2>4, <2>5 DEF ReadTo
<1>4. ASSUME NEW n \in 1..m, n - 1 \in T
      PROVE  n \in T
  <2>1. n \in 0..m /\ n - 1 \in 0..m /\ ReadTo(ls, a, b, n - 1, g[n - 1])
        /\ g[n] = ParseLine(g[n - 1], ls[n])
    BY <1>1, <1>2, <1>4
  <2>2. g[n - 1] \in ParseState
    BY <2>1
  <2>3. ReadTo(ls, a, b, n, g[n])
    BY <2>1, <2>2, ReadLine
  <2>4. QED
    BY <2>1, <2>3
<1> HIDE DEF T
<1>5. m \in T
  <2>1. \A n \in 1..m : n - 1 \in T => n \in T
    BY <1>4
  <2>2. \A n \in 0..m : n \in T
    BY <1>2, <1>3, <2>1, CountsUp
  <2>3. QED
    BY <1>2, <2>2
<1>6. g[m] \in ParseState /\ ReadTo(ls, a, b, m, g[m])
  BY <1>2, <1>5 DEF T
<1>7. QED
  BY <1>1, <1>6

\* The first two delimiters, as Said counts them.
LEMMA DelimitersAre ==
  ASSUME NEW ls \in Seq(SkillLine),
         NEW delims, delims = {i \in DOMAIN ls : ls[i].kind = "delim"}
  PROVE  \E a, b :
           /\ Delimited(ls, a, b)
           /\ delims = {} => a = Len(ls) + 1
           /\ delims # {} => a = Min(delims) /\ a \in 1..Len(ls)
           /\ delims # {} => b = IF Cardinality(delims) < 2 THEN Len(ls) + 1
                                 ELSE Min(delims \ {Min(delims)})
<1> DEFINE m == Len(ls)
<1>1. /\ m \in Nat /\ DOMAIN ls = 1..m /\ delims \in SUBSET (0..m)
      /\ \A i : i \in delims <=> i \in 1..m /\ ls[i].kind = "delim"
  OBVIOUS
<1>2. CASE delims = {}
  <2>1. Delimited(ls, m + 1, m + 1)
    BY <1>1, <1>2 DEF Delimited
  <2>2. QED
    BY <1>2, <2>1
<1>3. CASE delims # {}
  <2> DEFINE a == Min(delims)
             rest == delims \ {a}
  <2>1. a \in delims /\ \A y \in delims : a <= y
    BY <1>1, <1>3, MinMaxIs
  <2> HIDE DEF a
  <2>2. a \in 1..m /\ ls[a].kind = "delim" /\ \A i \in 1..a - 1 : ls[i].kind # "delim"
    BY <1>1, <2>1
  <2>3. IsFiniteSet(delims) /\ Cardinality(delims) \in Nat
    <3>1. IsFiniteSet(0..m)
      BY <1>1, FS_Interval
    <3>2. QED
      BY <1>1, <3>1, FS_Subset, FS_CardinalityType
  <2>4. Cardinality(rest) = Cardinality(delims) - 1 /\ IsFiniteSet(rest)
    BY <2>1, <2>3, FS_RemoveElement
  <2>5. CASE rest = {}
    <3>1. Cardinality(delims) < 2
      <4>1. Cardinality(rest) = 0
        BY <2>5, FS_EmptySet
      <4>2. QED
        BY <2>3, <2>4, <4>1
    <3>2. \A i \in a + 1..m : ls[i].kind # "delim"
      BY <1>1, <2>2, <2>5
    <3>3. Delimited(ls, a, m + 1)
      BY <1>1, <2>2, <3>2 DEF Delimited
    <3>4. QED
      BY <1>3, <2>2, <3>1, <3>3 DEF a
  <2>6. CASE rest # {}
    <3> DEFINE b == Min(rest)
    <3>1. b \in rest /\ \A y \in rest : b <= y
      <4>1. rest \in SUBSET (0..m)
        BY <1>1
      <4> HIDE DEF rest
      <4>2. QED
        BY <1>1, <2>6, <4>1, MinMaxIs
    <3> HIDE DEF b
    <3>2. ~(Cardinality(delims) < 2)
      <4>1. Cardinality(rest) # 0 /\ Cardinality(rest) \in Nat
        BY <2>4, <2>6, FS_EmptySet, FS_CardinalityType
      <4>2. QED
        BY <2>3, <2>4, <4>1
    <3>3. b \in 1..m /\ a < b /\ ls[b].kind = "delim"
      BY <1>1, <2>1, <2>2, <3>1
    <3>4. \A i \in a + 1..b - 1 : ls[i].kind # "delim"
      BY <1>1, <2>2, <3>1, <3>3
    <3>5. Delimited(ls, a, b)
      BY <1>1, <2>2, <3>3, <3>4 DEF Delimited
    <3>6. QED
      BY <1>3, <2>2, <3>2, <3>5 DEF a, b
  <2>7. QED
    BY <2>5, <2>6
<1>4. QED
  BY <1>2, <1>3

\* parseSkillMd makes of a file what it says.
LEMMA ParsedAsSaid ==
  ASSUME NEW ls \in Seq(SkillLine), Leading(ls)
  PROVE  /\ Said(ls).valid <=> parseSkillMd(ls) # ParseError
         /\ Said(ls).valid => /\ parseSkillMd(ls).name = Said(ls).name
                              /\ parseSkillMd(ls).prompt = Said(ls).prompt
<1> DEFINE m == Len(ls)
           delims == {i \in DOMAIN ls : ls[i].kind = "delim"}
           first == IF delims = {} THEN 0 ELSE Min(delims)
           second == IF Cardinality(delims) < 2
                     THEN IF delims = {} THEN 0 ELSE Len(ls) + 1
                     ELSE Min(delims \ {first})
           front == {i \in DOMAIN ls : first < i /\ i < second}
           named == {i \in front : ls[i].kind = "name"}
           body == SubSeq(ls, second + 1, Len(ls))
<1>1. /\ Said(ls).valid <=> /\ \A i \in front : ls[i].kind # "text"
                            /\ \A i \in DOMAIN ls : ls[i].kind # "long"
      /\ Said(ls).name = IF named = {} THEN 0 ELSE ls[Max(named)].val
      /\ Said(ls).prompt = TrimLines(body)
  BY DEF Said
<1>2. delims # {} => \A i \in 1..Min(delims) - 1 : ls[i].kind = "blank"
  BY DEF Leading
<1>3. m \in Nat /\ DOMAIN ls = 1..m /\ \A i \in 1..m : ls[i] \in SkillLine
  OBVIOUS
<1>4. delims = {} => Cardinality(delims) = 0
  BY FS_EmptySet
<1>5. PICK a, b : /\ Delimited(ls, a, b)
                  /\ delims = {} => a = Len(ls) + 1
                  /\ delims # {} => a = Min(delims) /\ a \in 1..Len(ls)
                  /\ delims # {} => b = IF Cardinality(delims) < 2 THEN Len(ls) + 1
                                        ELSE Min(delims \ {Min(delims)})
  <2> HIDE DEF first, second, front, named, body
  <2>1. delims = {i \in DOMAIN ls : ls[i].kind = "delim"}
    OBVIOUS
  <2> HIDE DEF delims
  <2>2. QED
    BY <2>1, DelimitersAre
<1> HIDE DEF delims
<1>6. a \in 1..m + 1 /\ b \in 1..m + 1 /\ a <= b /\ (a <= m => a < b)
  BY <1>5 DEF Delimited
<1>7. delims = {} => first = 0 /\ second = 0 /\ a = m + 1 /\ b = m + 1
  BY <1>3, <1>4, <1>5, <1>6
<1>8. delims # {} => first = a /\ second = b /\ a \in 1..m
  BY <1>5
<1>9. /\ body \in Seq(SkillLine)
      /\ delims = {} => body = ls
      /\ delims # {} => /\ Len(body) = m - b + (IF b <= m THEN 0 ELSE b - m)
                        /\ \A k \in 1..m - b : body[k] = ls[b + k]
  <2>1. second \in Int /\ second >= 0 /\ m \in Int /\ second + 1 \in Int
    BY <1>3, <1>6, <1>7, <1>8
  <2> HIDE DEF second
  <2> DEFINE c == second + 1
  <2>2. c \in Int /\ c >= 1 /\ c = second + 1
    BY <2>1
  <2> HIDE DEF c
  <2>3. \A i \in c..m : ls[i] \in SkillLine
    BY <1>3, <2>1, <2>2
  <2>4. /\ SubSeq(ls, c, m) \in Seq(SkillLine)
        /\ Len(SubSeq(ls, c, m)) = IF c <= m THEN m - c + 1 ELSE 0
        /\ \A i \in 1..m - c + 1 : SubSeq(ls, c, m)[i] = ls[c + i - 1]
    BY <2>1, <2>2, <2>3, SubSeqProperties
  <2>5. body = SubSeq(ls, c, m)
    BY DEF c
  <2> HIDE DEF body
  <2>6. ASSUME delims = {}
        PROVE  body = ls
    <3>1. c = 1
      BY <1>7, <2>2, <2>6
    <3>2. Len(body) = m /\ \A i \in 1..m : body[i] = ls[i]
      BY <1>3, <2>4, <2>5, <3>1
    <3>3. QED
      BY <2>4, <2>5, <3>2, SeqEqual
  <2>7. ASSUME delims # {}
        PROVE  /\ Len(body) = m - b + (IF b <= m THEN 0 ELSE b - m)
               /\ \A k \in 1..m - b : body[k] = ls[b + k]
    <3>1. c = b + 1
      BY <1>8, <2>2, <2>7
    <3>2. Len(body) = m - b + (IF b <= m THEN 0 ELSE b - m)
      BY <1>3, <1>6, <2>4, <2>5, <3>1
    <3>3. \A k \in 1..m - b : k \in 1..m - c + 1 /\ c + k - 1 = b + k
      BY <1>3, <1>6, <3>1
    <3>4. QED
      BY <2>4, <2>5, <3>2, <3>3
  <2>8. QED
    BY <2>4, <2>5, <2>6, <2>7
<1>10. front = FrontLines(a, b, m)
  <2>1. CASE delims = {}
    BY <1>3, <1>6, <1>7, <2>1 DEF FrontLines
  <2>2. CASE delims # {}
    BY <1>3, <1>8, <2>2 DEF FrontLines
  <2>3. QED
    BY <2>1, <2>2
<1> HIDE DEF body, first, second
<1>11. PICK p \in ParseState :
         /\ ReadTo(ls, a, b, m, p)
         /\ parseSkillMd(ls) = IF p.err \/ \E i \in DOMAIN ls : ls[i].kind = "long"
                               THEN ParseError
                               ELSE Skill(p.name, TrimLines(p.body), <<>>)
  <2>1. Delimited(ls, a, b)
    BY <1>5
  <2>2. QED
    BY <2>1, ParseReads
<1>12. p.err <=> \E i \in front : ls[i].kind = "text"
  BY <1>10, <1>11 DEF ReadTo, ReadFlags
<1>13. p.name = Said(ls).name
  <2>1. CASE named = {}
    <3>1. \A i \in FrontLines(a, b, m) : ls[i].kind # "name"
      BY <1>10, <2>1
    <3>2. p.name = 0
      BY <1>11, <3>1 DEF ReadTo, ReadName
    <3>3. QED
      BY <1>1, <2>1, <3>2
  <2>2. CASE named # {}
    <3> DEFINE i == Max(named)
    <3>1. named \in SUBSET (0..m)
      BY <1>3, <1>10 DEF FrontLines
    <3>2. i \in named /\ \A y \in named : y <= i
      <4> HIDE DEF named
      <4>1. QED
        BY <1>3, <2>2, <3>1, MinMaxIs
    <3> HIDE DEF i
    <3>3. /\ i \in FrontLines(a, b, m) /\ ls[i].kind = "name"
          /\ \A j \in FrontLines(a, b, m) : ls[j].kind = "name" => j <= i
      BY <1>10, <3>2
    <3>4. p.name = ls[i].val
      BY <1>11, <3>3 DEF ReadTo, ReadName
    <3>5. QED
      BY <1>1, <2>2, <3>4 DEF i
  <2>3. QED
    BY <2>1, <2>2
<1>14. TrimLines(p.body) = TrimLines(body)
  <2>1. /\ Len(p.body) = BodyLength(a, b, m)
        /\ \A k \in 1..BodyLength(a, b, m) : p.body[k] = IF k < a THEN ls[k] ELSE ls[b + (k - (a - 1))]
    BY <1>11 DEF ReadTo, ReadBody
  <2>2. p.body \in Seq(SkillLine)
    BY DEF ParseState
  <2>3. CASE delims = {}
    <3>1. BodyLength(a, b, m) = m /\ a = m + 1
      <4>1. a = m + 1 /\ m < m + 1
        BY <1>3, <1>7, <2>3
      <4> HIDE DEF m
      <4>2. QED
        BY <4>1 DEF BodyLength
    <3>2. \A k \in 1..m : p.body[k] = ls[k]
      BY <1>3, <2>1, <3>1
    <3>3. p.body = ls
      BY <2>1, <2>2, <3>1, <3>2, SeqEqual
    <3>4. QED
      BY <1>9, <2>3, <3>3
  <2>4. CASE delims # {}
    <3> DEFINE o == a - 1
    <3>1. o \in Nat /\ a \in 1..m /\ BodyLength(a, b, m) = o + Len(body)
      <4>1. a \in 1..m /\ Len(body) = m - b + (IF b <= m THEN 0 ELSE b - m)
        BY <1>8, <1>9, <2>4
      <4>2. BodyLength(a, b, m) = IF m < a THEN m ELSE IF m < b THEN a - 1 ELSE (a - 1) + (m - b)
        BY DEF BodyLength
      <4> HIDE DEF m
      <4>3. QED
        BY <1>3, <1>6, <4>1, <4>2
    <3>2. \A k \in 1..o : p.body[k].kind = "blank"
      <4>1. \A k \in 1..o : k < a /\ k \in 1..BodyLength(a, b, m) /\ ls[k].kind = "blank"
        BY <1>2, <1>3, <1>5, <1>9, <2>4, <3>1
      <4>2. QED
        BY <2>1, <4>1
    <3>3. \A k \in 1..Len(body) : p.body[o + k] = body[k]
      <4>1. \A k \in 1..Len(body) : /\ k \in 1..m - b /\ o + k \in 1..BodyLength(a, b, m)
                                    /\ ~(o + k < a) /\ b + ((o + k) - (a - 1)) = b + k
        BY <1>3, <1>6, <1>9, <2>4, <3>1
      <4>2. QED
        BY <1>9, <2>1, <2>4, <4>1
    <3> HIDE DEF o
    <3>4. QED
      BY <1>9, <2>1, <2>2, <3>1, <3>2, <3>3, TrimShift
  <2>5. QED
    BY <2>3, <2>4
<1>15. Said(ls).valid <=> ~(p.err \/ \E i \in DOMAIN ls : ls[i].kind = "long")
  BY <1>1, <1>12
<1>16. Skill(p.name, TrimLines(p.body), <<>>) \in Skills
  <2>1. p.name \in Nat /\ p.body \in Seq(SkillLine)
    BY DEF ParseState
  <2>2. TrimLines(p.body) \in Seq(SkillLine) /\ <<>> \in Seq(AgentTool)
    BY <2>1, TrimIs, EmptySeq
  <2>3. QED
    BY <2>1, <2>2 DEF Skill, Skills
<1>17. Said(ls).valid <=> parseSkillMd(ls) # ParseError
  <2>1. ParseError \notin Skills
    BY AgentAssumption
  <2>2. QED
    BY <1>11, <1>15, <1>16, <2>1
<1>18. ASSUME Said(ls).valid
       PROVE  /\ parseSkillMd(ls).name = Said(ls).name
              /\ parseSkillMd(ls).prompt = Said(ls).prompt
  <2>1. parseSkillMd(ls) = Skill(p.name, TrimLines(p.body), <<>>)
    BY <1>11, <1>15, <1>18
  <2>2. Said(ls).prompt = TrimLines(p.body)
    BY <1>1, <1>14
  <2>3. QED
    BY <1>13, <2>1, <2>2 DEF Skill
<1>19. QED
  BY <1>17, <1>18

-------------------------------------------------------------------------------
(* Skills: what Load makes of a walk *)

\* What the files of a walk say, as LoadFaithful counts it.
GoodFiles(w) == {i \in DOMAIN w : w[i].readable /\ Said(w[i].lines).valid}
FileName(w, i) == IF Said(w[i].lines).name = 0 THEN w[i].dir ELSE Said(w[i].lines).name

\* What Load has made of the first n files.
LoadedTo(w, n, s) ==
  /\ DOMAIN s = {FileName(w, i) : i \in {j \in GoodFiles(w) : j <= n}}
  /\ \A i \in GoodFiles(w) :
       /\ i <= n
       /\ \A j \in GoodFiles(w) : FileName(w, j) = FileName(w, i) => i <= j
       => s[FileName(w, i)].prompt = Said(w[i].lines).prompt

\* One file: nothing is added unless it is good and the first of its name.
LEMMA LoadOne ==
  ASSUME NEW w \in Seq(SkillFile), \A i \in DOMAIN w : Leading(w[i].lines),
         NEW n \in 1..Len(w), NEW s, Loaded(s), LoadedTo(w, n - 1, s)
  PROVE  LoadedTo(w, n, LoadFile(s, w[n]))
<1> DEFINE f == w[n]
           t == LoadFile(s, f)
           G == GoodFiles(w)
           Name(i) == FileName(w, i)
<1>1. /\ n \in Nat /\ n - 1 \in Nat /\ DOMAIN w = 1..Len(w) /\ Len(w) \in Nat
      /\ f \in SkillFile /\ Leading(f.lines)
  OBVIOUS
<1>2. f.lines \in Seq(SkillLine) /\ f.dir \in Nat /\ f.dir # 0 /\ f.readable \in BOOLEAN
  BY <1>1 DEF SkillFile
<1>3. G \in SUBSET (1..Len(w)) /\ (n \in G <=> f.readable /\ Said(f.lines).valid)
  BY <1>1 DEF GoodFiles
<1>4. /\ Said(f.lines).valid <=> parseSkillMd(f.lines) # ParseError
      /\ Said(f.lines).valid => /\ parseSkillMd(f.lines).name = Said(f.lines).name
                                /\ parseSkillMd(f.lines).prompt = Said(f.lines).prompt
  BY <1>1, <1>2, ParsedAsSaid
<1>5. /\ DOMAIN s = {Name(i) : i \in {j \in G : j <= n - 1}}
      /\ \A i \in G : i <= n - 1 /\ (\A j \in G : Name(j) = Name(i) => i <= j)
                        => s[Name(i)].prompt = Said(w[i].lines).prompt
  BY DEF LoadedTo
<1>6. Name(n) = IF Said(f.lines).name = 0 THEN f.dir ELSE Said(f.lines).name
  BY DEF FileName
<1>7. LoadFile(s, f) = IF ~f.readable \/ parseSkillMd(f.lines) = ParseError THEN s
                       ELSE SetAdd(s, FileSkill(f))
  BY DEF LoadFile, FileSkill
<1>8. /\ t = LoadFile(s, w[n])
      /\ \A i \in G : i = n => Said(w[i].lines).prompt = Said(f.lines).prompt
  OBVIOUS
<1> SUFFICES LoadedTo(w, n, t)
  OBVIOUS
<1>9. \A i \in G : i \in Nat /\ (i <= n <=> i <= n - 1 \/ i = n)
  BY <1>1, <1>3
<1>10. t = IF ~f.readable \/ parseSkillMd(f.lines) = ParseError THEN s
           ELSE SetAdd(s, FileSkill(f))
  BY <1>7
<1> HIDE DEF f, t, G, Name
<1>11. SUFFICES /\ DOMAIN t = {Name(i) : i \in {j \in G : j <= n}}
                /\ \A i \in G : i <= n /\ (\A j \in G : Name(j) = Name(i) => i <= j)
                                  => t[Name(i)].prompt = Said(w[i].lines).prompt
  BY DEF LoadedTo, G, Name
<1>12. CASE n \notin G
  <2>1. t = s
    BY <1>3, <1>4, <1>10, <1>12
  <2>2. {j \in G : j <= n} = {j \in G : j <= n - 1} /\ \A i \in G : i <= n => i <= n - 1
    BY <1>9, <1>12
  <2>3. QED
    BY <1>5, <2>1, <2>2
<1>13. CASE n \in G
  <2> DEFINE sk == FileSkill(f)
  <2>1. parseSkillMd(f.lines) # ParseError /\ t = SetAdd(s, sk)
    BY <1>3, <1>4, <1>10, <1>13
  <2>2. sk.name = Name(n) /\ sk.prompt = Said(f.lines).prompt
    <3>1. /\ sk.prompt = parseSkillMd(f.lines).prompt
          /\ sk.name = IF parseSkillMd(f.lines).name = 0 THEN f.dir ELSE parseSkillMd(f.lines).name
      BY <1>1, <2>1, FileSkillIs
    <3>2. QED
      BY <1>3, <1>4, <1>6, <1>13, <3>1
  <2>3. sk.name # 0
    BY <1>2, <1>6, <2>2
  <2> HIDE DEF sk
  <2>4. {j \in G : j <= n} = {j \in G : j <= n - 1} \cup {n}
    BY <1>9, <1>13
  <2>5. {Name(i) : i \in {j \in G : j <= n}} = DOMAIN s \cup {Name(n)}
    BY <1>5, <2>4
  <2>6. CASE Name(n) \in DOMAIN s
    <3>1. t = s
      BY <2>1, <2>2, <2>6 DEF SetAdd, SetAddFails
    <3>2. PICK k \in G : k <= n - 1 /\ Name(k) = Name(n)
      BY <1>5, <2>6
    <3>3. ~(n <= k)
      BY <1>1, <1>9, <3>2
    <3>4. \A i \in G : i <= n /\ (\A j \in G : Name(j) = Name(i) => i <= j) => i <= n - 1
      BY <1>9, <3>2, <3>3
    <3>5. QED
      BY <1>5, <2>5, <2>6, <3>1, <3>4
  <2>7. CASE Name(n) \notin DOMAIN s
    <3>1. ~SetAddFails(s, sk)
      BY <2>2, <2>3, <2>7 DEF SetAddFails
    <3>2. /\ DOMAIN t = DOMAIN s \cup {Name(n)} /\ t[Name(n)] = sk
          /\ \A x \in DOMAIN s : t[x] = s[x]
      <4>1. t = [x \in DOMAIN s \cup {Name(n)} |-> IF x = Name(n) THEN sk ELSE s[x]]
        BY <2>1, <2>2, <3>1 DEF SetAdd
      <4>2. QED
        BY <2>7, <4>1
    <3>3. ASSUME NEW i \in G, i <= n, \A j \in G : Name(j) = Name(i) => i <= j
          PROVE  t[Name(i)].prompt = Said(w[i].lines).prompt
      <4>1. CASE i = n
        BY <1>8, <2>2, <3>2, <4>1 DEF f
      <4>2. CASE i # n
        <5>1. i <= n - 1
          BY <1>9, <3>3, <4>2
        <5>2. Name(i) \in DOMAIN s
          BY <1>5, <5>1
        <5>3. s[Name(i)].prompt = Said(w[i].lines).prompt
          BY <1>5, <3>3, <5>1
        <5>4. QED
          BY <3>2, <5>2, <5>3
      <4>3. QED
        BY <4>1, <4>2
    <3>4. QED
      BY <2>5, <3>2, <3>3
  <2>8. QED
    BY <2>6, <2>7
<1>14. QED
  BY <1>12, <1>13

\* After the last file.
LEMMA LoadAll ==
  ASSUME NEW w \in Seq(SkillFile), \A i \in DOMAIN w : Leading(w[i].lines)
  PROVE  LoadedTo(w, Len(w), Load(w))
<1> DEFINE m == Len(w)
<1>1. PICK g : /\ g[0] = NewSet
               /\ \A n \in 1..m : g[n] = LoadFile(g[n - 1], w[n])
               /\ \A n \in 0..m : Loaded(g[n])
               /\ Load(w) = g[m]
  BY LoadRuns
<1>2. m \in Nat /\ GoodFiles(w) \in SUBSET (1..m)
  BY DEF GoodFiles
<1> DEFINE T == {n \in 0..m : LoadedTo(w, n, g[n])}
<1>3. 0 \in T
  <2>1. \A i \in GoodFiles(w) : ~(i <= 0)
    BY <1>2
  <2>2. {j \in GoodFiles(w) : j <= 0} = {}
    BY <2>1
  <2>3. DOMAIN g[0] = {}
    BY <1>1 DEF NewSet
  <2>4. LoadedTo(w, 0, g[0])
    BY <2>1, <2>2, <2>3 DEF LoadedTo
  <2>5. QED
    BY <1>2, <2>4
<1>4. ASSUME NEW n \in 1..m, n - 1 \in T
      PROVE  n \in T
  <2>1. n \in 0..m /\ n - 1 \in 0..m /\ LoadedTo(w, n - 1, g[n - 1])
        /\ g[n] = LoadFile(g[n - 1], w[n]) /\ Loaded(g[n - 1])
    BY <1>1, <1>2, <1>4
  <2>2. LoadedTo(w, n, g[n])
    BY <2>1, LoadOne
  <2>3. QED
    BY <2>1, <2>2
<1> HIDE DEF T
<1>5. m \in T
  <2>1. \A n \in 1..m : n - 1 \in T => n \in T
    BY <1>4
  <2>2. \A n \in 0..m : n \in T
    BY <1>2, <1>3, <2>1, CountsUp
  <2>3. QED
    BY <1>2, <2>2
<1>6. QED
  BY <1>1, <1>5 DEF T

\* What Load made of the walk is in the Set until the step that follows it.
LoadInv ==
  /\ stage = "load" => walk \in Seq(SkillFile)
  /\ stage = "mcp" /\ walk # <<>> =>
       walk \in Seq(SkillFile) /\ (~LoadFails(walk) => set = Load(walk))

\* Every step keeps that.
LEMMA LoadInvStep ==
  ASSUME LoadInv, [AgentNext]_allvars
  PROVE  LoadInv'
<1>1. CASE LoadSkills
  BY <1>1 DEF LoadInv, LoadSkills
<1>2. CASE McpStep
  BY <1>2 DEF LoadInv, McpStep
<1>3. CASE SkillBlocksNames
  BY <1>3 DEF LoadInv, SkillBlocksNames
<1>4. CASE IndexGet
  BY <1>4 DEF LoadInv, IndexGet, Looping
<1>5. CASE IndexDone
  BY <1>5 DEF LoadInv, IndexDone
<1>6. CASE BlockGet
  BY <1>6 DEF LoadInv, BlockGet, Looping
<1>7. CASE SkillToolsNames
  BY <1>7 DEF LoadInv, SkillToolsNames
<1>8. CASE ToolGet
  BY <1>8 DEF LoadInv, ToolGet, Looping
<1>9. CASE Assemble
  BY <1>9 DEF LoadInv, Assemble
<1>10. ASSUME NEW sk \in HostSkills, AddSkill(sk)
       PROVE  LoadInv'
  BY <1>10 DEF LoadInv, AddSkill, Edit
<1>11. ASSUME NEW n \in DOMAIN set, RemoveSkill(n)
       PROVE  LoadInv'
  BY <1>11 DEF LoadInv, RemoveSkill, Edit
<1>12. ASSUME NEW i \in DOMAIN agentTools, Call(agentTools[i])
       PROVE  LoadInv'
  BY <1>12 DEF LoadInv, Call
<1>13. CASE UNCHANGED allvars
  BY <1>13 DEF LoadInv, allvars, avars
<1>14. QED
  BY <1>1, <1>2, <1>3, <1>4, <1>5, <1>6, <1>7, <1>8, <1>9, <1>10, <1>11, <1>12, <1>13
  DEF AgentNext

\* A walk that did not fail and whose files begin with their front matter is in
\* the Set as it says.
LEMMA LoadInvFaithful ==
  ASSUME LoadInv
  PROVE  LoadFaithful
<1> SUFFICES ASSUME stage = "mcp", walk # <<>>, ~(\E i \in DOMAIN walk : walk[i].broken),
                    \A i \in DOMAIN walk : Leading(walk[i].lines)
             PROVE  /\ DOMAIN set = {FileName(walk, i) : i \in GoodFiles(walk)}
                    /\ \A n \in DOMAIN set :
                         set[n].prompt =
                           Said(walk[Min({i \in GoodFiles(walk) : FileName(walk, i) = n})].lines).prompt
  BY DEF LoadFaithful, FileName, GoodFiles
<1>1. walk \in Seq(SkillFile) /\ set = Load(walk)
  BY DEF LoadInv, LoadFails
<1>2. LoadedTo(walk, Len(walk), set)
  BY <1>1, LoadAll
<1>3. Len(walk) \in Nat /\ GoodFiles(walk) \in SUBSET (1..Len(walk))
  BY <1>1 DEF GoodFiles
<1>4. {j \in GoodFiles(walk) : j <= Len(walk)} = GoodFiles(walk)
  BY <1>3
<1>5. DOMAIN set = {FileName(walk, i) : i \in GoodFiles(walk)}
  BY <1>2, <1>4 DEF LoadedTo
<1>6. ASSUME NEW n \in DOMAIN set
      PROVE  set[n].prompt =
               Said(walk[Min({i \in GoodFiles(walk) : FileName(walk, i) = n})].lines).prompt
  <2> DEFINE I == {i \in GoodFiles(walk) : FileName(walk, i) = n}
             i == Min(I)
  <2>1. I \in SUBSET (0..Len(walk)) /\ I # {}
    BY <1>3, <1>5, <1>6
  <2>2. i \in I /\ \A y \in I : i <= y
    <3> HIDE DEF I
    <3>1. QED
      BY <1>3, <2>1, MinMaxIs
  <2> HIDE DEF i
  <2>3. /\ i \in GoodFiles(walk) /\ i <= Len(walk) /\ FileName(walk, i) = n
        /\ \A j \in GoodFiles(walk) : FileName(walk, j) = FileName(walk, i) => i <= j
    BY <1>3, <2>2
  <2>4. set[n].prompt = Said(walk[i].lines).prompt
    BY <1>2, <2>3 DEF LoadedTo
  <2>5. QED
    BY <2>4 DEF i
<1>7. QED
  BY <1>5, <1>6

\* FilesystemLoader.Load: whatever the files of the walk are, the Set holds under
\* each name what the first readable and well-formed file of that name says, and
\* nothing else.
THEOREM LoadFaithfulAlways == AgentSpec => []LoadFaithful
<1>1. AgentInit => LoadInv
  <2> SUFFICES ASSUME AgentInit
               PROVE  LoadInv
    OBVIOUS
  <2>1. walk \in Seq(SkillFile) /\ stage = "load"
    BY AgentAssumption DEF AgentInit, McpInit
  <2>2. QED
    BY <2>1 DEF LoadInv
<1>2. LoadInv /\ [AgentNext]_allvars => LoadInv'
  BY LoadInvStep
<1>3. LoadInv => LoadFaithful
  BY LoadInvFaithful
<1>4. QED
  BY <1>1, <1>2, <1>3, PTL DEF AgentSpec

-------------------------------------------------------------------------------
(* subagent.Stream: lock and order *)

\* The channel is closed under the write lock together with the flag that every
\* Send reads under the read lock.
LockInv ==
  /\ chClosed => closed
  /\ closed => \A p \in Senders : spc[p] # "select"

\* The stream starts open, empty and well typed.
LEMMA StreamStarts == StreamInit => StreamTypeOK /\ LockInv
<1> SUFFICES ASSUME StreamInit PROVE StreamTypeOK /\ LockInv
  OBVIOUS
<1>1. chClosed \in BOOLEAN /\ done \in BOOLEAN /\ closed \in BOOLEAN
  BY DEF StreamInit
<1>2. /\ spc \in [Senders -> {"idle", "called", "locked", "select"}]
      /\ sent \in [Senders -> Nat]
      /\ writer \in {"idle", "signalled", "waiting", "closed"}
      /\ ch \in Seq(Senders \X Nat) /\ received \in Seq(Senders \X Nat)
  BY DEF StreamInit
<1>3. LockInv
  BY DEF StreamInit, LockInv
<1> QED BY <1>1, <1>2, <1>3 DEF StreamTypeOK

\* Every step keeps the types.
LEMMA StreamTypeStep == StreamTypeOK /\ [StreamNext]_svars => StreamTypeOK'
<1> SUFFICES ASSUME StreamTypeOK, [StreamNext]_svars PROVE StreamTypeOK'
  OBVIOUS
<1>1. ASSUME NEW p \in Senders, CallSend(p) \/ RLock(p) \/ CheckClosed(p) \/ Drop(p)
      PROVE  StreamTypeOK'
  <2>1. CASE CallSend(p)
    BY <2>1 DEF CallSend, StreamTypeOK
  <2>2. CASE RLock(p)
    BY <2>2 DEF RLock, StreamTypeOK
  <2>3. CASE CheckClosed(p)
    BY <2>3 DEF CheckClosed, StreamTypeOK
  <2>4. CASE Drop(p)
    BY <2>4 DEF Drop, StreamTypeOK
  <2> QED BY <1>1, <2>1, <2>2, <2>3, <2>4
<1>2. ASSUME NEW p \in Senders, Enqueue(p) PROVE StreamTypeOK'
  BY <1>2 DEF Enqueue, StreamTypeOK
<1>3. ASSUME CloseSignal \/ CloseLock \/ CloseFinish PROVE StreamTypeOK'
  BY <1>3 DEF CloseSignal, CloseLock, CloseFinish, StreamTypeOK
<1>4. CASE Receive
  <2>1. Head(ch) \in Senders \X Nat /\ Tail(ch) \in Seq(Senders \X Nat)
    BY <1>4 DEF Receive, StreamTypeOK
  <2> QED BY <1>4, <2>1 DEF Receive, StreamTypeOK
<1>5. CASE UNCHANGED svars
  BY <1>5 DEF svars, StreamTypeOK
<1> QED BY <1>1, <1>2, <1>3, <1>4, <1>5 DEF StreamNext

\* Every step keeps the senders' select and the closed channel apart.
LEMMA LockStep == StreamTypeOK /\ LockInv /\ [StreamNext]_svars => LockInv'
<1> SUFFICES ASSUME StreamTypeOK, LockInv, [StreamNext]_svars PROVE LockInv'
  OBVIOUS
<1>1. ASSUME NEW p \in Senders, CallSend(p) \/ RLock(p) \/ Enqueue(p) \/ Drop(p)
      PROVE  LockInv'
  BY <1>1 DEF CallSend, RLock, Enqueue, Drop, StreamTypeOK, LockInv
<1>2. ASSUME NEW p \in Senders, CheckClosed(p) PROVE LockInv'
  <2>1. CASE closed
    BY <1>2, <2>1 DEF CheckClosed, StreamTypeOK, LockInv
  <2>2. CASE ~closed
    BY <1>2, <2>2 DEF CheckClosed, LockInv
  <2> QED BY <2>1, <2>2
<1>3. CASE CloseFinish
  BY <1>3 DEF CloseFinish, Readers, LockInv
<1>4. ASSUME CloseSignal \/ CloseLock \/ Receive PROVE LockInv'
  BY <1>4 DEF CloseSignal, CloseLock, Receive, LockInv
<1>5. CASE UNCHANGED svars
  BY <1>5 DEF svars, LockInv
<1> QED BY <1>1, <1>2, <1>3, <1>4, <1>5 DEF StreamNext

\* Types of the stream's state hold in every reachable state.
THEOREM StreamTypeCorrect == StreamSpec => []StreamTypeOK
BY StreamStarts, StreamTypeStep, PTL DEF StreamSpec

\* Send and Close (event.go): whatever the interleaving, no sender is in its
\* select once the channel is closed, so Send never panics.
THEOREM NoSendOnClosedAlways == StreamSpec => []NoSendOnClosed
<1>1. StreamTypeOK /\ LockInv => NoSendOnClosed
  BY DEF LockInv, NoSendOnClosed
<1> QED BY <1>1, StreamStarts, StreamTypeStep, LockStep, PTL DEF StreamSpec

-------------------------------------------------------------------------------
(* The order of the events *)

\* The events a sender has in the flow carry numbers of Send calls it has made,
\* and a call that is still under way is not among them.
FlowInv ==
  /\ SenderOrder
  /\ \A i \in 1..Len(Flow) :
       LET p == Flow[i][1]
       IN  Flow[i][2] <= sent[p] /\ (spc[p] # "idle" => Flow[i][2] < sent[p])

\* Moving the head of one sequence to the end of the one before it.
LEMMA HeadMoved ==
  ASSUME NEW S, NEW r \in Seq(S), NEW s \in Seq(S), s # <<>>
  PROVE  Append(r, Head(s)) \o Tail(s) = r \o s
<1> DEFINE h == Append(r, Head(s))
           t == Tail(s)
<1>1. /\ Head(s) \in S /\ t \in Seq(S) /\ Len(t) = Len(s) - 1
      /\ Head(s) = s[1] /\ \A i \in 1..Len(t) : t[i] = s[i+1]
      /\ Len(s) \in Nat /\ Len(s) > 0 /\ Len(r) \in Nat
  BY HeadTailProperties
<1>2. /\ h \in Seq(S) /\ Len(h) = Len(r) + 1
      /\ \A i \in 1..Len(r) : h[i] = r[i]
      /\ h[Len(r)+1] = s[1]
  BY <1>1, AppendProperties
<1> HIDE DEF h, t
<1>3. /\ h \o t \in Seq(S) /\ Len(h \o t) = Len(r) + Len(s)
      /\ \A i \in 1..Len(r) + Len(s) :
           (h \o t)[i] = IF i <= Len(h) THEN h[i] ELSE t[i - Len(h)]
  <2>1. Len(h) + Len(t) = Len(r) + Len(s)
    BY <1>1, <1>2
  <2>2. /\ h \o t \in Seq(S) /\ Len(h \o t) = Len(h) + Len(t)
        /\ \A i \in 1..Len(h) + Len(t) :
             (h \o t)[i] = IF i <= Len(h) THEN h[i] ELSE t[i - Len(h)]
    BY <1>1, <1>2, ConcatProperties
  <2> QED BY <2>1, <2>2
<1>4. /\ r \o s \in Seq(S) /\ Len(r \o s) = Len(r) + Len(s)
      /\ \A i \in 1..Len(r) + Len(s) :
           (r \o s)[i] = IF i <= Len(r) THEN r[i] ELSE s[i - Len(r)]
  BY ConcatProperties
<1>5. ASSUME NEW i \in 1..Len(r) + Len(s)
      PROVE  (h \o t)[i] = (r \o s)[i]
  <2>1. CASE i <= Len(r)
    BY <1>1, <1>2, <1>3, <1>4, <2>1
  <2>2. CASE i = Len(r) + 1
    BY <1>1, <1>2, <1>3, <1>4, <2>2
  <2>3. CASE i > Len(r) + 1
    <3>1. i - Len(h) \in 1..Len(t) /\ (i - Len(h)) + 1 = i - Len(r)
      BY <1>1, <1>2, <2>3
    <3>2. (h \o t)[i] = t[i - Len(h)] /\ (r \o s)[i] = s[i - Len(r)]
      BY <1>1, <1>2, <1>3, <1>4, <2>3
    <3> QED BY <1>1, <3>1, <3>2
  <2>4. \A m, n \in Nat : m <= n \/ m = n + 1 \/ m > n + 1
    OBVIOUS
  <2>5. i \in Nat /\ Len(r) \in Nat
    BY <1>1
  <2> QED BY <2>1, <2>2, <2>3, <2>4, <2>5
<1> QED BY <1>3, <1>4, <1>5, SeqEqual DEF h, t

\* Receiving moves the oldest buffered event: the flow stays as it is.
LEMMA FlowReceived ==
  ASSUME StreamTypeOK, Receive
  PROVE  Flow' = Flow
BY HeadMoved DEF StreamTypeOK, Receive, Flow

\* A send appends to the flow.
LEMMA FlowEnqueued ==
  ASSUME StreamTypeOK, NEW p \in Senders, Enqueue(p)
  PROVE  Flow' = Append(Flow, <<p, sent[p]>>)
<1>1. received' = received /\ ch' = Append(ch, <<p, sent[p]>>)
  BY DEF Enqueue
<1>2. received \o Append(ch, <<p, sent[p]>>) = Append(received \o ch, <<p, sent[p]>>)
  BY DEF StreamTypeOK
<1> QED BY <1>1, <1>2 DEF Flow

\* Every step keeps the senders' numbers in order.
LEMMA FlowStep == StreamTypeOK /\ FlowInv /\ [StreamNext]_svars => FlowInv'
<1> SUFFICES ASSUME StreamTypeOK, FlowInv, [StreamNext]_svars PROVE FlowInv'
  OBVIOUS
<1>0. /\ Flow \in Seq(Senders \X Nat) /\ Len(Flow) \in Nat
      /\ \A i \in 1..Len(Flow) : Flow[i][1] \in Senders /\ Flow[i][2] \in Nat
  <2>1. Flow \in Seq(Senders \X Nat)
    BY ConcatProperties DEF StreamTypeOK, Flow
  <2> QED BY <2>1
<1>1. ASSUME Flow' = Flow, sent' = sent,
             \A p \in Senders : spc'[p] # "idle" => spc[p] # "idle"
      PROVE  FlowInv'
  BY <1>0, <1>1 DEF FlowInv, SenderOrder
<1>2. ASSUME NEW p \in Senders, CallSend(p)
      PROVE  FlowInv'
  <2>1. Flow' = Flow /\ spc[p] = "idle"
    BY <1>2 DEF CallSend, Flow
  <2>2. /\ sent' = [sent EXCEPT ![p] = @ + 1] /\ spc' = [spc EXCEPT ![p] = "called"]
    BY <1>2 DEF CallSend
  <2>3. \A i \in 1..Len(Flow) :
          LET q == Flow[i][1]
          IN  Flow[i][2] <= sent'[q] /\ (spc'[q] # "idle" => Flow[i][2] < sent'[q])
    <3> TAKE i \in 1..Len(Flow)
    <3> DEFINE q == Flow[i][1]
    <3>1. /\ q \in Senders /\ Flow[i][2] \in Nat /\ Flow[i][2] <= sent[q] /\ sent[q] \in Nat
          /\ spc[q] # "idle" => Flow[i][2] < sent[q]
      BY <1>0 DEF FlowInv, StreamTypeOK
    <3> HIDE DEF q
    <3>2. sent'[q] = IF q = p THEN sent[q] + 1 ELSE sent[q]
      BY <2>2, <3>1 DEF StreamTypeOK
    <3>3. q # p => spc'[q] = spc[q]
      BY <2>2, <3>1 DEF StreamTypeOK
    <3>4. Flow[i][2] <= sent'[q] /\ (spc'[q] # "idle" => Flow[i][2] < sent'[q])
      BY <3>1, <3>2, <3>3
    <3> QED BY <3>4 DEF q
  <2> QED BY <2>1, <2>3 DEF FlowInv, SenderOrder
<1>3. ASSUME NEW p \in Senders, Enqueue(p)
      PROVE  FlowInv'
  <2> DEFINE F == Append(Flow, <<p, sent[p]>>)
  <2>1. /\ Len(F) = Len(Flow) + 1
        /\ \A i \in 1..Len(Flow) : F[i] = Flow[i]
        /\ F[Len(Flow)+1] = <<p, sent[p]>>
    BY <1>0, AppendProperties DEF StreamTypeOK
  <2>2. Flow' = F
    BY <1>3, FlowEnqueued
  <2>3. spc[p] = "select" /\ spc' = [spc EXCEPT ![p] = "idle"] /\ sent' = sent
    BY <1>3 DEF Enqueue
  <2> HIDE DEF F
  <2>4. \A i \in 1..Len(Flow) : Flow[i][1] = p => Flow[i][2] < sent[p]
    BY <2>3 DEF FlowInv
  <2>5. ASSUME NEW i \in 1..Len(F), NEW j \in 1..Len(F), i < j, F[i][1] = F[j][1]
        PROVE  F[i][2] < F[j][2]
    <3>0. i \in Nat /\ j \in Nat /\ 1 <= i /\ j <= Len(Flow) + 1 /\ Len(Flow) \in Nat
      BY <1>0, <2>1
    <3>1. i \in 1..Len(Flow) /\ F[i] = Flow[i]
      BY <2>1, <2>5, <3>0
    <3>2. CASE j \in 1..Len(Flow)
      BY <2>1, <2>5, <3>1, <3>2 DEF FlowInv, SenderOrder
    <3>3. CASE j = Len(Flow) + 1
      BY <2>1, <2>4, <2>5, <3>1, <3>3
    <3> QED BY <1>0, <2>1, <3>2, <3>3
  <2>6. ASSUME NEW i \in 1..Len(F)
        PROVE  F[i][2] <= sent[F[i][1]] /\ (spc'[F[i][1]] # "idle" => F[i][2] < sent[F[i][1]])
    <3>1. CASE i \in 1..Len(Flow)
      BY <1>0, <2>1, <2>3, <3>1 DEF FlowInv, StreamTypeOK
    <3>2. CASE i = Len(Flow) + 1
      BY <2>1, <2>3, <3>2 DEF StreamTypeOK
    <3> QED BY <1>0, <2>1, <3>1, <3>2
  <2> QED BY <2>2, <2>3, <2>5, <2>6 DEF FlowInv, SenderOrder
<1>4. ASSUME NEW p \in Senders, RLock(p) \/ CheckClosed(p) \/ Drop(p)
      PROVE  FlowInv'
  BY <1>1, <1>4 DEF RLock, CheckClosed, Drop, StreamTypeOK, Flow
<1>5. ASSUME CloseSignal \/ CloseLock \/ CloseFinish \/ UNCHANGED svars
      PROVE  FlowInv'
  BY <1>1, <1>5 DEF CloseSignal, CloseLock, CloseFinish, svars, Flow
<1>6. CASE Receive
  BY <1>1, <1>6, FlowReceived DEF Receive
<1> QED BY <1>2, <1>3, <1>4, <1>5, <1>6 DEF StreamNext

\* Send (event.go): each sender's events reach the consumer in the order it sent
\* them and none twice, whatever the buffer, the consumer and Close do.
THEOREM SenderOrderAlways == StreamSpec => []SenderOrder
<1>1. StreamInit => FlowInv
  <2> SUFFICES ASSUME StreamInit PROVE FlowInv
    OBVIOUS
  <2>1. Flow = <<>> /\ Len(Flow) = 0
    BY DEF StreamInit, Flow
  <2> QED BY <2>1 DEF FlowInv, SenderOrder
<1>2. FlowInv => SenderOrder
  BY DEF FlowInv
<1> QED BY <1>1, <1>2, StreamTypeCorrect, FlowStep, PTL DEF StreamSpec
===============================================================================
