------------------------------ MODULE PoolProofs ------------------------------
(***************************************************************************)
(* Proofs about Pool, for every set of jobs and workers, every delegation  *)
(* tree, every capacity and every choice of drained streams.               *)
(***************************************************************************)
EXTENDS Pool, TLAPS

\* The groups of variables are only abbreviations.
USE DEF submitVars, closeVars, queueVars, runVars, sinkVars

\* The pool starts well typed.
LEMMA InitType == Init => TypeOK
<1> SUFFICES ASSUME Init PROVE TypeOK
  OBVIOUS
<1>1. /\ closing \in BOOLEAN /\ closed \in BOOLEAN /\ tasksClosed \in BOOLEAN
      /\ poolDone \in BOOLEAN /\ mustClose \in BOOLEAN
  BY DEF Init
<1>2. /\ spc \in [Jobs -> {"new", "lock", "select", "returned"}]
      /\ result \in [Jobs -> {"none", "accepted", "closed", "cancelled", "unknown", "maxDepth"}]
      /\ closer \in {"idle", "signalled", "waiting", "closed"}
  BY DEF Init
<1>3. /\ tasks \in Seq(Jobs)
      /\ work \in [Workers -> Jobs \cup {NoJob, Exited}]
      /\ emitted \in [Jobs -> Nat] /\ pending \in [Jobs -> Nat]
      /\ buffer \in [Streams -> Nat]
  BY DEF Init
<1>4. /\ ctxDone \subseteq Jobs /\ done \subseteq Jobs /\ ended \subseteq Jobs
      /\ holding \subseteq Jobs /\ streamDone \subseteq Streams
  BY DEF Init
<1> QED BY <1>1, <1>2, <1>3, <1>4 DEF TypeOK

\* Every step keeps the types.
LEMMA NextType == TypeOK /\ [Next]_vars => TypeOK'
<1> SUFFICES ASSUME TypeOK, [Next]_vars PROVE TypeOK'
  OBVIOUS
<1>1. ASSUME NEW j \in Jobs, Submit(j) PROVE TypeOK'
  BY <1>1, PoolAssumption DEF Submit, Return, TypeOK, Streams
<1>2. ASSUME NEW j \in Jobs, SubmitLock(j) PROVE TypeOK'
  BY <1>2, PoolAssumption DEF SubmitLock, Return, TypeOK, Streams
<1>3. ASSUME NEW j \in Jobs, SubmitRefused(j) PROVE TypeOK'
  BY <1>3, PoolAssumption DEF SubmitRefused, Return, TypeOK, Streams
<1>4. ASSUME NEW j \in Jobs, SubmitSend(j) PROVE TypeOK'
  BY <1>4, PoolAssumption DEF SubmitSend, Return, TypeOK, Streams
<1>5. ASSUME NEW j \in Jobs, CancelCtx(j) PROVE TypeOK'
  BY <1>5, PoolAssumption DEF CancelCtx, TypeOK, Streams
<1>6. ASSUME NEW j \in Jobs, EmitEvent(j) PROVE TypeOK'
  BY <1>6, PoolAssumption DEF EmitEvent, Active, OnWorker, TypeOK, Streams
<1>7. ASSUME NEW j \in Jobs, EndRun(j) PROVE TypeOK'
  BY <1>7, PoolAssumption DEF EndRun, Active, OnWorker, TypeOK, Streams
<1>8. ASSUME NEW j \in Jobs, CloseSink(j) PROVE TypeOK'
  BY <1>8, PoolAssumption DEF CloseSink, TypeOK, Streams
<1>9. CASE CloseSignal
  BY <1>9, PoolAssumption DEF CloseSignal, TypeOK, Streams
<1>10. CASE CloseLock
  BY <1>10, PoolAssumption DEF CloseLock, TypeOK, Streams
<1>11. CASE CloseFinish
  BY <1>11, PoolAssumption DEF CloseFinish, TypeOK, Streams
<1>12. CASE Cancel
  BY <1>12, PoolAssumption DEF Cancel, TypeOK, Streams
<1>13. ASSUME NEW w \in Workers, Take(w) PROVE TypeOK'
  BY <1>13, PoolAssumption DEF Take, TypeOK, Streams
<1>14. ASSUME NEW w \in Workers, Exit(w) PROVE TypeOK'
  BY <1>14, PoolAssumption DEF Exit, TypeOK, Streams
<1>15. ASSUME NEW w \in Workers, Forward(w) PROVE TypeOK'
  BY <1>15, PoolAssumption DEF Forward, TypeOK, Streams
<1>16. ASSUME NEW w \in Workers, Send(w) PROVE TypeOK'
  BY <1>16, PoolAssumption DEF Send, TypeOK, Streams, Dst
<1>17. ASSUME NEW w \in Workers, Finish(w) PROVE TypeOK'
  BY <1>17, PoolAssumption DEF Finish, TypeOK, Streams
<1>18. CASE CloseMerged
  BY <1>18, PoolAssumption DEF CloseMerged, TypeOK, Streams
<1>19. ASSUME NEW d \in Streams, Receive(d) PROVE TypeOK'
  BY <1>19, PoolAssumption DEF Receive, TypeOK, Streams
<1>20. CASE UNCHANGED vars
  BY <1>20 DEF vars, TypeOK, Streams
<1> QED
  BY <1>1, <1>2, <1>3, <1>4, <1>5, <1>6, <1>7, <1>8, <1>9, <1>10, <1>11,
     <1>12, <1>13, <1>14, <1>15, <1>16, <1>17, <1>18, <1>19, <1>20 DEF Next

\* Types of the pool's state hold in every reachable state.
THEOREM TypeCorrect == Spec => []TypeOK
BY InitType, NextType, PTL DEF Spec
-------------------------------------------------------------------------------
(* The inductive invariant *)

\* The read lock keeps a submit that is in its select and the closed channel
\* apart; a call that has not returned has no result.
LockInv ==
  /\ closer = "closed" => closed
  /\ tasksClosed => closed
  /\ closed => \A j \in Jobs : spc[j] # "select"
  /\ \A j \in Jobs : spc[j] # "returned" => result[j] = "none"

\* An accepted job is done, on a worker or still queued.
PlaceInv ==
  \A j \in Jobs : result[j] = "accepted" =>
    \/ j \in done
    \/ \E w \in Workers : work[w] = j
    \/ \E i \in 1..Len(tasks) : tasks[i] = j

\* A worker leaves only when the queue is closed and empty, and both stay so.
ExitInv ==
  \A w \in Workers : work[w] = Exited => tasksClosed /\ tasks = <<>>

\* The merged stream is closed behind the last worker.
MergedInv ==
  Merged \in streamDone => \A w \in Workers : work[w] = Exited

\* Events that are not yet handed over belong to a job that is on a worker.
HeldInv ==
  \A j \in Jobs : pending[j] > 0 \/ j \in holding => \E w \in Workers : work[w] = j

PoolInv == TypeOK /\ LockInv /\ PlaceInv /\ ExitInv /\ MergedInv /\ HeldInv

\* The empty pool satisfies the invariant.
LEMMA InitInv == Init => PoolInv
<1> SUFFICES ASSUME Init PROVE PoolInv
  OBVIOUS
<1>1. TypeOK
  BY InitType
<1>2. LockInv /\ PlaceInv
  BY DEF Init, LockInv, PlaceInv
<1>3. ExitInv /\ MergedInv /\ HeldInv
  BY PoolAssumption DEF Init, ExitInv, MergedInv, HeldInv
<1> QED BY <1>1, <1>2, <1>3 DEF PoolInv

\* submit and Close: the closed flag is set only with no submit in its select,
\* and read under the same lock before a submit enters it.
LEMMA LockStep ==
  ASSUME TypeOK, LockInv, [Next]_vars
  PROVE  LockInv'
<1>1. ASSUME NEW j \in Jobs, Submit(j) PROVE LockInv'
  <2>1. closer' = closer /\ closed' = closed /\ tasksClosed' = tasksClosed
    BY <1>1 DEF Submit
  <2>2. \A k \in Jobs \ {j} : spc'[k] = spc[k] /\ result'[k] = result[k]
    BY <1>1 DEF Submit, Return, TypeOK
  <2>3. spc'[j] # "select" /\ (spc'[j] # "returned" => result'[j] = "none")
    <3>1. result[j] = "none"
      BY <1>1 DEF Submit, LockInv
    <3>2. spc'[j] = "returned" \/ (spc'[j] = "lock" /\ result' = result)
      BY <1>1 DEF Submit, Return, TypeOK
    <3> QED BY <3>1, <3>2
  <2> QED BY <2>1, <2>2, <2>3 DEF LockInv
<1>2. ASSUME NEW j \in Jobs, SubmitLock(j) PROVE LockInv'
  <2>1. closer' = closer /\ closed' = closed /\ tasksClosed' = tasksClosed
    BY <1>2 DEF SubmitLock
  <2>2. \A k \in Jobs \ {j} : spc'[k] = spc[k] /\ result'[k] = result[k]
    BY <1>2 DEF SubmitLock, Return, TypeOK
  <2>3. result[j] = "none"
    BY <1>2 DEF SubmitLock, LockInv
  <2>4. CASE closed
    <3>1. spc'[j] = "returned"
      BY <1>2, <2>4 DEF SubmitLock, Return, TypeOK
    <3> QED BY <2>1, <2>2, <3>1 DEF LockInv
  <2>5. CASE ~closed
    <3>1. result' = result
      BY <1>2, <2>5 DEF SubmitLock
    <3> QED BY <2>1, <2>2, <2>3, <2>5, <3>1 DEF LockInv
  <2> QED BY <2>4, <2>5
<1>3. ASSUME NEW j \in Jobs, SubmitRefused(j) PROVE LockInv'
  BY <1>3, PoolAssumption DEF SubmitRefused, Return, TypeOK, LockInv
<1>4. ASSUME NEW j \in Jobs, SubmitSend(j) PROVE LockInv'
  BY <1>4, PoolAssumption DEF SubmitSend, Return, TypeOK, LockInv
<1>5. ASSUME NEW j \in Jobs, CancelCtx(j) PROVE LockInv'
  BY <1>5, PoolAssumption DEF CancelCtx, TypeOK, LockInv
<1>6. ASSUME NEW j \in Jobs, EmitEvent(j) PROVE LockInv'
  BY <1>6, PoolAssumption DEF EmitEvent, Active, OnWorker, TypeOK, LockInv
<1>7. ASSUME NEW j \in Jobs, EndRun(j) PROVE LockInv'
  BY <1>7, PoolAssumption DEF EndRun, Active, OnWorker, TypeOK, LockInv
<1>8. ASSUME NEW j \in Jobs, CloseSink(j) PROVE LockInv'
  BY <1>8, PoolAssumption DEF CloseSink, TypeOK, LockInv
<1>9. CASE CloseSignal
  BY <1>9, PoolAssumption DEF CloseSignal, TypeOK, LockInv
<1>10. CASE CloseLock
  BY <1>10, PoolAssumption DEF CloseLock, TypeOK, LockInv
<1>11. CASE CloseFinish
  BY <1>11, PoolAssumption DEF CloseFinish, Holders, TypeOK, LockInv
<1>12. CASE Cancel
  BY <1>12, PoolAssumption DEF Cancel, TypeOK, LockInv
<1>13. ASSUME NEW w \in Workers, Take(w) PROVE LockInv'
  BY <1>13, PoolAssumption DEF Take, TypeOK, LockInv
<1>14. ASSUME NEW w \in Workers, Exit(w) PROVE LockInv'
  BY <1>14, PoolAssumption DEF Exit, TypeOK, LockInv
<1>15. ASSUME NEW w \in Workers, Forward(w) PROVE LockInv'
  BY <1>15, PoolAssumption DEF Forward, TypeOK, LockInv
<1>16. ASSUME NEW w \in Workers, Send(w) PROVE LockInv'
  BY <1>16, PoolAssumption DEF Send, TypeOK, LockInv
<1>17. ASSUME NEW w \in Workers, Finish(w) PROVE LockInv'
  BY <1>17, PoolAssumption DEF Finish, TypeOK, LockInv
<1>18. CASE CloseMerged
  BY <1>18, PoolAssumption DEF CloseMerged, TypeOK, LockInv
<1>19. ASSUME NEW d \in Streams, Receive(d) PROVE LockInv'
  BY <1>19, PoolAssumption DEF Receive, TypeOK, LockInv
<1>20. CASE UNCHANGED vars
  BY <1>20 DEF vars, TypeOK, LockInv
<1> QED
  BY <1>1, <1>2, <1>3, <1>4, <1>5, <1>6, <1>7, <1>8, <1>9, <1>10, <1>11,
     <1>12, <1>13, <1>14, <1>15, <1>16, <1>17, <1>18, <1>19, <1>20 DEF Next

\* A job moves from the queue to a worker and from there to done, and is never
\* dropped on the way.
LEMMA PlaceStep ==
  ASSUME TypeOK, PlaceInv, [Next]_vars
  PROVE  PlaceInv'
<1>1. ASSUME NEW j \in Jobs, Submit(j) PROVE PlaceInv'
  BY <1>1, PoolAssumption DEF Submit, Return, TypeOK, PlaceInv
<1>2. ASSUME NEW j \in Jobs, SubmitLock(j) PROVE PlaceInv'
  BY <1>2, PoolAssumption DEF SubmitLock, Return, TypeOK, PlaceInv
<1>3. ASSUME NEW j \in Jobs, SubmitRefused(j) PROVE PlaceInv'
  <2>1. work' = work /\ done' = done /\ tasks' = tasks
    BY <1>3 DEF SubmitRefused
  <2>2. result'[j] # "accepted" /\ \A k \in Jobs \ {j} : result'[k] = result[k]
    BY <1>3 DEF SubmitRefused, Return, TypeOK
  <2> QED BY <2>1, <2>2 DEF PlaceInv
<1>4. ASSUME NEW j \in Jobs, SubmitSend(j) PROVE PlaceInv'
  <2>1. /\ tasks \in Seq(Jobs) /\ tasks' = Append(tasks, j)
        /\ result' = [result EXCEPT ![j] = "accepted"]
        /\ work' = work /\ done' = done
    BY <1>4 DEF SubmitSend, Return, TypeOK
  <2>2. /\ Len(tasks') = Len(tasks) + 1
        /\ tasks'[Len(tasks')] = j
        /\ \A i \in 1..Len(tasks) : tasks'[i] = tasks[i]
    BY <2>1
  <2>3. Len(tasks') \in 1..Len(tasks') /\ 1..Len(tasks) \subseteq 1..Len(tasks')
    BY <2>1, <2>2
  <2>4. \E i \in 1..Len(tasks') : tasks'[i] = j
    BY <2>2, <2>3
  <2> QED BY <2>1, <2>2, <2>3, <2>4 DEF PlaceInv, TypeOK
<1>5. ASSUME NEW j \in Jobs, CancelCtx(j) PROVE PlaceInv'
  BY <1>5, PoolAssumption DEF CancelCtx, TypeOK, PlaceInv
<1>6. ASSUME NEW j \in Jobs, EmitEvent(j) PROVE PlaceInv'
  BY <1>6, PoolAssumption DEF EmitEvent, Active, OnWorker, TypeOK, PlaceInv
<1>7. ASSUME NEW j \in Jobs, EndRun(j) PROVE PlaceInv'
  BY <1>7, PoolAssumption DEF EndRun, Active, OnWorker, TypeOK, PlaceInv
<1>8. ASSUME NEW j \in Jobs, CloseSink(j) PROVE PlaceInv'
  BY <1>8, PoolAssumption DEF CloseSink, TypeOK, PlaceInv
<1>9. CASE CloseSignal
  BY <1>9, PoolAssumption DEF CloseSignal, TypeOK, PlaceInv
<1>10. CASE CloseLock
  BY <1>10, PoolAssumption DEF CloseLock, TypeOK, PlaceInv
<1>11. CASE CloseFinish
  BY <1>11, PoolAssumption DEF CloseFinish, Holders, TypeOK, PlaceInv
<1>12. CASE Cancel
  BY <1>12, PoolAssumption DEF Cancel, TypeOK, PlaceInv
<1>13. ASSUME NEW w \in Workers, Take(w) PROVE PlaceInv'
  <2>1. /\ tasks \in Seq(Jobs) /\ tasks # <<>>
        /\ work' = [work EXCEPT ![w] = tasks[1]]
        /\ tasks' = Tail(tasks) /\ work[w] = NoJob
        /\ done' = done /\ result' = result
    BY <1>13 DEF Take, TypeOK
  <2>2. /\ Len(tasks') = Len(tasks) - 1
        /\ \A i \in 1..Len(tasks') : tasks'[i] = tasks[i+1]
    BY <2>1
  <2>3. ASSUME NEW j \in Jobs, NEW i \in 1..Len(tasks), tasks[i] = j
        PROVE  (\E v \in Workers : work'[v] = j) \/ \E k \in 1..Len(tasks') : tasks'[k] = j
    <3>1. CASE i = 1
      BY <3>1, <2>1, <2>3 DEF TypeOK
    <3>2. CASE i # 1
      <4>1. i - 1 \in 1..Len(tasks') /\ tasks'[i - 1] = j
        BY <3>2, <2>1, <2>2, <2>3
      <4> QED BY <4>1
    <3> QED BY <3>1, <3>2
  <2>4. \A j \in Jobs, v \in Workers : work[v] = j => work'[v] = j
    BY <2>1, PoolAssumption DEF TypeOK
  <2> QED BY <2>1, <2>3, <2>4 DEF PlaceInv
<1>14. ASSUME NEW w \in Workers, Exit(w) PROVE PlaceInv'
  BY <1>14, PoolAssumption DEF Exit, TypeOK, PlaceInv
<1>15. ASSUME NEW w \in Workers, Forward(w) PROVE PlaceInv'
  BY <1>15, PoolAssumption DEF Forward, TypeOK, PlaceInv
<1>16. ASSUME NEW w \in Workers, Send(w) PROVE PlaceInv'
  BY <1>16, PoolAssumption DEF Send, TypeOK, PlaceInv
<1>17. ASSUME NEW w \in Workers, Finish(w) PROVE PlaceInv'
  BY <1>17, PoolAssumption DEF Finish, TypeOK, PlaceInv
<1>18. CASE CloseMerged
  BY <1>18, PoolAssumption DEF CloseMerged, TypeOK, PlaceInv
<1>19. ASSUME NEW d \in Streams, Receive(d) PROVE PlaceInv'
  BY <1>19, PoolAssumption DEF Receive, TypeOK, PlaceInv
<1>20. CASE UNCHANGED vars
  BY <1>20 DEF vars, TypeOK, PlaceInv
<1> QED
  BY <1>1, <1>2, <1>3, <1>4, <1>5, <1>6, <1>7, <1>8, <1>9, <1>10, <1>11,
     <1>12, <1>13, <1>14, <1>15, <1>16, <1>17, <1>18, <1>19, <1>20 DEF Next

\* After the first worker has left nothing enters the queue again.
LEMMA ExitStep ==
  ASSUME TypeOK, LockInv, ExitInv, [Next]_vars
  PROVE  ExitInv'
<1>1. ASSUME NEW j \in Jobs, Submit(j) PROVE ExitInv'
  BY <1>1, PoolAssumption DEF Submit, Return, TypeOK, LockInv, ExitInv
<1>2. ASSUME NEW j \in Jobs, SubmitLock(j) PROVE ExitInv'
  BY <1>2, PoolAssumption DEF SubmitLock, Return, TypeOK, LockInv, ExitInv
<1>3. ASSUME NEW j \in Jobs, SubmitRefused(j) PROVE ExitInv'
  BY <1>3, PoolAssumption DEF SubmitRefused, Return, TypeOK, LockInv, ExitInv
<1>4. ASSUME NEW j \in Jobs, SubmitSend(j) PROVE ExitInv'
  BY <1>4, PoolAssumption DEF SubmitSend, Return, TypeOK, LockInv, ExitInv
<1>5. ASSUME NEW j \in Jobs, CancelCtx(j) PROVE ExitInv'
  BY <1>5, PoolAssumption DEF CancelCtx, TypeOK, LockInv, ExitInv
<1>6. ASSUME NEW j \in Jobs, EmitEvent(j) PROVE ExitInv'
  BY <1>6, PoolAssumption DEF EmitEvent, Active, OnWorker, TypeOK, LockInv, ExitInv
<1>7. ASSUME NEW j \in Jobs, EndRun(j) PROVE ExitInv'
  BY <1>7, PoolAssumption DEF EndRun, Active, OnWorker, TypeOK, LockInv, ExitInv
<1>8. ASSUME NEW j \in Jobs, CloseSink(j) PROVE ExitInv'
  BY <1>8, PoolAssumption DEF CloseSink, TypeOK, LockInv, ExitInv
<1>9. CASE CloseSignal
  BY <1>9, PoolAssumption DEF CloseSignal, TypeOK, LockInv, ExitInv
<1>10. CASE CloseLock
  BY <1>10, PoolAssumption DEF CloseLock, TypeOK, LockInv, ExitInv
<1>11. CASE CloseFinish
  BY <1>11, PoolAssumption DEF CloseFinish, Holders, TypeOK, LockInv, ExitInv
<1>12. CASE Cancel
  BY <1>12, PoolAssumption DEF Cancel, TypeOK, LockInv, ExitInv
<1>13. ASSUME NEW w \in Workers, Take(w) PROVE ExitInv'
  BY <1>13, PoolAssumption DEF Take, TypeOK, LockInv, ExitInv
<1>14. ASSUME NEW w \in Workers, Exit(w) PROVE ExitInv'
  BY <1>14, PoolAssumption DEF Exit, TypeOK, LockInv, ExitInv
<1>15. ASSUME NEW w \in Workers, Forward(w) PROVE ExitInv'
  BY <1>15, PoolAssumption DEF Forward, TypeOK, LockInv, ExitInv
<1>16. ASSUME NEW w \in Workers, Send(w) PROVE ExitInv'
  BY <1>16, PoolAssumption DEF Send, TypeOK, LockInv, ExitInv
<1>17. ASSUME NEW w \in Workers, Finish(w) PROVE ExitInv'
  BY <1>17, PoolAssumption DEF Finish, TypeOK, LockInv, ExitInv
<1>18. CASE CloseMerged
  BY <1>18, PoolAssumption DEF CloseMerged, TypeOK, LockInv, ExitInv
<1>19. ASSUME NEW d \in Streams, Receive(d) PROVE ExitInv'
  BY <1>19, PoolAssumption DEF Receive, TypeOK, LockInv, ExitInv
<1>20. CASE UNCHANGED vars
  BY <1>20 DEF vars, TypeOK, LockInv, ExitInv
<1> QED
  BY <1>1, <1>2, <1>3, <1>4, <1>5, <1>6, <1>7, <1>8, <1>9, <1>10, <1>11,
     <1>12, <1>13, <1>14, <1>15, <1>16, <1>17, <1>18, <1>19, <1>20 DEF Next

\* No worker comes back once the merged stream is closed.
LEMMA MergedStep ==
  ASSUME TypeOK, MergedInv, [Next]_vars
  PROVE  MergedInv'
<1>1. ASSUME NEW j \in Jobs, Submit(j) PROVE MergedInv'
  BY <1>1, PoolAssumption DEF Submit, Return, TypeOK, MergedInv
<1>2. ASSUME NEW j \in Jobs, SubmitLock(j) PROVE MergedInv'
  BY <1>2, PoolAssumption DEF SubmitLock, Return, TypeOK, MergedInv
<1>3. ASSUME NEW j \in Jobs, SubmitRefused(j) PROVE MergedInv'
  BY <1>3, PoolAssumption DEF SubmitRefused, Return, TypeOK, MergedInv
<1>4. ASSUME NEW j \in Jobs, SubmitSend(j) PROVE MergedInv'
  BY <1>4, PoolAssumption DEF SubmitSend, Return, TypeOK, MergedInv
<1>5. ASSUME NEW j \in Jobs, CancelCtx(j) PROVE MergedInv'
  BY <1>5, PoolAssumption DEF CancelCtx, TypeOK, MergedInv
<1>6. ASSUME NEW j \in Jobs, EmitEvent(j) PROVE MergedInv'
  BY <1>6, PoolAssumption DEF EmitEvent, Active, OnWorker, TypeOK, MergedInv
<1>7. ASSUME NEW j \in Jobs, EndRun(j) PROVE MergedInv'
  BY <1>7, PoolAssumption DEF EndRun, Active, OnWorker, TypeOK, MergedInv
<1>8. ASSUME NEW j \in Jobs, CloseSink(j) PROVE MergedInv'
  BY <1>8, PoolAssumption DEF CloseSink, TypeOK, MergedInv
<1>9. CASE CloseSignal
  BY <1>9, PoolAssumption DEF CloseSignal, TypeOK, MergedInv
<1>10. CASE CloseLock
  BY <1>10, PoolAssumption DEF CloseLock, TypeOK, MergedInv
<1>11. CASE CloseFinish
  BY <1>11, PoolAssumption DEF CloseFinish, Holders, TypeOK, MergedInv
<1>12. CASE Cancel
  BY <1>12, PoolAssumption DEF Cancel, TypeOK, MergedInv
<1>13. ASSUME NEW w \in Workers, Take(w) PROVE MergedInv'
  BY <1>13, PoolAssumption DEF Take, TypeOK, MergedInv
<1>14. ASSUME NEW w \in Workers, Exit(w) PROVE MergedInv'
  BY <1>14, PoolAssumption DEF Exit, TypeOK, MergedInv
<1>15. ASSUME NEW w \in Workers, Forward(w) PROVE MergedInv'
  BY <1>15, PoolAssumption DEF Forward, TypeOK, MergedInv
<1>16. ASSUME NEW w \in Workers, Send(w) PROVE MergedInv'
  BY <1>16, PoolAssumption DEF Send, TypeOK, MergedInv
<1>17. ASSUME NEW w \in Workers, Finish(w) PROVE MergedInv'
  BY <1>17, PoolAssumption DEF Finish, TypeOK, MergedInv
<1>18. CASE CloseMerged
  BY <1>18, PoolAssumption DEF CloseMerged, TypeOK, MergedInv
<1>19. ASSUME NEW d \in Streams, Receive(d) PROVE MergedInv'
  BY <1>19, PoolAssumption DEF Receive, TypeOK, MergedInv
<1>20. CASE UNCHANGED vars
  BY <1>20 DEF vars, TypeOK, MergedInv
<1> QED
  BY <1>1, <1>2, <1>3, <1>4, <1>5, <1>6, <1>7, <1>8, <1>9, <1>10, <1>11,
     <1>12, <1>13, <1>14, <1>15, <1>16, <1>17, <1>18, <1>19, <1>20 DEF Next

\* A worker keeps its job until every event of the run is handed over.
LEMMA HeldStep ==
  ASSUME TypeOK, HeldInv, [Next]_vars
  PROVE  HeldInv'
<1>1. ASSUME NEW j \in Jobs, Submit(j) PROVE HeldInv'
  BY <1>1, PoolAssumption DEF Submit, Return, TypeOK, HeldInv
<1>2. ASSUME NEW j \in Jobs, SubmitLock(j) PROVE HeldInv'
  BY <1>2, PoolAssumption DEF SubmitLock, Return, TypeOK, HeldInv
<1>3. ASSUME NEW j \in Jobs, SubmitRefused(j) PROVE HeldInv'
  BY <1>3, PoolAssumption DEF SubmitRefused, Return, TypeOK, HeldInv
<1>4. ASSUME NEW j \in Jobs, SubmitSend(j) PROVE HeldInv'
  BY <1>4, PoolAssumption DEF SubmitSend, Return, TypeOK, HeldInv
<1>5. ASSUME NEW j \in Jobs, CancelCtx(j) PROVE HeldInv'
  BY <1>5, PoolAssumption DEF CancelCtx, TypeOK, HeldInv
<1>6. ASSUME NEW j \in Jobs, EmitEvent(j) PROVE HeldInv'
  BY <1>6, PoolAssumption DEF EmitEvent, Active, OnWorker, TypeOK, HeldInv
<1>7. ASSUME NEW j \in Jobs, EndRun(j) PROVE HeldInv'
  BY <1>7, PoolAssumption DEF EndRun, Active, OnWorker, TypeOK, HeldInv
<1>8. ASSUME NEW j \in Jobs, CloseSink(j) PROVE HeldInv'
  BY <1>8, PoolAssumption DEF CloseSink, TypeOK, HeldInv
<1>9. CASE CloseSignal
  BY <1>9, PoolAssumption DEF CloseSignal, TypeOK, HeldInv
<1>10. CASE CloseLock
  BY <1>10, PoolAssumption DEF CloseLock, TypeOK, HeldInv
<1>11. CASE CloseFinish
  BY <1>11, PoolAssumption DEF CloseFinish, Holders, TypeOK, HeldInv
<1>12. CASE Cancel
  BY <1>12, PoolAssumption DEF Cancel, TypeOK, HeldInv
<1>13. ASSUME NEW w \in Workers, Take(w) PROVE HeldInv'
  BY <1>13, PoolAssumption DEF Take, TypeOK, HeldInv
<1>14. ASSUME NEW w \in Workers, Exit(w) PROVE HeldInv'
  BY <1>14, PoolAssumption DEF Exit, TypeOK, HeldInv
<1>15. ASSUME NEW w \in Workers, Forward(w) PROVE HeldInv'
  BY <1>15, PoolAssumption DEF Forward, TypeOK, HeldInv
<1>16. ASSUME NEW w \in Workers, Send(w) PROVE HeldInv'
  BY <1>16, PoolAssumption DEF Send, TypeOK, HeldInv
<1>17. ASSUME NEW w \in Workers, Finish(w) PROVE HeldInv'
  BY <1>17, PoolAssumption DEF Finish, TypeOK, HeldInv
<1>18. CASE CloseMerged
  BY <1>18, PoolAssumption DEF CloseMerged, TypeOK, HeldInv
<1>19. ASSUME NEW d \in Streams, Receive(d) PROVE HeldInv'
  BY <1>19, PoolAssumption DEF Receive, TypeOK, HeldInv
<1>20. CASE UNCHANGED vars
  BY <1>20 DEF vars, TypeOK, HeldInv
<1> QED
  BY <1>1, <1>2, <1>3, <1>4, <1>5, <1>6, <1>7, <1>8, <1>9, <1>10, <1>11,
     <1>12, <1>13, <1>14, <1>15, <1>16, <1>17, <1>18, <1>19, <1>20 DEF Next

\* The invariant holds in every reachable state.
LEMMA InvAlways == Spec => []PoolInv
<1>1. PoolInv /\ [Next]_vars => PoolInv'
  BY NextType, LockStep, PlaceStep, ExitStep, MergedStep, HeldStep DEF PoolInv
<1> QED BY InitInv, <1>1, PTL DEF Spec

-------------------------------------------------------------------------------
(* Theorems *)

\* submit and Close (pool.go): whatever the interleaving, no submit is in its
\* select when the tasks channel is closed, so Submit never panics.
THEOREM NoSendOnClosedAlways == Spec => []NoSendOnClosed
<1>1. PoolInv => NoSendOnClosed
  BY DEF PoolInv, LockInv, NoSendOnClosed
<1> QED BY <1>1, InvAlways, PTL

\* Close (pool.go): the merged stream closes only after every accepted job is
\* done, for any number of workers, jobs and queue slots.
THEOREM ClosedAfterAllAlways == Spec => []ClosedAfterAll
<1>1. PoolInv => ClosedAfterAll
  <2> SUFFICES ASSUME PoolInv, Merged \in streamDone, NEW j \in Jobs, result[j] = "accepted"
               PROVE  j \in done
    BY DEF ClosedAfterAll, Accepted
  <2>1. \A w \in Workers : work[w] = Exited
    BY DEF PoolInv, MergedInv
  <2>2. tasks = <<>>
    BY <2>1, PoolBounds DEF PoolInv, ExitInv
  <2>3. \A w \in Workers : work[w] # j
    BY <2>1, PoolAssumption
  <2>4. ~ \E i \in 1..Len(tasks) : tasks[i] = j
    BY <2>2
  <2> QED BY <2>3, <2>4 DEF PoolInv, PlaceInv
<1> QED BY <1>1, InvAlways, PTL

\* runJob (pool.go): when the merged stream closes, no event of a job that
\* reports to it is still in a run's channel or in a worker's hands.
THEOREM NothingHeldBackAlways == Spec => []NothingHeldBack
<1>1. PoolInv => NothingHeldBack
  <2> SUFFICES ASSUME PoolInv, Merged \in streamDone, NEW j \in Jobs \ Sinks
               PROVE  pending[j] = 0 /\ j \notin holding
    BY DEF NothingHeldBack
  <2>1. \A w \in Workers : work[w] # j
    BY PoolAssumption DEF PoolInv, MergedInv
  <2>2. pending[j] \in Nat
    BY DEF PoolInv, TypeOK
  <2> QED BY <2>1, <2>2 DEF PoolInv, HeldInv
<1> QED BY <1>1, InvAlways, PTL

\* Close (pool.go): a Close that has returned is final, no Submit is accepted
\* after it.
THEOREM NoAcceptAfterCloseAlways == Spec => NoAcceptAfterClose
<1>1. PoolInv /\ [Next]_vars => (closer = "closed" => Accepted' = Accepted)
  <2> SUFFICES ASSUME PoolInv, [Next]_vars, closer = "closed" PROVE Accepted' = Accepted
    OBVIOUS
  <2>1. closed /\ \A j \in Jobs : spc[j] # "select"
    BY DEF PoolInv, LockInv
  <2>2. ASSUME NEW j \in Jobs, Submit(j) PROVE Accepted' = Accepted
    BY <2>2 DEF Submit, Return, Accepted, PoolInv, TypeOK, LockInv
  <2>3. ASSUME NEW j \in Jobs, SubmitLock(j) PROVE Accepted' = Accepted
    BY <2>1, <2>3 DEF SubmitLock, Return, Accepted, PoolInv, TypeOK, LockInv
  <2>4. ASSUME result' = result PROVE Accepted' = Accepted
    BY <2>4 DEF Accepted
  <2>5. \A j \in Jobs : ~SubmitRefused(j) /\ ~SubmitSend(j)
    BY <2>1 DEF SubmitRefused, SubmitSend
  <2>6. ASSUME NEW j \in Jobs, CancelCtx(j) \/ EmitEvent(j) \/ EndRun(j) \/ CloseSink(j)
        PROVE  result' = result
    BY <2>6 DEF CancelCtx, EmitEvent, EndRun, CloseSink
  <2>7. ASSUME NEW w \in Workers, Take(w) \/ Exit(w) \/ Forward(w) \/ Send(w) \/ Finish(w)
        PROVE  result' = result
    BY <2>7 DEF Take, Exit, Forward, Send, Finish
  <2>8. ASSUME CloseSignal \/ CloseLock \/ CloseFinish \/ Cancel \/ CloseMerged
        PROVE  result' = result
    BY <2>8 DEF CloseSignal, CloseLock, CloseFinish, Cancel, CloseMerged
  <2>9. ASSUME NEW d \in Streams, Receive(d) PROVE result' = result
    BY <2>9 DEF Receive
  <2>10. ASSUME UNCHANGED vars PROVE result' = result
    BY <2>10 DEF vars
  <2> QED BY <2>2, <2>3, <2>4, <2>5, <2>6, <2>7, <2>8, <2>9, <2>10 DEF Next
<1> QED BY <1>1, InvAlways, PTL DEF Spec, NoAcceptAfterClose
===============================================================================
