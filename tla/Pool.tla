--------------------------------- MODULE Pool ---------------------------------
(***************************************************************************)
(* subagent.Pool: a bounded queue of jobs, a fixed set of workers, and the *)
(* merged event stream.  Each job is one Submit or SubmitTo call; the run  *)
(* a worker drives for it (core.Stream) is reduced to its event channel    *)
(* and its end.  A job with a Parent is delegated by the subagent Tool     *)
(* from inside the parent's run, which waits for it.                       *)
(*                                                                         *)
(* sendMu is Go's RWMutex: a waiting writer keeps new readers out.  Stream *)
(* sends are one step here; module EventStream has their details.          *)
(***************************************************************************)
EXTENDS Naturals, Sequences, FiniteSets

CONSTANTS
  Jobs,        \* submissions
  NoJob,
  Parent,      \* the job whose run delegates this one, or NoJob
  GivenPath,   \* length of the parentPath a direct Submit passes
  Known,       \* jobs whose spec name is registered
  Sinks,       \* jobs submitted with SubmitTo: each has a stream of its own
  Finishing,   \* jobs whose run ends by itself; the others block until aborted
  Workers,
  MaxQueued,   \* capacity of the tasks channel
  MaxDepth,
  StreamCap,   \* buffer of the merged stream and of the SubmitTo sinks
  RunEvents,   \* bound: events each run emits
  Drained      \* the streams somebody receives from

Merged == "merged"

\* A worker that has left its loop.
Exited == "exited"

\* The stream a job's events go to.
Dst(j) == IF j \in Sinks THEN j ELSE Merged

Streams == Sinks \cup {Merged}

ASSUME PoolAssumption ==
  /\ NoJob \notin Jobs
  /\ Merged \notin Jobs
  /\ Parent \in [Jobs -> Jobs \cup {NoJob}]
  /\ GivenPath \in [Jobs -> Nat]
  /\ Known \subseteq Jobs
  /\ Sinks \subseteq Jobs
  /\ Finishing \subseteq Jobs
  /\ Drained \subseteq Streams
  /\ Exited \notin Jobs \cup {NoJob}

ASSUME PoolBounds ==
  /\ Workers # {}
  /\ MaxQueued \in Nat \ {0}
  /\ StreamCap \in Nat \ {0}
  /\ MaxDepth \in Nat
  /\ RunEvents \in Nat

VARIABLES
  spc,         \* control point of each submit call
  result,      \* what each submit call returned
  ctxDone,     \* jobs whose submit context is cancelled
  closing,     \* the closing channel is closed
  closer,      \* Close: "idle", "signalled", "waiting", "closed"
  closed,      \* the closed flag
  tasksClosed, \* the tasks channel is closed
  poolDone,    \* the pool context is cancelled
  mustClose,   \* Cancel was called and goes on to Close
  tasks,       \* the tasks channel
  work,        \* the job of each worker, NoJob, or "exited"
  emitted,     \* events each run emitted
  pending,     \* events of each run the worker has not taken yet
  ended,       \* jobs whose run is over
  holding,     \* jobs whose worker holds an event it has to Send
  buffer,      \* events in each destination stream
  streamDone,  \* closed destination streams
  done         \* jobs whose task is done

submitVars == <<spc, result, ctxDone>>
closeVars  == <<closing, closer, closed, tasksClosed, poolDone, mustClose>>
queueVars  == <<tasks, work, done>>
runVars    == <<emitted, pending, ended, holding>>
sinkVars   == <<buffer, streamDone>>
vars == <<submitVars, closeVars, queueVars, runVars, sinkVars>>

Init ==
  /\ spc = [j \in Jobs |-> "new"]
  /\ result = [j \in Jobs |-> "none"]
  /\ ctxDone = {}
  /\ closing = FALSE
  /\ closer = "idle"
  /\ closed = FALSE
  /\ tasksClosed = FALSE
  /\ poolDone = FALSE
  /\ mustClose = FALSE
  /\ tasks = <<>>
  /\ work = [w \in Workers |-> NoJob]
  /\ emitted = [j \in Jobs |-> 0]
  /\ pending = [j \in Jobs |-> 0]
  /\ ended = {}
  /\ holding = {}
  /\ buffer = [d \in Streams |-> 0]
  /\ streamDone = {}
  /\ done = {}

Accepted == {j \in Jobs : result[j] = "accepted"}

OnWorker == {j \in Jobs : \E w \in Workers : work[w] = j}

\* Jobs whose run is going on.
Active == OnWorker \ ended

\* Mutant of RunCancelled: runCtx is derived from the submit context alone.
RunCancelledSubmitOnly(j) == j \in ctxDone

\* runCtx: cancelled with the pool's context or with the submit call's, which for
\* a delegated job is the parent run's.
RunCancelled(j) == poolDone \/ j \in ctxDone

-------------------------------------------------------------------------------
(* submit *)

Return(j, r) ==
  /\ spc' = [spc EXCEPT ![j] = "returned"]
  /\ result' = [result EXCEPT ![j] = r]

\* The parentPath the call passes: Tool.Execute passes none.
PathLength(j) == IF Parent[j] = NoJob THEN GivenPath[j] ELSE 0

\* submit up to the lock: unknown name, depth.  A delegated job is submitted by
\* its parent's run.
Submit(j) ==
  /\ spc[j] = "new"
  /\ Parent[j] # NoJob => Parent[j] \in Active
  /\ \/ j \notin Known /\ Return(j, "unknown")
     \/ j \in Known /\ PathLength(j) >= MaxDepth /\ Return(j, "maxDepth")
     \/ /\ j \in Known /\ PathLength(j) < MaxDepth
        /\ spc' = [spc EXCEPT ![j] = "lock"]
        /\ UNCHANGED result
  /\ UNCHANGED <<ctxDone, closeVars, queueVars, runVars, sinkVars>>

\* sendMu.RLock and the closed check under it.
SubmitLock(j) ==
  /\ spc[j] = "lock"
  /\ closer # "waiting"
  /\ IF closed
     THEN Return(j, "closed")
     ELSE spc' = [spc EXCEPT ![j] = "select"] /\ UNCHANGED result
  /\ UNCHANGED <<ctxDone, closeVars, queueVars, runVars, sinkVars>>

Holders == {j \in Jobs : spc[j] = "select"}

\* Mutant of SubmitRefused: a blocked submit does not listen to closing.
SubmitRefusedCtxOnly(j) ==
  /\ spc[j] = "select"
  /\ \/ poolDone /\ Return(j, "closed")
     \/ j \in ctxDone /\ Return(j, "cancelled")
  /\ UNCHANGED <<ctxDone, closeVars, queueVars, runVars, sinkVars>>

\* The select: closing, the pool context or the caller's context.
SubmitRefused(j) ==
  /\ spc[j] = "select"
  /\ \/ (closing \/ poolDone) /\ Return(j, "closed")
     \/ j \in ctxDone /\ Return(j, "cancelled")
  /\ UNCHANGED <<ctxDone, closeVars, queueVars, runVars, sinkVars>>

\* The select: the queue has room.
SubmitSend(j) ==
  /\ spc[j] = "select"
  /\ Len(tasks) < MaxQueued
  /\ tasks' = Append(tasks, j)
  /\ Return(j, "accepted")
  /\ UNCHANGED <<ctxDone, work, done, closeVars, runVars, sinkVars>>

\* The caller cancels its context; a parent run that is cancelled cancels the
\* tool call that delegated the job.
CancelCtx(j) ==
  /\ j \notin ctxDone \cup done
  /\ Parent[j] # NoJob => RunCancelled(Parent[j])
  /\ ctxDone' = ctxDone \cup {j}
  /\ UNCHANGED <<spc, result, closeVars, queueVars, runVars, sinkVars>>

-------------------------------------------------------------------------------
(* Close and Cancel *)

CloseSignal ==
  /\ closer = "idle"
  /\ closing' = TRUE
  /\ closer' = "signalled"
  /\ UNCHANGED <<closed, tasksClosed, poolDone, mustClose>>
  /\ UNCHANGED <<submitVars, queueVars, runVars, sinkVars>>

CloseLock ==
  /\ closer = "signalled"
  /\ closer' = "waiting"
  /\ UNCHANGED <<closing, closed, tasksClosed, poolDone, mustClose>>
  /\ UNCHANGED <<submitVars, queueVars, runVars, sinkVars>>

\* Mutant of CloseFinish: tasks is closed without waiting for the readers.
CloseFinishUnlocked ==
  /\ closer = "waiting"
  /\ closed' = TRUE
  /\ tasksClosed' = TRUE
  /\ closer' = "closed"
  /\ UNCHANGED <<closing, poolDone, mustClose>>
  /\ UNCHANGED <<submitVars, queueVars, runVars, sinkVars>>

\* The write lock is granted once no submit holds the read lock.
CloseFinish ==
  /\ closer = "waiting"
  /\ Holders = {}
  /\ closed' = TRUE
  /\ tasksClosed' = TRUE
  /\ closer' = "closed"
  /\ UNCHANGED <<closing, poolDone, mustClose>>
  /\ UNCHANGED <<submitVars, queueVars, runVars, sinkVars>>

\* The pool context is cancelled, then Close is called.
Cancel ==
  /\ ~poolDone
  /\ poolDone' = TRUE
  /\ mustClose' = TRUE
  /\ UNCHANGED <<closing, closer, closed, tasksClosed>>
  /\ UNCHANGED <<submitVars, queueVars, runVars, sinkVars>>

-------------------------------------------------------------------------------
(* Workers *)

Take(w) ==
  /\ work[w] = NoJob
  /\ tasks # <<>>
  /\ work' = [work EXCEPT ![w] = Head(tasks)]
  /\ tasks' = Tail(tasks)
  /\ UNCHANGED <<done, submitVars, closeVars, runVars, sinkVars>>

\* Mutant of Exit: a worker leaves as soon as the channel is closed.
ExitEarly(w) ==
  /\ work[w] = NoJob
  /\ tasksClosed
  /\ work' = [work EXCEPT ![w] = Exited]
  /\ UNCHANGED <<tasks, done, submitVars, closeVars, runVars, sinkVars>>

\* range over a closed and drained tasks channel.
Exit(w) ==
  /\ work[w] = NoJob
  /\ tasksClosed /\ tasks = <<>>
  /\ work' = [work EXCEPT ![w] = Exited]
  /\ UNCHANGED <<tasks, done, submitVars, closeVars, runVars, sinkVars>>

\* The worker takes the next event of its run off the channel ...
Forward(w) ==
  /\ work[w] \in Jobs
  /\ work[w] \notin holding
  /\ pending[work[w]] > 0
  /\ pending' = [pending EXCEPT ![work[w]] = @ - 1]
  /\ holding' = holding \cup {work[w]}
  /\ UNCHANGED <<emitted, ended, submitVars, closeVars, queueVars, sinkVars>>

\* ... and sends it on, blocking while the destination is full and open.
Send(w) ==
  /\ work[w] \in holding
  /\ LET d == Dst(work[w]) IN
     \/ /\ d \notin streamDone
        /\ buffer[d] < StreamCap
        /\ buffer' = [buffer EXCEPT ![d] = @ + 1]
     \/ d \in streamDone /\ UNCHANGED buffer
  /\ holding' = holding \ {work[w]}
  /\ UNCHANGED <<emitted, pending, ended, streamDone, submitVars, closeVars, queueVars>>

\* Mutant of Finish: the worker stops at the end of the run, not of its events.
FinishEarly(w) ==
  /\ work[w] \in ended
  /\ work[w] \notin holding
  /\ done' = done \cup {work[w]}
  /\ work' = [work EXCEPT ![w] = NoJob]
  /\ UNCHANGED <<tasks, submitVars, closeVars, runVars, sinkVars>>

\* The channel is closed and drained: the result is stored, task.done is closed.
Finish(w) ==
  /\ work[w] \in ended
  /\ work[w] \notin holding
  /\ pending[work[w]] = 0
  /\ done' = done \cup {work[w]}
  /\ work' = [work EXCEPT ![w] = NoJob]
  /\ UNCHANGED <<tasks, submitVars, closeVars, runVars, sinkVars>>

\* Mutant of CloseMerged: it does not wait for the workers.
CloseMergedEarly ==
  /\ tasksClosed
  /\ Merged \notin streamDone
  /\ streamDone' = streamDone \cup {Merged}
  /\ UNCHANGED <<buffer, submitVars, closeVars, queueVars, runVars>>

\* The goroutine behind g.Wait closes the merged stream.
CloseMerged ==
  /\ \A w \in Workers : work[w] = Exited
  /\ Merged \notin streamDone
  /\ streamDone' = streamDone \cup {Merged}
  /\ UNCHANGED <<buffer, submitVars, closeVars, queueVars, runVars>>

-------------------------------------------------------------------------------
(* The run of a job and the consumers of the streams *)

\* Children whose outcome the parent's run still waits for (task.Wait takes no
\* context).
Awaited(j) ==
  {k \in Jobs : Parent[k] = j /\ (spc[k] \in {"lock", "select"} \/ k \in Accepted \ done)}

\* core.Stream puts an event on the run's channel (RunEvents stays below the
\* channel's capacity of 64; AgentRun has the blocking send).
EmitEvent(j) ==
  /\ j \in Active
  /\ emitted[j] < RunEvents
  /\ emitted' = [emitted EXCEPT ![j] = @ + 1]
  /\ pending' = [pending EXCEPT ![j] = @ + 1]
  /\ UNCHANGED <<ended, holding, submitVars, closeVars, queueVars, sinkVars>>

\* The run ends and its channel is closed: by itself, or because its cancelled
\* context aborts it.  A run that blocks ends in no other way.
EndRun(j) ==
  /\ j \in Active
  /\ j \in Finishing \/ RunCancelled(j)
  /\ Awaited(j) = {}
  /\ ended' = ended \cup {j}
  /\ UNCHANGED <<emitted, pending, holding, submitVars, closeVars, queueVars, sinkVars>>

Receive(d) ==
  /\ d \in Drained
  /\ buffer[d] > 0
  /\ buffer' = [buffer EXCEPT ![d] = @ - 1]
  /\ UNCHANGED <<streamDone, submitVars, closeVars, queueVars, runVars>>

\* The owner of a SubmitTo sink closes it, at any time.
CloseSink(j) ==
  /\ j \in Sinks \ streamDone
  /\ streamDone' = streamDone \cup {j}
  /\ UNCHANGED <<buffer, submitVars, closeVars, queueVars, runVars>>

-------------------------------------------------------------------------------
SubmitStep(j) == SubmitLock(j) \/ SubmitRefused(j) \/ SubmitSend(j)

CloseStep == CloseLock \/ CloseFinish

WorkerStep(w) == Take(w) \/ Exit(w) \/ Forward(w) \/ Send(w) \/ Finish(w)

Next ==
  \/ \E j \in Jobs :
       \/ Submit(j) \/ SubmitLock(j) \/ SubmitRefused(j) \/ SubmitSend(j)
       \/ CancelCtx(j) \/ EmitEvent(j) \/ EndRun(j) \/ CloseSink(j)
  \/ CloseSignal \/ CloseLock \/ CloseFinish \/ Cancel
  \/ \E w \in Workers : Take(w) \/ Exit(w) \/ Forward(w) \/ Send(w) \/ Finish(w)
  \/ CloseMerged
  \/ \E d \in Streams : Receive(d)

Spec == Init /\ [][Next]_vars

(***************************************************************************)
(* Goroutines that can run do run, a run that finishes by itself or whose  *)
(* context is cancelled ends once it waits for no delegated job, a         *)
(* cancellation reaches a delegated call, and the streams in Drained are   *)
(* received from.  Nobody has to submit, close or cancel, and a run that   *)
(* blocks has no other way to end than its context.                        *)
(***************************************************************************)
FairSpec ==
  /\ Spec
  /\ \A j \in Jobs :
       /\ WF_vars(SubmitStep(j))
       /\ WF_vars(EndRun(j))
       /\ WF_vars(Parent[j] # NoJob /\ CancelCtx(j))
  /\ WF_vars(CloseStep)
  /\ WF_vars(mustClose /\ CloseSignal)
  /\ \A w \in Workers : WF_vars(WorkerStep(w))
  /\ WF_vars(CloseMerged)
  /\ \A d \in Streams : WF_vars(Receive(d))

-------------------------------------------------------------------------------
(* Properties *)

\* Types of the pool's state; the count of events a worker still has to take off
\* its run's channel never falls below zero.
TypeOK ==
  /\ spc \in [Jobs -> {"new", "lock", "select", "returned"}]
  /\ result \in [Jobs -> {"none", "accepted", "closed", "cancelled", "unknown", "maxDepth"}]
  /\ ctxDone \subseteq Jobs
  /\ closing \in BOOLEAN /\ closed \in BOOLEAN /\ tasksClosed \in BOOLEAN
  /\ poolDone \in BOOLEAN /\ mustClose \in BOOLEAN
  /\ closer \in {"idle", "signalled", "waiting", "closed"}
  /\ tasks \in Seq(Jobs)
  /\ work \in [Workers -> Jobs \cup {NoJob, Exited}]
  /\ done \subseteq Jobs
  /\ emitted \in [Jobs -> Nat]
  /\ pending \in [Jobs -> Nat]
  /\ ended \subseteq Jobs
  /\ holding \subseteq Jobs
  /\ buffer \in [Streams -> Nat]
  /\ streamDone \subseteq Streams

\* submit/Close: no submit is in its select once tasks is closed, so Submit never
\* panics with a send on a closed channel.
NoSendOnClosed ==
  \A j \in Jobs : spc[j] = "select" => ~tasksClosed

\* Close: "in-flight and queued tasks still run; the merged event stream closes
\* once they finish".  When the merged stream is closed every accepted job is
\* done, also one whose Submit won its select after closing was closed.
ClosedAfterAll ==
  Merged \in streamDone => Accepted \subseteq done

\* The events of the merged stream's jobs are all handed over before it closes.
NothingHeldBack ==
  Merged \in streamDone =>
    \A j \in Jobs \ Sinks : pending[j] = 0 /\ j \notin holding

\* Close: once Close has returned no job is accepted any more.
NoAcceptAfterClose ==
  [][closer = "closed" => Accepted' = Accepted]_vars

\* Close: a Close that has started finishes, even when submits are blocked on a
\* full queue behind workers that make no progress.
CloseCompletes == (closer = "signalled") ~> (closer = "closed")

\* Submit: an accepted job whose run ends by itself gets done, also while
\* another job's run blocks and Close or Cancel is under way (as long as the
\* blocked runs leave a worker free).
AcceptedDone == \A j \in Finishing : (j \in Accepted) ~> (j \in done)

\* runJob: cancelling the submit context aborts a job that is already running.
CancelAborts ==
  \A j \in Jobs : (j \in ctxDone \cap OnWorker) ~> (j \in done)

\* Cancel "aborts every in-flight subagent ... then closes the pool", and the
\* submit context aborts its own one: also a run that never ends by itself is
\* ended through runCtx, every worker leaves and the merged stream closes.
CancelDrains ==
  /\ poolDone ~> (Merged \in streamDone)
  /\ CancelAborts

\* How deep job j is nested: itself, its parent, its grandparent.
Depth(j) ==
  LET p == Parent[j] IN
  IF p = NoJob THEN 0 ELSE IF Parent[p] = NoJob THEN 1 ELSE 2

\* WithMaxDepth caps the nesting depth: no accepted job has MaxDepth or more
\* ancestors.
DepthCapped == \A j \in Accepted : Depth(j) < MaxDepth
===============================================================================
