----------------------------- MODULE EventStream -----------------------------
(***************************************************************************)
(* subagent.Stream: a bounded event channel with many senders, one closer  *)
(* and a consumer that may be slow or absent.  Send holds the read lock    *)
(* while it blocks on a full buffer; Close closes done first and only then *)
(* takes the write lock to close the channel.  The lock is Go's RWMutex: a *)
(* waiting writer keeps new readers out.                                   *)
(***************************************************************************)
EXTENDS Naturals, Sequences

CONSTANTS
  Senders,     \* goroutines that call Send
  Capacity,    \* buffer of the channel
  MaxSends,    \* bound: Send calls per sender
  Consuming    \* TRUE: somebody receives from Events()

ASSUME StreamAssumption ==
  /\ Capacity \in Nat \ {0}
  /\ MaxSends \in Nat
  /\ Consuming \in BOOLEAN

VARIABLES
  spc,         \* control point of each sender
  sent,        \* Send calls each sender made
  ch,          \* the buffered events: <<sender, number>>
  chClosed,    \* the channel is closed
  done,        \* the done channel is closed
  closed,      \* the closed flag
  writer,      \* Close: "idle", "signalled", "waiting", "closed"
  received     \* history: the events the consumer got

svars == <<spc, sent, ch, chClosed, done, closed, writer, received>>

StreamInit ==
  /\ spc = [p \in Senders |-> "idle"]
  /\ sent = [p \in Senders |-> 0]
  /\ ch = <<>>
  /\ chClosed = FALSE
  /\ done = FALSE
  /\ closed = FALSE
  /\ writer = "idle"
  /\ received = <<>>

Readers == {p \in Senders : spc[p] \in {"locked", "select"}}

CallSend(p) ==
  /\ spc[p] = "idle"
  /\ sent[p] < MaxSends
  /\ spc' = [spc EXCEPT ![p] = "called"]
  /\ sent' = [sent EXCEPT ![p] = @ + 1]
  /\ UNCHANGED <<ch, chClosed, done, closed, writer, received>>

\* RLock: not while the writer waits (the writer's critical section is one step).
RLock(p) ==
  /\ spc[p] = "called"
  /\ writer # "waiting"
  /\ spc' = [spc EXCEPT ![p] = "locked"]
  /\ UNCHANGED <<sent, ch, chClosed, done, closed, writer, received>>

CheckClosed(p) ==
  /\ spc[p] = "locked"
  /\ spc' = [spc EXCEPT ![p] = IF closed THEN "idle" ELSE "select"]
  /\ UNCHANGED <<sent, ch, chClosed, done, closed, writer, received>>

\* Mutant of Enqueue: the sender does not leave the select after its send.
EnqueueAgain(p) ==
  /\ spc[p] = "select"
  /\ ~chClosed
  /\ Len(ch) < Capacity
  /\ ch' = Append(ch, <<p, sent[p]>>)
  /\ UNCHANGED <<spc, sent, chClosed, done, closed, writer, received>>

\* The select: the buffer has room.
Enqueue(p) ==
  /\ spc[p] = "select"
  /\ ~chClosed
  /\ Len(ch) < Capacity
  /\ ch' = Append(ch, <<p, sent[p]>>)
  /\ spc' = [spc EXCEPT ![p] = "idle"]
  /\ UNCHANGED <<sent, chClosed, done, closed, writer, received>>

\* Mutant of Drop: a blocked send gives up only when the channel is closed.
DropLate(p) ==
  /\ spc[p] = "select"
  /\ chClosed
  /\ spc' = [spc EXCEPT ![p] = "idle"]
  /\ UNCHANGED <<sent, ch, chClosed, done, closed, writer, received>>

\* The select: done is closed and the event is dropped.
Drop(p) ==
  /\ spc[p] = "select"
  /\ done
  /\ spc' = [spc EXCEPT ![p] = "idle"]
  /\ UNCHANGED <<sent, ch, chClosed, done, closed, writer, received>>

CloseSignal ==
  /\ writer = "idle"
  /\ done' = TRUE
  /\ writer' = "signalled"
  /\ UNCHANGED <<spc, sent, ch, chClosed, closed, received>>

CloseLock ==
  /\ writer = "signalled"
  /\ writer' = "waiting"
  /\ UNCHANGED <<spc, sent, ch, chClosed, done, closed, received>>

\* Mutant of CloseFinish: the channel is closed without the write lock.
CloseFinishUnlocked ==
  /\ writer = "waiting"
  /\ closed' = TRUE
  /\ chClosed' = TRUE
  /\ writer' = "closed"
  /\ UNCHANGED <<spc, sent, ch, done, received>>

\* The write lock is granted once no reader holds the lock.
CloseFinish ==
  /\ writer = "waiting"
  /\ Readers = {}
  /\ closed' = TRUE
  /\ chClosed' = TRUE
  /\ writer' = "closed"
  /\ UNCHANGED <<spc, sent, ch, done, received>>

Receive ==
  /\ Consuming
  /\ ch # <<>>
  /\ received' = Append(received, Head(ch))
  /\ ch' = Tail(ch)
  /\ UNCHANGED <<spc, sent, chClosed, done, closed, writer>>

SendStep(p) == RLock(p) \/ CheckClosed(p) \/ Enqueue(p) \/ Drop(p)

CloseStep == CloseLock \/ CloseFinish

StreamNext ==
  \/ \E p \in Senders : CallSend(p) \/ RLock(p) \/ CheckClosed(p) \/ Enqueue(p) \/ Drop(p)
  \/ CloseSignal \/ CloseLock \/ CloseFinish
  \/ Receive

StreamSpec == StreamInit /\ [][StreamNext]_svars

\* Goroutines that can run do run; nobody is obliged to send, close or receive.
FairSpec ==
  /\ StreamSpec
  /\ \A p \in Senders : WF_svars(SendStep(p))
  /\ WF_svars(CloseStep)

-------------------------------------------------------------------------------
\* Types of the stream's state.
StreamTypeOK ==
  /\ spc \in [Senders -> {"idle", "called", "locked", "select"}]
  /\ sent \in [Senders -> Nat]
  /\ ch \in Seq(Senders \X Nat)
  /\ chClosed \in BOOLEAN
  /\ done \in BOOLEAN
  /\ closed \in BOOLEAN
  /\ writer \in {"idle", "signalled", "waiting", "closed"}
  /\ received \in Seq(Senders \X Nat)

\* Send/Close: no sender is in the select once the channel is closed, so a send
\* never panics however Close races it.
NoSendOnClosed ==
  \A p \in Senders : spc[p] = "select" => ~chClosed

\* Send/Close with no consumer at all: a Close that has started finishes, even
\* behind senders blocked on a full buffer.
CloseCompletes == (writer = "signalled") ~> (writer = "closed")

\* What was received and what is buffered, in order.
Flow == received \o ch

\* Send: each sender's events arrive in the order it sent them, none twice.
SenderOrder ==
  \A i, j \in 1..Len(Flow) :
    i < j /\ Flow[i][1] = Flow[j][1] => Flow[i][2] < Flow[j][2]
==============================================================================
