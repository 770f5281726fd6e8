------------------------------ MODULE AsyncSQL ------------------------------
(***************************************************************************)
(* CAsyncSQL, the connection every asynchronous query of the db core and   *)
(* of the game cores goes through: the main thread pushes messages into a  *)
(* queue under a mutex and releases a semaphore; a worker thread waits for *)
(* the semaphore, moves the queue into its own copy, runs the copy, and    *)
(* keeps a message whose error may pass.  Quit() ends the worker, which    *)
(* first runs what is left in the queue.                                   *)
(*                                                                         *)
(* A query is one step: between looking at the front and taking it off,    *)
(* nobody else touches the copy, and after Quit() nobody pushes.           *)
(***************************************************************************)
EXTENDS Naturals, Sequences, SequencesExt

CONSTANTS
  Queries,      \* the messages the main thread may push, each once
  Returning,    \* those pushed by ReturnQuery, the others by AsyncQuery
  MaxRetries    \* bound: how often the server answers with an error that may pass

ASSUME MaxRetriesNat == MaxRetries \in Nat

VARIABLES
  query,      \* m_queue_query
  copy,       \* m_queue_query_copy
  result,     \* m_queue_result
  sem,        \* m_sem
  end,        \* m_bEnd
  main,       \* the main thread: "up", "ending" (m_bEnd set), "joining", "down"
  pc,         \* the worker: "test", "wait", "copy", "batch", "flush", "gone"
  count,      \* the worker's count of the batch
  \* History.
  pushed,     \* what was pushed, in order
  finished,   \* what was popped after it had run, in order
  fetched,    \* the results the main thread has popped, in order
  retries     \* errors that may pass so far

vars == <<query, copy, result, sem, end, main, pc, count, pushed, finished, fetched, retries>>

Worker == {"test", "wait", "copy", "batch", "flush", "gone"}
Main == {"up", "ending", "joining", "down"}

Init ==
  /\ query = <<>> /\ copy = <<>> /\ result = <<>>
  /\ sem = 0 /\ end = FALSE
  /\ main = "up" /\ pc = "test" /\ count = 0
  /\ pushed = <<>> /\ finished = <<>> /\ fetched = <<>> /\ retries = 0

-----------------------------------------------------------------------------
(* The main thread.                                                        *)

\* Mutant: nobody wakes the worker.
PushSilently(q) ==
  /\ query' = Append(query, q)
  /\ UNCHANGED sem

\* PushQuery, under the mutex of the queue.
Push(q) ==
  /\ query' = Append(query, q)
  /\ sem' = sem + 1

\* AsyncQuery and ReturnQuery.
PushQuery(q) ==
  /\ main = "up" /\ q \notin ToSet(pushed)
  /\ Push(q)
  /\ pushed' = Append(pushed, q)
  /\ UNCHANGED <<copy, result, end, main, pc, count, finished, fetched, retries>>

PopResult ==
  /\ main = "up" /\ result # <<>>
  /\ result' = Tail(result)
  /\ fetched' = Append(fetched, Head(result))
  /\ UNCHANGED <<query, copy, sem, end, main, pc, count, pushed, finished, retries>>

\* Mutant: the semaphore first.
QuitReleasing ==
  \/ main = "up" /\ sem' = sem + 1 /\ main' = "ending" /\ UNCHANGED end
  \/ main = "ending" /\ end' = TRUE /\ main' = "joining" /\ UNCHANGED sem

\* Quit(): m_bEnd, then the semaphore, then the wait for the thread.
EndAndRelease ==
  \/ main = "up" /\ end' = TRUE /\ main' = "ending" /\ UNCHANGED sem
  \/ main = "ending" /\ sem' = sem + 1 /\ main' = "joining" /\ UNCHANGED end

Quit ==
  /\ EndAndRelease
  /\ UNCHANGED <<query, copy, result, pc, count, pushed, finished, fetched, retries>>

Join ==
  /\ main = "joining" /\ pc = "gone"
  /\ main' = "down"
  /\ UNCHANGED <<query, copy, result, sem, end, pc, count, pushed, finished, fetched, retries>>

-----------------------------------------------------------------------------
(* The worker, ChildLoop.                                                  *)

\* while (!m_bEnd)
Test ==
  /\ pc = "test"
  /\ pc' = IF end THEN "flush" ELSE "wait"
  /\ UNCHANGED <<query, copy, result, sem, end, main, count, pushed, finished, fetched, retries>>

Wait ==
  /\ pc = "wait" /\ sem > 0
  /\ sem' = sem - 1 /\ pc' = "copy"
  /\ UNCHANGED <<query, copy, result, end, main, count, pushed, finished, fetched, retries>>

\* Mutant: what an error has left goes to the back.
CopyAfter == query \o copy

\* CopyQuery: the queue moves behind what an error has left in the copy.
Copied == copy \o query

\* With an empty queue CopyQuery says -1 whatever is in the copy.
CopyQuery ==
  /\ pc = "copy"
  /\ IF query = <<>>
     THEN /\ pc' = "test"
          /\ UNCHANGED <<query, copy, count>>
     ELSE /\ copy' = Copied /\ query' = <<>>
          /\ count' = Len(copy) + Len(query) /\ pc' = "batch"
  /\ UNCHANGED <<result, sem, end, main, pushed, finished, fetched, retries>>

\* while (count--): one round less.
NextRound ==
  /\ count' = count - 1
  /\ pc' = IF count = 1 THEN "test" ELSE "batch"

\* bReturn
Answer(q) == result' = IF q \in Returning THEN Append(result, q) ELSE result

Finished(q) ==
  /\ Answer(q)
  /\ finished' = Append(finished, q)

\* mysql_real_query went through, or failed with an error that will not pass, or
\* lost the server and ResendQuery got through: the message leaves the copy.
RunCopied ==
  /\ pc = "batch"
  /\ copy' = Tail(copy)
  /\ Finished(Head(copy))
  /\ NextRound
  /\ UNCHANGED <<query, sem, end, main, pushed, fetched, retries>>

\* An error that may pass: the semaphore is released and the round is over.
RetryCopied ==
  /\ pc = "batch" /\ retries < MaxRetries
  /\ sem' = sem + 1 /\ retries' = retries + 1
  /\ NextRound
  /\ UNCHANGED <<query, copy, result, end, main, pushed, finished, fetched>>

\* The loop after the end: what is in the queue, never what is in the copy.
RunQueued ==
  /\ pc = "flush" /\ query # <<>>
  /\ query' = Tail(query)
  /\ Finished(Head(query))
  /\ UNCHANGED <<copy, sem, end, main, pc, count, pushed, fetched, retries>>

RetryQueued ==
  /\ pc = "flush" /\ query # <<>> /\ retries < MaxRetries
  /\ retries' = retries + 1
  /\ UNCHANGED <<query, copy, result, sem, end, main, pc, count, pushed, finished, fetched>>

\* Mutant: the thread ends with the main loop.
LeaveAtOnce == TRUE

Flushed == query = <<>>

Leave ==
  /\ pc = "flush" /\ Flushed
  /\ pc' = "gone"
  /\ UNCHANGED <<query, copy, result, sem, end, main, count, pushed, finished, fetched, retries>>

ChildLoop ==
  \/ Test \/ Wait \/ CopyQuery
  \/ RunCopied \/ RetryCopied
  \/ RunQueued \/ RetryQueued \/ Leave

Next ==
  \/ \E q \in Queries : PushQuery(q)
  \/ PopResult \/ Quit \/ Join
  \/ ChildLoop

Spec == Init /\ [][Next]_vars

\* The worker is a thread that runs whenever it can; the server does not fail for
\* ever (MaxRetries), and a Quit() that began goes on.
FairSpec == Spec /\ WF_vars(ChildLoop) /\ WF_vars(Quit /\ main = "ending") /\ WF_vars(Join)

-----------------------------------------------------------------------------
(* Properties.                                                             *)

\* Every variable keeps its type.
TypeOK ==
  /\ query \in Seq(Queries) /\ copy \in Seq(Queries) /\ result \in Seq(Queries)
  /\ sem \in Nat /\ end \in BOOLEAN
  /\ main \in Main /\ pc \in Worker /\ count \in Nat
  /\ pushed \in Seq(Queries) /\ finished \in Seq(Queries) /\ fetched \in Seq(Queries)
  /\ retries \in Nat

\* Queries finish in the order in which they were pushed, each once: what has
\* finished, what the worker holds and what is queued are together what was
\* pushed, whatever errors the server returns (the last loop passes over what
\* an error left in the copy).
InOrder ==
  pc \notin {"flush", "gone"} \/ copy = <<>> => finished \o copy \o query = pushed

\* No wake-up is lost: the worker never waits on a semaphore nobody will release
\* while a message is in the queue, or while the main thread waits for it.
NoLostWakeup ==
  pc = "wait" /\ sem = 0 => query = <<>> /\ main \notin {"joining", "down"}

\* After the shutdown the queue has run to its end, and without errors that may
\* pass nothing pushed is left behind.
ShutdownDrains ==
  pc = "gone" => query = <<>> /\ (retries = 0 => finished = pushed)

\* What is still to run, and what the main loop has left behind for ever.
Waiting == IF pc \in {"flush", "gone"} THEN query ELSE copy \o query
LeftBehind == IF pc \in {"flush", "gone"} THEN copy ELSE <<>>

Fifo == INSTANCE SqlFifo WITH waiting <- Waiting, given <- LeftBehind, answers <- result

\* The two threads, the two queues and the retries come to a connection that
\* finishes in order.
KeepsOrder == Fifo!Spec

\* Nothing pushed stays in the queue: it finishes for good, or an error that may
\* pass has left it in the copy, where it waits for the next push - for ever,
\* if none comes.
PushedFinishes ==
  \A q \in Queries :
    <>[](q \in ToSet(pushed) =>
           \/ q \in ToSet(finished)
           \/ retries > 0 /\ q \in ToSet(copy))

\* The shutdown ends, with errors or without.
QuitReturns == main = "ending" ~> main = "down"
=============================================================================
