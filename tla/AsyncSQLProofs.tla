--------------------------- MODULE AsyncSQLProofs ---------------------------
(***************************************************************************)
(* Proofs about AsyncSQL, for any set of messages and any number of        *)
(* errors: the types, the order, the wake-ups, the shutdown, and that the  *)
(* connection implements SqlFifo.                                          *)
(***************************************************************************)
EXTENDS AsyncSQL, SequenceTheorems, TLAPS

\* The worker's place against the count, the end and the semaphore.
Control ==
  /\ pc = "batch" => count \in 1..Len(copy)
  /\ end <=> main # "up"
  /\ pc \in {"flush", "gone"} => end
  /\ pc = "gone" => query = <<>>

\* A message in the queue, or a main thread that waits, has released the
\* semaphore since the worker last looked.
Awake ==
  /\ pc \in {"test", "wait", "batch"} /\ query # <<>> => sem > 0
  /\ pc = "wait" /\ main \in {"joining", "down"} => sem > 0

\* Without an error that may pass, a batch runs to the end of the copy.
Emptied ==
  retries = 0 => IF pc = "batch" THEN count = Len(copy) ELSE copy = <<>>

IInv == TypeOK /\ Control /\ Awake /\ Emptied /\ InOrder

-----------------------------------------------------------------------------
(* Sequences.                                                              *)

\* What is put behind the second of two sequences is behind both.
LEMMA AppendBehind ==
  ASSUME NEW S, NEW s \in Seq(S), NEW t \in Seq(S), NEW e \in S
  PROVE  s \o Append(t, e) = Append(s \o t, e)
PROOF
<1>1. Append(t, e) = t \o <<e>>
  BY AppendIsConcat
<1>2. s \o t \in Seq(S) /\ <<e>> \in Seq(S)
  BY ConcatProperties, SMT
<1>3. Append(s \o t, e) = (s \o t) \o <<e>>
  BY <1>2, AppendIsConcat
<1>4. (s \o t) \o <<e>> = s \o (t \o <<e>>)
  BY <1>2, ConcatAssociative
<1> QED  BY <1>1, <1>3, <1>4

\* Moving the head of what comes second to the end of what comes first changes
\* nothing in the whole.
LEMMA MoveHead ==
  ASSUME NEW S, NEW s \in Seq(S), NEW t \in Seq(S), t # <<>>
  PROVE  /\ Head(t) \in S /\ Tail(t) \in Seq(S) /\ Len(Tail(t)) = Len(t) - 1
         /\ Append(s, Head(t)) \o Tail(t) = s \o t
PROOF
<1>1. Head(t) \in S /\ Tail(t) \in Seq(S) /\ t = <<Head(t)>> \o Tail(t)
      /\ Len(Tail(t)) = Len(t) - 1
  BY HeadTailProperties, SMT
<1>2. Append(s, Head(t)) = s \o <<Head(t)>>
  BY <1>1, AppendIsConcat
<1>3. <<Head(t)>> \in Seq(S)
  BY <1>1, SMT
<1>4. (s \o <<Head(t)>>) \o Tail(t) = s \o (<<Head(t)>> \o Tail(t))
  BY <1>1, <1>3, ConcatAssociative
<1> QED  BY <1>1, <1>2, <1>4

\* The head and the tail of a concatenation are those of its first part.
LEMMA HeadOfBoth ==
  ASSUME NEW S, NEW s \in Seq(S), NEW t \in Seq(S), s # <<>>
  PROVE  /\ s \o t # <<>> /\ Head(s \o t) = Head(s)
         /\ Tail(s \o t) = Tail(s) \o t
BY SMT

\* A sequence is the empty one iff it has no length.
LEMMA NoLength ==
  ASSUME NEW S, NEW s \in Seq(S)
  PROVE  /\ Len(s) \in Nat
         /\ s = <<>> <=> Len(s) = 0
         /\ <<>> \o s = s /\ s \o <<>> = s
BY EmptySeq, LenProperties, ConcatEmptySeq

-----------------------------------------------------------------------------
(* The invariant.                                                          *)

LEMMA InitIInv == Init => IInv
PROOF
<1> SUFFICES ASSUME Init PROVE IInv
  OBVIOUS
<1>1. TypeOK
  BY EmptySeq DEF Init, TypeOK, Main, Worker
<1>2. Control /\ Awake /\ Emptied
  BY DEF Init, Control, Awake, Emptied
<1>3. InOrder
  BY EmptySeq, ConcatEmptySeq DEF Init, InOrder
<1> QED  BY <1>1, <1>2, <1>3 DEF IInv

\* The steps of the main thread.
LEMMA PushKeeps ==
  ASSUME IInv, NEW q \in Queries, PushQuery(q)
  PROVE  IInv'
PROOF
<1> USE DEF IInv, PushQuery, Push
<1>1. TypeOK'
  BY AppendProperties DEF TypeOK
<1>2. ~end /\ pc \notin {"flush", "gone"}
  BY DEF Control, TypeOK
<1>3. Control' /\ Awake' /\ Emptied'
  BY <1>2 DEF Control, Awake, Emptied, TypeOK
<1>4. finished \o copy \o query = pushed
  BY <1>2 DEF InOrder
<1>5. finished \o copy \in Seq(Queries)
  BY ConcatProperties DEF TypeOK
<1>6. (finished \o copy) \o Append(query, q) = Append(finished \o copy \o query, q)
  BY <1>5, AppendBehind DEF TypeOK
<1>7. InOrder'
  BY <1>4, <1>6 DEF InOrder
<1> QED  BY <1>1, <1>3, <1>7

LEMMA MainKeeps ==
  ASSUME IInv, PopResult \/ Quit \/ Join
  PROVE  IInv'
PROOF
<1> USE DEF IInv
<1>1. CASE PopResult
  <2>1. Head(result) \in Queries /\ Tail(result) \in Seq(Queries)
    BY <1>1, HeadTailProperties DEF PopResult, TypeOK
  <2>2. Append(fetched, Head(result)) \in Seq(Queries)
    BY <2>1, AppendProperties DEF TypeOK
  <2>3. TypeOK'
    BY <1>1, <2>1, <2>2 DEF PopResult, TypeOK
  <2>4. Control' /\ Awake' /\ Emptied' /\ InOrder'
    BY <1>1 DEF PopResult, Control, Awake, Emptied, InOrder
  <2> QED  BY <2>3, <2>4
<1>2. CASE Quit
  <2>1. end' \in BOOLEAN
    BY <1>2, Zenon DEF Quit, EndAndRelease, TypeOK
  <2>2. sem' \in Nat /\ main' \in Main
    BY <1>2 DEF Quit, EndAndRelease, TypeOK, Main
  <2>3. TypeOK'
    BY <1>2, <2>1, <2>2 DEF Quit, TypeOK
  <2>4. Control' /\ Awake' /\ Emptied' /\ InOrder'
    BY <1>2 DEF Quit, EndAndRelease, Control, Awake, Emptied, InOrder, TypeOK
  <2> QED  BY <2>3, <2>4
<1>3. CASE Join
  BY <1>3 DEF Join, TypeOK, Main, Control, Awake, Emptied, InOrder
<1> QED  BY <1>1, <1>2, <1>3

\* The steps of the worker that run no query.
LEMMA WorkerKeeps ==
  ASSUME IInv, Test \/ Wait \/ Leave \/ RetryCopied \/ RetryQueued
  PROVE  IInv'
PROOF
<1> USE DEF IInv
<1>1. CASE Test
  BY <1>1 DEF Test, TypeOK, Main, Worker, Control, Awake, Emptied, InOrder
<1>2. CASE Wait
  BY <1>2 DEF Wait, TypeOK, Worker, Control, Awake, Emptied, InOrder
<1>3. CASE Leave
  BY <1>3 DEF Leave, Flushed, TypeOK, Worker, Control, Awake, Emptied, InOrder
<1>4. CASE RetryCopied
  <2>1. TypeOK'
    BY <1>4 DEF RetryCopied, NextRound, TypeOK, Worker, Control
  <2>2. Control' /\ Awake' /\ Emptied' /\ InOrder'
    BY <1>4 DEF RetryCopied, NextRound, TypeOK, Control, Awake, Emptied, InOrder
  <2> QED  BY <2>1, <2>2
<1>5. CASE RetryQueued
  BY <1>5 DEF RetryQueued, TypeOK, Control, Awake, Emptied, InOrder
<1> QED  BY <1>1, <1>2, <1>3, <1>4, <1>5

LEMMA CopyKeeps ==
  ASSUME IInv, CopyQuery
  PROVE  IInv'
PROOF
<1> USE DEF IInv, CopyQuery, Copied
<1>1. CASE query = <<>>
  BY <1>1 DEF TypeOK, Worker, Control, Awake, Emptied, InOrder
<1>2. CASE query # <<>>
  <2>1. copy \o query \in Seq(Queries) /\ Len(copy \o query) = Len(copy) + Len(query)
    BY ConcatProperties DEF TypeOK
  <2>2. Len(query) \in Nat \ {0} /\ Len(copy) \in Nat /\ <<>> \in Seq(Queries)
    BY <1>2, EmptySeq, LenProperties DEF TypeOK
  <2>3. TypeOK'
    <3>1. copy' \in Seq(Queries) /\ query' \in Seq(Queries)
      BY <1>2, <2>1, <2>2
    <3>2. count' \in Nat /\ pc' \in Worker
      BY <1>2, <2>2 DEF Worker
    <3> HIDE DEF Copied
    <3> QED  BY <3>1, <3>2 DEF TypeOK
  <2>4. Control' /\ Awake' /\ Emptied'
    BY <1>2, <2>1, <2>2 DEF Control, Awake, Emptied, TypeOK
  <2>5. (finished \o copy) \o query = finished \o (copy \o query)
    <3>1. finished \in Seq(Queries) /\ copy \in Seq(Queries) /\ query \in Seq(Queries)
      BY DEF TypeOK
    <3> HIDE DEF IInv, CopyQuery
    <3> QED  BY <3>1, ConcatAssociative
  <2>6. finished \o (copy \o query) \in Seq(Queries)
    BY <2>1, ConcatProperties DEF TypeOK
  <2>7. (finished \o (copy \o query)) \o <<>> = finished \o (copy \o query)
    BY <2>6, ConcatEmptySeq
  <2>8. finished' \o copy' \o query' = pushed'
    BY <1>2, <2>5, <2>7 DEF InOrder
  <2> QED  BY <2>3, <2>4, <2>8 DEF InOrder
<1> QED  BY <1>1, <1>2

\* The types of what a finished query is added to.
LEMMA FinishedTypes ==
  ASSUME TypeOK, NEW q \in Queries, Finished(q)
  PROVE  finished' \in Seq(Queries) /\ result' \in Seq(Queries)
BY AppendProperties DEF Finished, Answer, TypeOK

LEMMA RunCopiedKeeps ==
  ASSUME IInv, RunCopied
  PROVE  IInv'
PROOF
<1> USE DEF IInv
<1>1. copy # <<>>
  BY EmptySeq DEF RunCopied, Control, TypeOK
<1>2. /\ Head(copy) \in Queries /\ Tail(copy) \in Seq(Queries)
      /\ Len(Tail(copy)) = Len(copy) - 1
      /\ Append(finished, Head(copy)) \o Tail(copy) = finished \o copy
  BY <1>1, MoveHead DEF TypeOK
<1>3. finished' \in Seq(Queries) /\ result' \in Seq(Queries)
  BY <1>2, FinishedTypes DEF RunCopied
<1>4. TypeOK'
  BY <1>2, <1>3 DEF RunCopied, NextRound, TypeOK, Worker, Control
<1>5. Control' /\ Awake'
  BY <1>2 DEF RunCopied, NextRound, Control, Awake, TypeOK
<1>6. Len(copy) \in Nat /\ (Tail(copy) = <<>> <=> Len(Tail(copy)) = 0)
  BY <1>2, NoLength DEF TypeOK
<1>7. Emptied'
  BY <1>2, <1>6 DEF RunCopied, NextRound, Emptied, TypeOK
<1>8. InOrder'
  BY <1>2 DEF RunCopied, NextRound, Finished, InOrder
<1> QED  BY <1>4, <1>5, <1>7, <1>8

LEMMA RunQueuedKeeps ==
  ASSUME IInv, RunQueued
  PROVE  IInv'
PROOF
<1> USE DEF IInv
<1>1. /\ Head(query) \in Queries /\ Tail(query) \in Seq(Queries)
      /\ Append(finished, Head(query)) \o Tail(query) = finished \o query
  BY MoveHead DEF RunQueued, TypeOK
<1>2. finished' \in Seq(Queries) /\ result' \in Seq(Queries)
  BY <1>1, FinishedTypes DEF RunQueued
<1>3. TypeOK'
  BY <1>1, <1>2 DEF RunQueued, TypeOK
<1>4. Control' /\ Awake' /\ Emptied'
  BY DEF RunQueued, Control, Awake, Emptied
<1>5. finished \o <<>> = finished /\ finished' \o <<>> = finished'
  BY <1>2, ConcatEmptySeq DEF TypeOK
<1>6. InOrder'
  BY <1>1, <1>5 DEF RunQueued, Finished, InOrder
<1> QED  BY <1>3, <1>4, <1>6

LEMMA NextIInv == IInv /\ [Next]_vars => IInv'
PROOF
<1> SUFFICES ASSUME IInv, [Next]_vars PROVE IInv'
  OBVIOUS
<1>1. ASSUME NEW q \in Queries, PushQuery(q) PROVE IInv'
  BY <1>1, PushKeeps
<1>2. CASE PopResult \/ Quit \/ Join
  BY <1>2, MainKeeps
<1>3. CASE Test \/ Wait \/ Leave \/ RetryCopied \/ RetryQueued
  BY <1>3, WorkerKeeps
<1>4. CASE CopyQuery
  BY <1>4, CopyKeeps
<1>5. CASE RunCopied
  BY <1>5, RunCopiedKeeps
<1>6. CASE RunQueued
  BY <1>6, RunQueuedKeeps
<1>7. CASE UNCHANGED vars
  BY <1>7 DEF vars, IInv, TypeOK, Control, Awake, Emptied, InOrder
<1> QED  BY <1>1, <1>2, <1>3, <1>4, <1>5, <1>6, <1>7 DEF Next, ChildLoop

LEMMA SpecIInv == Spec => []IInv
BY InitIInv, NextIInv, PTL DEF Spec

-----------------------------------------------------------------------------
(* Theorems.                                                               *)

\* Every variable keeps its type (the message queues of AsyncSQL.cpp:283-396).
THEOREM TypeCorrect == Spec => []TypeOK
BY SpecIInv, PTL DEF IInv

\* Queries finish in the order of PushQuery, each once, whatever the server says
\* (CopyQuery and ChildLoop, AsyncSQL.cpp:361-589).
THEOREM OrderKept == Spec => []InOrder
BY SpecIInv, PTL DEF IInv

\* The worker never sleeps on a message, nor on Quit() (AsyncSQL.cpp:209-226 and
\* 308-318).
THEOREM Wakes == Spec => []NoLostWakeup
PROOF
<1>1. IInv => NoLostWakeup
  BY DEF IInv, Awake, TypeOK, NoLostWakeup
<1> QED  BY <1>1, SpecIInv, PTL

\* When the worker has gone, the queue is empty, and without an error that may
\* pass everything has run (the loop after m_bEnd, AsyncSQL.cpp:591-646).
THEOREM Drains == Spec => []ShutdownDrains
PROOF
<1>1. IInv => ShutdownDrains
  <2> SUFFICES ASSUME IInv, pc = "gone"
               PROVE  query = <<>> /\ (retries = 0 => finished = pushed)
    BY DEF ShutdownDrains
  <2>1. query = <<>>
    BY DEF IInv, Control
  <2>2. ASSUME retries = 0 PROVE finished = pushed
    <3>1. copy = <<>>
      BY <2>2 DEF IInv, Emptied
    <3>2. finished \o <<>> \o <<>> = pushed
      BY <2>1, <3>1 DEF IInv, InOrder
    <3>3. finished \o <<>> = finished
      BY ConcatEmptySeq DEF IInv, TypeOK
    <3> QED  BY <3>2, <3>3
  <2> QED  BY <2>1, <2>2
<1> QED  BY <1>1, SpecIInv, PTL

-----------------------------------------------------------------------------
(* The refinement.                                                         *)

LEMMA InitFifo == Init => Fifo!Init
BY EmptySeq, ConcatEmptySeq DEF Init, Fifo!Init, Waiting, LeftBehind

\* A push is a push: it comes behind everything that waits.
LEMMA PushIsQueue ==
  ASSUME IInv, NEW q \in Queries, PushQuery(q)
  PROVE  Fifo!Queue(q)
PROOF
<1>1. pc \notin {"flush", "gone"} /\ pc' = pc /\ copy' = copy /\ query' = Append(query, q)
  BY DEF IInv, Control, PushQuery, Push
<1>2. copy \o Append(query, q) = Append(copy \o query, q)
  BY AppendBehind DEF IInv, TypeOK
<1>3. Waiting' = Append(Waiting, q)
  BY <1>1, <1>2 DEF Waiting
<1>4. UNCHANGED <<finished, LeftBehind, result>>
  BY <1>1 DEF PushQuery, LeftBehind
<1> QED  BY <1>3, <1>4 DEF Fifo!Queue

\* Running the front of the copy, or in the last loop of the queue, finishes the
\* oldest that waits.
LEMMA RunCopiedIsFinish ==
  ASSUME IInv, RunCopied
  PROVE  Fifo!Finish
PROOF
<1>1. copy # <<>> /\ copy \in Seq(Queries) /\ query \in Seq(Queries)
  BY EmptySeq DEF RunCopied, IInv, Control, TypeOK
<1>2. /\ copy \o query # <<>> /\ Head(copy \o query) = Head(copy)
      /\ Tail(copy \o query) = Tail(copy) \o query
  BY <1>1, HeadOfBoth
<1>3. pc \notin {"flush", "gone"} /\ pc' \notin {"flush", "gone"}
  BY DEF RunCopied, NextRound
<1>4. /\ Waiting = copy \o query /\ Waiting' = Tail(copy) \o query
      /\ UNCHANGED LeftBehind
  BY <1>3 DEF Waiting, LeftBehind, RunCopied
<1>5. /\ finished' = Append(finished, Head(copy))
      /\ result' = IF Head(copy) \in Returning THEN Append(result, Head(copy)) ELSE result
  BY DEF RunCopied, Finished, Answer
<1> QED  BY <1>2, <1>4, <1>5 DEF Fifo!Finish

LEMMA RunQueuedIsFinish ==
  ASSUME IInv, RunQueued
  PROVE  Fifo!Finish
PROOF
<1>1. /\ Waiting = query /\ Waiting' = Tail(query) /\ query # <<>>
      /\ UNCHANGED LeftBehind
  BY DEF Waiting, LeftBehind, RunQueued
<1>2. /\ finished' = Append(finished, Head(query))
      /\ result' = IF Head(query) \in Returning THEN Append(result, Head(query)) ELSE result
  BY DEF RunQueued, Finished, Answer
<1> QED  BY <1>1, <1>2 DEF Fifo!Finish

\* Moving the queue into the copy changes nothing in what waits.
LEMMA CopyIsStutter ==
  ASSUME IInv, CopyQuery
  PROVE  UNCHANGED <<Waiting, finished, LeftBehind, result>>
PROOF
<1>1. pc \notin {"flush", "gone"} /\ pc' \notin {"flush", "gone"}
  BY DEF CopyQuery
<1>2. copy \o query \in Seq(Queries)
  BY ConcatProperties DEF IInv, TypeOK
<1>3. copy' \o query' = copy \o query
  BY <1>2, ConcatEmptySeq DEF CopyQuery, Copied
<1> QED  BY <1>1, <1>3 DEF Waiting, LeftBehind, CopyQuery

LEMMA NextFifo == IInv /\ [Next]_vars => [Fifo!Next]_<<Waiting, finished, LeftBehind, result>>
PROOF
<1> SUFFICES ASSUME IInv, [Next]_vars
             PROVE  [Fifo!Next]_<<Waiting, finished, LeftBehind, result>>
  OBVIOUS
<1>1. ASSUME NEW q \in Queries, PushQuery(q) PROVE Fifo!Next
  BY <1>1, PushIsQueue DEF Fifo!Next
<1>2. CASE PopResult
  BY <1>2 DEF PopResult, Fifo!Next, Fifo!Fetch, Waiting, LeftBehind
<1>3. CASE Test
  <2>1. CASE end
    <3>1. Waiting = LeftBehind' \o Waiting' /\ LeftBehind = <<>>
      BY <1>3, <2>1 DEF Test, Waiting, LeftBehind
    <3> QED  BY <1>3, <3>1 DEF Test, Fifo!Next, Fifo!GiveUp
  <2>2. CASE ~end
    BY <1>3, <2>2 DEF Test, Waiting, LeftBehind
  <2> QED  BY <2>1, <2>2
<1>4. CASE RunCopied
  BY <1>4, RunCopiedIsFinish DEF Fifo!Next
<1>5. CASE RunQueued
  BY <1>5, RunQueuedIsFinish DEF Fifo!Next
<1>6. CASE CopyQuery
  BY <1>6, CopyIsStutter
<1>7. CASE Quit \/ Join \/ Wait \/ Leave \/ RetryCopied \/ RetryQueued \/ UNCHANGED vars
  BY <1>7 DEF Quit, Join, Wait, Leave, RetryCopied, RetryQueued, NextRound, vars,
              Waiting, LeftBehind
<1> QED  BY <1>1, <1>2, <1>3, <1>4, <1>5, <1>6, <1>7 DEF Next, ChildLoop

\* Every behaviour of the two threads is one of a connection that finishes in
\* order (AsyncSQL.cpp:259-318 and 507-647 against SqlFifo).
THEOREM ImplementsFifo == Spec => KeepsOrder
BY InitFifo, NextFifo, SpecIInv, PTL DEF Spec, KeepsOrder, Fifo!Spec, Fifo!fifoVars
=============================================================================
