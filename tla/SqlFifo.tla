------------------------------ MODULE SqlFifo ------------------------------
(***************************************************************************)
(* What a database connection owes to those who queue queries on it:       *)
(* every query is finished once, in the order of the queueing, and what it *)
(* returns is handed over in that order.  A connection that is shut down   *)
(* after failures may give up the queries it had already taken.            *)
(***************************************************************************)
EXTENDS Sequences, Naturals

CONSTANTS
  Queries,    \* the messages that may be queued, each once
  Returning   \* those whose result somebody waits for

VARIABLES
  waiting,    \* queued and not finished, oldest first
  finished,   \* finished, oldest first
  given,      \* given up at the shutdown
  answers     \* results nobody has fetched yet

fifoVars == <<waiting, finished, given, answers>>

Init ==
  /\ waiting = <<>> /\ finished = <<>> /\ given = <<>> /\ answers = <<>>

Queue(q) ==
  /\ waiting' = Append(waiting, q)
  /\ UNCHANGED <<finished, given, answers>>

Finish ==
  /\ waiting # <<>>
  /\ waiting' = Tail(waiting)
  /\ finished' = Append(finished, Head(waiting))
  /\ answers' = IF Head(waiting) \in Returning
                THEN Append(answers, Head(waiting)) ELSE answers
  /\ UNCHANGED given

Fetch ==
  /\ answers # <<>>
  /\ answers' = Tail(answers)
  /\ UNCHANGED <<waiting, finished, given>>

GiveUp ==
  /\ given = <<>>
  /\ waiting = given' \o waiting'
  /\ UNCHANGED <<finished, answers>>

Next ==
  \/ \E q \in Queries : Queue(q)
  \/ Finish \/ Fetch \/ GiveUp

Spec == Init /\ [][Next]_fifoVars
=============================================================================
