---------------------------- MODULE TaskService ----------------------------
(***************************************************************************)
(* What a pool of workers promises for the tasks that are handed to it,    *)
(* without the threads, locks, monitors and limits that keep the promise.  *)
(* A task is accepted or refused, once.  Accepted tasks are begun in the   *)
(* order in which they were accepted, each by one worker and once, and a   *)
(* worker has one task at a time.  Tasks are given up from the front only, *)
(* and by the service itself only when they are late; a late task is not   *)
(* begun any more.                                                         *)
(***************************************************************************)
EXTENDS Naturals, Sequences

CONSTANTS Tasks, Workers, NoTask

VARIABLES
    queue,   \* the accepted tasks that nobody has begun
    status,  \* what became of each task
    late,    \* the tasks whose time passed while they were pending
    runs     \* the task of each worker, or NoTask

vars == <<queue, status, late, runs>>

Init ==
    /\ queue = << >>
    /\ status = [t \in Tasks |-> "new"]
    /\ late = {}
    /\ runs = [w \in Workers |-> NoTask]

\* The queue and the tasks without the first n of the queue.
Rest(n) == SubSeq(queue, n + 1, Len(queue))
Without(n) == [t \in Tasks |-> IF \E i \in 1 .. n : queue[i] = t
                               THEN "discarded" ELSE status[t]]

\* The first n tasks may be given up because they are late.
Overdue(n) == n \in 0 .. Len(queue) /\ \A i \in 1 .. n : queue[i] \in late

Accept(t, n) ==
    /\ Overdue(n)
    /\ status[t] = "new"
    /\ queue' = Append(Rest(n), t)
    /\ status' = [Without(n) EXCEPT ![t] = "pending"]
    /\ UNCHANGED <<late, runs>>

Refuse(t, n) ==
    /\ Overdue(n)
    /\ status[t] = "new"
    /\ queue' = Rest(n)
    /\ status' = [Without(n) EXCEPT ![t] = "refused"]
    /\ UNCHANGED <<late, runs>>

Begin(w, n) ==
    /\ Overdue(n)
    /\ n < Len(queue)
    /\ queue[n + 1] \notin late
    /\ runs[w] = NoTask
    /\ queue' = Rest(n + 1)
    /\ status' = [Without(n) EXCEPT ![queue[n + 1]] = "running"]
    /\ runs' = [runs EXCEPT ![w] = queue[n + 1]]
    /\ late' = late

Finish(w) ==
    /\ runs[w] # NoTask
    /\ status' = [status EXCEPT ![runs[w]] = "done"]
    /\ runs' = [runs EXCEPT ![w] = NoTask]
    /\ UNCHANGED <<queue, late>>

Lapse(t) ==
    /\ status[t] = "pending"
    /\ late' = late \cup {t}
    /\ UNCHANGED <<queue, status, runs>>

\* The first n tasks are given up ...
GiveUp(n) ==
    /\ queue' = Rest(n)
    /\ status' = Without(n)
    /\ UNCHANGED <<late, runs>>

\* ... because they are late, or the first because a user takes it back.
Discard(n) == Overdue(n) /\ GiveUp(n)
Withdraw == queue # << >> /\ GiveUp(1)

Next ==
    \/ \E n \in 0 .. Len(queue) :
          \/ \E t \in Tasks : Accept(t, n) \/ Refuse(t, n)
          \/ \E w \in Workers : Begin(w, n)
          \/ Discard(n)
    \/ Withdraw
    \/ \E w \in Workers : Finish(w)
    \/ \E t \in Tasks : Lapse(t)

Spec == Init /\ [][Next]_vars
=============================================================================
