---------------------------- MODULE SerialExecutor ----------------------------
(***************************************************************************)
(* What a client of QctQueue may rely on, without events, threads and      *)
(* object lifetimes: accepted tasks run one at a time and in the order in  *)
(* which they were accepted; a task may leave before its turn; closing the *)
(* executor drops what waits, save for one task that is about to run.      *)
(***************************************************************************)
EXTENDS Integers, Sequences

CONSTANTS Task, NoTask

VARIABLES
    seen,     \* the tasks that were offered
    waiting,  \* the accepted tasks that did not run yet
    current,  \* the running task
    open

vars == <<seen, waiting, current, open>>

Init ==
    /\ seen = {}
    /\ waiting = << >>
    /\ current = NoTask
    /\ open = TRUE

Submit(t) ==
    /\ open /\ t \notin seen
    /\ seen' = seen \cup {t}
    /\ waiting' = Append(waiting, t)
    /\ UNCHANGED <<current, open>>

Refuse(t) ==
    /\ t \notin seen
    /\ seen' = seen \cup {t}
    /\ UNCHANGED <<waiting, current, open>>

Start ==
    /\ current = NoTask /\ waiting # << >>
    /\ current' = Head(waiting)
    /\ waiting' = Tail(waiting)
    /\ UNCHANGED <<seen, open>>

Retire ==
    /\ current # NoTask
    /\ current' = NoTask
    /\ UNCHANGED <<seen, waiting, open>>

Withdraw ==
    /\ \E i \in 1..Len(waiting) :
          waiting' = SubSeq(waiting, 1, i - 1) \o SubSeq(waiting, i + 1, Len(waiting))
    /\ UNCHANGED <<seen, current, open>>

Close ==
    /\ open
    /\ open' = FALSE
    /\ waiting' = IF current = NoTask /\ waiting # << >>
                    THEN <<Head(waiting)>> ELSE << >>
    /\ UNCHANGED <<seen, current>>

Next ==
    \/ \E t \in Task : Submit(t) \/ Refuse(t)
    \/ Start
    \/ Retire
    \/ Withdraw
    \/ Close

Spec == Init /\ [][Next]_vars

=============================================================================
