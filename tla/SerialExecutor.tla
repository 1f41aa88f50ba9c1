--------------------------- MODULE SerialExecutor ---------------------------
(***************************************************************************)
(* What a blocking path promises: the messages of one (path, client) key   *)
(* are handled one at a time, in the order they arrived, each at most once.*)
(***************************************************************************)
EXTENDS Sequences

CONSTANTS Keys, Jobs, NoJob

VARIABLES
    backlog,  \* for each key, the jobs that wait
    running   \* for each key, the job that runs now

Init == /\ backlog = [k \in Keys |-> <<>>]
        /\ running = [k \in Keys |-> NoJob]

Arrive(k, j) ==
    /\ backlog' = [backlog EXCEPT ![k] = Append(@, j)]
    /\ running' = running

Start(k) ==
    /\ running[k] = NoJob
    /\ backlog[k] # <<>>
    /\ running' = [running EXCEPT ![k] = Head(backlog[k])]
    /\ backlog' = [backlog EXCEPT ![k] = Tail(@)]

Finish(k) ==
    /\ running[k] # NoJob
    /\ running' = [running EXCEPT ![k] = NoJob]
    /\ backlog' = backlog

Next == \E k \in Keys : \/ Start(k) \/ Finish(k)
                        \/ \E j \in Jobs : Arrive(k, j)

Spec == Init /\ [][Next]_<<backlog, running>>

=============================================================================
