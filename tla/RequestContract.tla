--------------------------- MODULE RequestContract ---------------------------
(***************************************************************************)
(* What send_async promises about a request, whichever threads are at      *)
(* work: one request per connection and data id is open at a time; an open *)
(* request is closed by somebody before it gets an outcome; it gets one    *)
(* outcome, for good.                                                      *)
(***************************************************************************)
CONSTANTS Requests, Conns, DataIds

VARIABLES key, status

Outcomes == {"result", "timeout", "lost", "cancelled"}

Init == /\ key \in [Requests -> Conns \X DataIds]
        /\ status = [r \in Requests |-> "new"]

Taken(k) == \E r \in Requests : status[r] = "open" /\ key[r] = k

\* The request is made, and its key is its own from now on.
Open(r) ==
    /\ status[r] = "new"
    /\ ~Taken(key[r])
    /\ status' = [status EXCEPT ![r] = "open"]

\* The key belongs to another request: the new one is turned away.
Reject(r) ==
    /\ status[r] = "new"
    /\ Taken(key[r])
    /\ status' = [status EXCEPT ![r] = "closing"]

\* One reply, one deadline, one cancellation closes one request; the loss of a
\* connection closes every open request of that connection at once.
Close(R) ==
    /\ R # {}
    /\ \A r \in R : status[r] = "open"
    /\ \/ \E r \in R : R = {r}
       \/ \E c \in Conns :
             R = {r \in Requests : key[r][1] = c /\ status[r] = "open"}
    /\ status' = [r \in Requests |-> IF r \in R THEN "closing" ELSE status[r]]

Resolve(r, outcome) ==
    /\ status[r] = "closing"
    /\ status' = [status EXCEPT ![r] = outcome]

Next ==
    /\ key' = key
    /\ \/ \E r \in Requests : \/ Open(r) \/ Reject(r)
                              \/ \E o \in Outcomes : Resolve(r, o)
       \/ \E R \in SUBSET Requests : Close(R)

Spec == Init /\ [][Next]_<<key, status>>

=============================================================================
