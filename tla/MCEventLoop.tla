----------------------------- MODULE MCEventLoop -----------------------------
(* Small instances of EventLoop for TLC.                                    *)
EXTENDS EventLoop, TLC

\* Connections and descriptors are interchangeable; for runs without liveness.
Interchangeable == Permutations(Conns) \cup Permutations(Fds)

=============================================================================
