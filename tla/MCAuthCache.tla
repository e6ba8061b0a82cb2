----------------------------- MODULE MCAuthCache -----------------------------
(* Instances of AuthCache for TLC. *)
EXTENDS AuthCache

\* All workers are threads of one process (systemd: one service for all sockets).
OneProcess == [w \in Workers |-> CHOOSE p \in Procs : TRUE]

\* Every process has a worker: three of them in two processes are two threads
\* of one process and a second process (one service per protocol).
EachProcess == CHOOSE f \in [Workers -> Procs] : \A p \in Procs : \E w \in Workers : f[w] = p

\* Bound: at least one worker is never used, so that of the three any two meet.
OneUnused == \E w \in Workers : pc[w] = "idle"
=============================================================================
