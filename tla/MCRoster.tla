------------------------------ MODULE MCRoster ------------------------------
(* Roster for TLC: which process a job runs in, and what sanitize() does.  *)
EXTENDS Roster, FiniteSets

OneProcess == [t \in Threads |-> CHOOSE p \in Procs : TRUE]

\* Every process has a job: three in two processes are two threads of one
\* process and a second process.
EachProcess == CHOOSE f \in [Threads -> Procs] : \A p \in Procs : \E t \in Threads : f[t] = p

\* All the groups have the same name but for an '@' or a control character.
SameName == [g \in Groups |-> CHOOSE k \in Keys : TRUE]

\* The names of the groups are clean.
CleanNames == [g \in Groups |-> g]

\* Bound: two jobs at a time.
TwoAtATime == Cardinality({t \in Threads : phase[t] # "idle"}) <= 2
=============================================================================
