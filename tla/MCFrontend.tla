----------------------------- MODULE MCFrontend -----------------------------
(* An instance of Frontend for TLC. *)
EXTENDS Frontend

\* One socket for each protocol but the last, which gets --type.
FourNames == <<"ejabberd", "saslauthd", "postfix">>

CONSTANTS c1, c2

\* One client is as busy as can be, the other only takes its place.
Requests == [c \in Clients |-> IF c = c1 THEN 2 ELSE 0]

\* The order of answers needs two requests in one connection, what becomes of
\* connections needs both connections and at most one request, and of a listener
\* whether it is there.
OneThingAtATime ==
    /\ Sent(c1) > 1 => conn[c2] = "closed" /\ fd[c2] = 1
    /\ Sent(c1) > 0 => listeners \in {{}, Fds}
    /\ conn[c2] # "closed" => fd[c2] = 4
    /\ \A f \in listeners : 1 .. f \subseteq listeners
=============================================================================
