------------------------------ MODULE PseudoLpty ------------------------------
(***************************************************************************)
(* Prosody's side of the socket: send_query() of                           *)
(* src/prosody-modules/mod_auth_external.lua over the connection that      *)
(* src/prosody-modules/pseudolpty.lib.lua keeps to xcauth.                 *)
(*                                                                         *)
(* The mode is blocking, the default with pseudolpty: one query at a time, *)
(* one connection.  The socket library and xcauth go on between two calls  *)
(* of the library, so each call is a step.  What is in a connection that   *)
(* was closed reaches nobody and is dropped with it.                       *)
(***************************************************************************)
EXTENDS Naturals, Sequences

CONSTANTS
    Queries,        \* queries are numbered modulo this
    MaxFaults,      \* bound of timeouts and failures of xcauth
    None            \* there is no response

ASSUME PseudoLptyAssumption ==
    /\ Queries \in Nat \ {0} /\ MaxFaults \in Nat
    /\ None \notin Nat

VARIABLES
    phase,          \* where send_query is
    query,          \* the query it is about
    response,       \* what it returned last
    connected,      \* plpty.connected; the socket is open
    exitstr,        \* TRUE: plpty.exitstr is set
    requests,       \* queries on their way to xcauth, in this connection
    lines,          \* responses on their way back, by their query
    peer,           \* xcauth's end of the connection is open
    up,             \* xcauth listens
    faults

client == <<phase, query, response, connected, exitstr>>
server == <<peer, up, faults>>
vars == <<phase, query, response, connected, exitstr, requests, lines, peer, up,
          faults>>

Numbers == 0 .. Queries - 1

TypeOK ==
    /\ phase \in {"idle", "start", "probe", "send", "reconnect", "resend", "read"}
    /\ query \in Numbers
    /\ response \in Numbers \cup {None}
    /\ connected \in BOOLEAN /\ exitstr \in BOOLEAN
    /\ peer \in BOOLEAN /\ up \in BOOLEAN
    /\ requests \in Seq(Numbers) /\ lines \in Seq(Numbers)
    /\ faults \in 0 .. MaxFaults
    /\ ~connected => ~peer /\ requests = <<>> /\ lines = <<>>

Init ==
    /\ phase = "idle" /\ query = 0 /\ response = None
    /\ connected = FALSE /\ exitstr = FALSE
    /\ requests = <<>> /\ lines = <<>>
    /\ peer = FALSE /\ up \in BOOLEAN
    /\ faults = 0

-----------------------------------------------------------------------------
(* pseudolpty.                                                             *)

\* Variants: the socket is not closed; plpty:read() does not disconnect.
disconnectLeaks ==
    /\ connected' = FALSE
    /\ UNCHANGED <<requests, lines, peer>>

disconnectForgotten == UNCHANGED <<connected, requests, lines, peer>>

disconnect ==
    /\ connected' = FALSE
    /\ requests' = <<>> /\ lines' = <<>>
    /\ peer' = FALSE

reconnect ==
    /\ connected' = up /\ exitstr' = ~up
    /\ requests' = <<>> /\ lines' = <<>>
    /\ peer' = up
    /\ UNCHANGED <<up, faults>>

\* The line is lost if the other end is closed.
Transmitted == requests' = IF peer THEN Append(requests, query) ELSE requests

Fault == faults < MaxFaults /\ faults' = faults + 1

-----------------------------------------------------------------------------
(* send_query.                                                             *)

Return(r) == phase' = "idle" /\ response' = r

\* An exit status other than "exit" ends the query, and plpty:exitstatus()
\* returns whatever the last connect() failed with.
Ask ==
    /\ phase = "idle"
    /\ query' = (query + 1) % Queries
    /\ \/ connected /\ phase' = "probe" /\ UNCHANGED response
       \/ ~connected /\ exitstr /\ Return(None)
       \/ ~connected /\ ~exitstr /\ phase' = "start" /\ UNCHANGED response
    /\ UNCHANGED <<connected, exitstr, requests, lines, server>>

Start ==
    /\ phase = "start"
    /\ reconnect
    /\ IF up THEN phase' = "probe" /\ UNCHANGED response ELSE Return(None)
    /\ UNCHANGED query

\* plpty:send begins with read(0), which closes the connection unless there is
\* a line to read.
Probe ==
    /\ phase = "probe"
    /\ phase' = "send"
    /\ IF lines = <<>>
       THEN disconnect
       ELSE lines' = Tail(lines) /\ UNCHANGED <<connected, requests, peer>>
    /\ UNCHANGED <<query, response, exitstr, up, faults>>

\* The end of the other side may be noticed now or when the response is read.
Send ==
    /\ phase = "send"
    /\ \/ /\ connected
          /\ Transmitted
          /\ phase' = "read"
       \/ /\ ~peer
          /\ phase' = "reconnect"
          /\ UNCHANGED requests
    /\ UNCHANGED <<query, response, connected, exitstr, lines, server>>

Reconnect ==
    /\ phase = "reconnect"
    /\ reconnect
    /\ phase' = IF up THEN "resend" ELSE "read"
    /\ UNCHANGED <<query, response>>

Resend ==
    /\ phase = "resend"
    /\ Transmitted
    /\ phase' = "read"
    /\ UNCHANGED <<query, response, connected, exitstr, lines, server>>

Read ==
    /\ phase = "read"
    /\ lines # <<>>
    /\ Return(Head(lines))
    /\ lines' = Tail(lines)
    /\ UNCHANGED <<query, connected, exitstr, requests, server>>

\* Timeout, end of file, or not even a connection.
ReadFails ==
    /\ phase = "read"
    /\ lines = <<>>
    /\ \/ peer /\ Fault
       \/ ~peer /\ UNCHANGED faults
    /\ disconnect
    /\ Return(None)
    /\ UNCHANGED <<query, exitstr, up>>

-----------------------------------------------------------------------------
(* xcauth answers the requests of a connection in order.                   *)

Answer ==
    /\ peer /\ requests # <<>>
    /\ lines' = Append(lines, Head(requests))
    /\ requests' = Tail(requests)
    /\ UNCHANGED <<client, server>>

\* The thread that serves the connection ends, or the whole process and with it
\* the listening socket.
PeerGone ==
    /\ peer /\ Fault
    /\ peer' = FALSE /\ requests' = <<>>
    /\ up' \in {up, FALSE}
    /\ UNCHANGED <<client, lines>>

Down ==
    /\ ~peer /\ up /\ Fault
    /\ up' = FALSE
    /\ UNCHANGED <<client, requests, lines, peer>>

Up ==
    /\ ~up
    /\ up' = TRUE
    /\ UNCHANGED <<client, requests, lines, peer, faults>>

-----------------------------------------------------------------------------
send_query ==
    Start \/ Probe \/ Send \/ Reconnect \/ Resend \/ Read \/ ReadFails

Next == Ask \/ send_query \/ Answer \/ PeerGone \/ Down \/ Up

Spec == Init /\ [][Next]_vars

\* Prosody goes on asking, xcauth answers and is restarted when it is down.
FairSpec ==
    /\ Spec
    /\ WF_vars(Ask) /\ WF_vars(send_query) /\ WF_vars(Answer) /\ WF_vars(Up)

-----------------------------------------------------------------------------
(* Properties.                                                             *)

\* A response is the response to the query it is returned for, whatever was
\* answered late (mod_auth_external.lua:65-97).
ResponseMatches == phase = "idle" => response \in {query, None}

\* A query is in a connection at most once, alone: so a retransmission is not
\* answered twice (pseudolpty.lib.lua:69-87).
OneQueryInConnection ==
    Len(requests) + Len(lines) <= 1 /\ (phase \in {"idle", "send", "resend"} =>
        requests = <<>> /\ lines = <<>>)

\* "To maximize fail-safety ..., it auto-reconnects transparently."
\* (pseudolpty.lib.lua:13-14): responses come again after a failure.
Recovers == []<>(response # None)
===============================================================================
