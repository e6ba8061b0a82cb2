------------------------------ MODULE Frontend ------------------------------
(***************************************************************************)
(* Connections to xcauth under socket activation: the main loop            *)
(* perform_from_listeners and the threads in perform_from_fd of            *)
(* src/xclib/authops.py, with read_request and write_response of the four  *)
(* protocols (src/xclib/*_io.py), isuser (src/xclib/isuser.py) and the     *)
(* names of the sockets (src/xclib/sockact.py).                            *)
(*                                                                         *)
(* A stream is a sequence of units: a line, a length-prefixed command, or  *)
(* one of the four fields of a request of saslauthd.  No protocol numbers  *)
(* its requests, so a client takes the n-th answer for that of its n-th    *)
(* request.  What auth() does is in AuthCache; here it says yes or no.     *)
(***************************************************************************)
EXTENDS Naturals, Sequences

CONSTANTS
    Clients,            \* connections, from connect() to close()
    MaxRequests,        \* bound of the requests of each
    NumFds, Names,      \* LISTEN_FDS and LISTEN_FDNAMES
    Type,               \* --type
    Nobody

Fds == 1 .. NumFds
IoClasses == {"prosody", "ejabberd", "saslauthd", "postfix"}

ASSUME FrontendAssumption ==
    /\ MaxRequests \in [Clients -> Nat]
    /\ NumFds \in Nat \ {0}
    /\ Names \in Seq(STRING)
    /\ Type \in IoClasses \cup {"generic"}
    /\ Nobody \notin Clients

VARIABLES
    main,               \* the main thread; "down": there is no process
    listeners,          \* the sockets it listens to
    held,               \* the connection in its variable "conn"
    fd, conn, eof,      \* of a connection: its socket, its state, and whether
                        \* the client has closed its end
    stream, out,        \* the units that were sent, and what was answered
    thread              \* the thread of the connection

vars == <<main, listeners, held, fd, conn, eof, stream, out, thread>>

\* listen_fds_with_names
NameOf(f) == IF f <= Len(Names) THEN Names[f] ELSE "unknown"

\* The protocol of a listener is its name, or else --type.
ProtoOf(f) ==
    LET lproto == NameOf(f)
        proto == IF lproto \in IoClasses \cup {"generic"} THEN lproto ELSE Type
    IN IF proto = "generic" THEN "prosody" ELSE proto

Proto(c) == ProtoOf(fd[c])

\* "garbage" cannot be decoded, "cut" is a unit the client did not complete.
Units(proto) ==
    CASE proto = "prosody"   -> {"auth", "isuser", "roster", "other", "quit", "garbage"}
      [] proto = "ejabberd"  -> {"auth", "isuser", "roster", "other", "quit", "zero", "garbage"}
      [] proto = "postfix"   -> {"isuser", "other", "quit", "garbage"}
      [] proto = "saslauthd" -> {"field"}

AllUnits == {"cut"} \cup UNION {Units(proto) : proto \in IoClasses}

\* The request the i-th unit belongs to.
RequestOf(c, i) == IF Proto(c) = "saslauthd" THEN (i - 1) \div 4 + 1 ELSE i

\* The requests that were sent in full.
Sent(c) ==
    IF Proto(c) = "saslauthd" THEN Len(stream[c]) \div 4
    ELSE Len(SelectSeq(stream[c], LAMBDA u : u # "cut"))

\* The locals of perform_from_fd and read_request: the units read so far, the
\* fields of saslauthd, the request in hand and what the cloud said of it.
NoData == [to |-> 0, op |-> "none"]
Ended == [at |-> "ended", pos |-> 0, fields |-> [i \in 1 .. 4 |-> 0], field_no |-> 0,
          data |-> NoData, cloud |-> "none"]
Started == [Ended EXCEPT !.at = "read"]

Init ==
    /\ main = "down" /\ listeners = {} /\ held = Nobody
    /\ fd = [c \in Clients |-> 1]
    /\ conn = [c \in Clients |-> "closed"]
    /\ eof = [c \in Clients |-> TRUE]
    /\ stream = [c \in Clients |-> <<>>]
    /\ out = [c \in Clients |-> <<>>]
    /\ thread = [c \in Clients |-> Ended]

Operations == {"none", "auth", "isuser", "roster", "other"}
CloudSays == {"none", "yes", "no", "text", "trouble"}

Threads == [at : {"read", "perform", "write", "ended"}, pos : Nat,
            fields : [1 .. 4 -> Nat], field_no : 0 .. 3,
            data : [to : Nat, op : Operations], cloud : CloudSays]

Answers == [to : Nat, op : Operations, cloud : CloudSays,
            answer : {"1", "0", "text", "OK", "NO", "200", "400", "500"}]

\* A thread and an open connection belong together, and it has not read more
\* than was sent.
TypeOK ==
    /\ main \in {"down", "running", "returned", "raised"}
    /\ listeners \subseteq Fds
    /\ held \in Clients \cup {Nobody}
    /\ fd \in [Clients -> Fds]
    /\ conn \in [Clients -> {"closed", "waiting", "served", "hung"}]
    /\ eof \in [Clients -> BOOLEAN]
    /\ stream \in [Clients -> Seq(AllUnits)]
    /\ out \in [Clients -> Seq(Answers)]
    /\ thread \in [Clients -> Threads]
    /\ \A c \in Clients :
          /\ thread[c].at = "ended" <=> conn[c] # "served"
          /\ conn[c] = "served" => thread[c].pos \in 0 .. Len(stream[c])

-----------------------------------------------------------------------------
(* The clients.                                                            *)

Open(c) == conn[c] \in {"waiting", "served", "hung"} /\ ~eof[c]

SameMain == UNCHANGED <<main, listeners, held>>

\* systemd keeps the sockets, so one can connect whether xcauth runs or not.
Connect(c, f) ==
    /\ conn[c] = "closed"
    /\ conn' = [conn EXCEPT ![c] = "waiting"]
    /\ fd' = [fd EXCEPT ![c] = f]
    /\ eof' = [eof EXCEPT ![c] = FALSE]
    /\ stream' = [stream EXCEPT ![c] = <<>>]
    /\ out' = [out EXCEPT ![c] = <<>>]
    /\ UNCHANGED thread /\ SameMain

\* A client need not wait for an answer before it sends the next request.
Send(c, u) ==
    /\ Open(c) /\ Sent(c) < MaxRequests[c]
    /\ stream' = [stream EXCEPT ![c] = @ \o (IF u = "field" THEN <<u, u, u, u>> ELSE <<u>>)]
    /\ UNCHANGED <<fd, conn, eof, out, thread>> /\ SameMain

\* The last unit may be incomplete.
Close(c) ==
    /\ Open(c)
    /\ eof' = [eof EXCEPT ![c] = TRUE]
    /\ \E rest \in {<<>>, IF Proto(c) = "saslauthd" THEN <<"field", "field">> ELSE <<"cut">>} :
          stream' = [stream EXCEPT ![c] = @ \o rest]
    /\ UNCHANGED <<fd, conn, out, thread>> /\ SameMain

-----------------------------------------------------------------------------
(* The main thread.                                                        *)

SameClients == UNCHANGED <<fd, eof, stream, out>>

\* Variant: the connections are kept, in a list of threads for example.
ReleasedNever == conn

\* What only "conn" of the main thread refers to is closed when that goes.
Released == [c \in Clients |-> IF conn[c] = "hung" THEN "closed" ELSE conn[c]]

Pending(c) == main = "running" /\ conn[c] = "waiting" /\ fd[c] \in listeners

Accept(c) ==
    /\ Pending(c)
    /\ held' = c
    /\ conn' = [Released EXCEPT ![c] = "served"]
    /\ thread' = [thread EXCEPT ![c] = Started]
    /\ UNCHANGED <<main, listeners>> /\ SameClients

\* accept() raises: too many open files.
AcceptRaises(c) ==
    /\ Pending(c)
    /\ main' = "raised"
    /\ UNCHANGED <<listeners, held, conn, thread>> /\ SameClients

\* Thread.start() raises: there cannot be another thread.
StartRaises(c) ==
    /\ Pending(c)
    /\ main' = "raised" /\ held' = c
    /\ conn' = [Released EXCEPT ![c] = "hung"]
    /\ UNCHANGED <<listeners, thread>> /\ SameClients

\* select() reports an exceptional condition; without listeners the loop ends.
Drop(f) ==
    /\ main = "running" /\ f \in listeners
    /\ listeners' = listeners \ {f}
    /\ IF listeners = {f}
       THEN main' = "returned" /\ held' = Nobody /\ conn' = Released
       ELSE UNCHANGED <<main, held, conn>>
    /\ UNCHANGED thread /\ SameClients

\* The process is gone, and with it its threads and its ends of connections.
Gone ==
    /\ main' = "down" /\ listeners' = {} /\ held' = Nobody
    /\ conn' = [c \in Clients |-> IF conn[c] = "waiting" THEN "waiting" ELSE "closed"]
    /\ thread' = [c \in Clients |-> Ended]
    /\ SameClients

\* The interpreter waits for its threads, whatever became of the main thread.
Exit ==
    /\ main \in {"returned", "raised"}
    /\ \A c \in Clients : thread[c].at = "ended"
    /\ Gone

Kill == main # "down" /\ Gone

\* systemd starts the service for a connection that waits.
Activate ==
    /\ main = "down" /\ \E c \in Clients : conn[c] = "waiting"
    /\ main' = "running" /\ listeners' = Fds
    /\ UNCHANGED <<held, conn, thread>> /\ SameClients

-----------------------------------------------------------------------------
(* Steps of a thread.                                                      *)

Others == UNCHANGED <<fd, eof, stream>> /\ SameMain

Becomes(c, t) == thread' = [thread EXCEPT ![c] = t] /\ UNCHANGED conn

\* The loop is over, and closefds are closed.
Stop(c) ==
    /\ conn' = [conn EXCEPT ![c] = "closed"]
    /\ thread' = [thread EXCEPT ![c] = Ended]
    /\ UNCHANGED out /\ Others

\* An exception passes by the loop over closefds.  The connection is closed
\* when nothing refers to it any more, but "conn" of the main thread does until
\* the next accept().
Raise(c) ==
    /\ conn' = [conn EXCEPT ![c] = IF held = c THEN "hung" ELSE "closed"]
    /\ thread' = [thread EXCEPT ![c] = Ended]
    /\ UNCHANGED out /\ Others

At(c, where) == thread[c].at = where
More(c) == At(c, "read") /\ thread[c].pos < Len(stream[c])
Unit(c) == stream[c][thread[c].pos + 1]
Lines(c) == Proto(c) \in {"prosody", "postfix"}

Ops(proto) ==
    Units(proto) \cap (IF proto = "postfix" THEN {"isuser"}
                                            ELSE {"auth", "isuser", "roster", "other"})

-----------------------------------------------------------------------------
(* read_request.                                                           *)

\* The last line need not end with a newline: readline() returns what there is,
\* so a request is served that the client has not completed.
ReadRequest(c, op) ==
    /\ More(c)
    /\ op \in Ops(Proto(c))
    /\ Unit(c) = op \/ (Unit(c) = "cut" /\ Lines(c))
    /\ Becomes(c, [thread[c] EXCEPT !.at = "perform", !.pos = @ + 1,
                                    !.data = [to |-> thread[c].pos + 1, op |-> op]])
    /\ UNCHANGED out /\ Others

\* The request whose USER, PASSWORD and REALM these are; 0: of different ones.
OneRequest(f) == IF f[1] = f[2] /\ f[1] = f[4] THEN f[1] ELSE 0

\* Variant: three fields are a request.
NextFieldOfThree(n) == (n + 1) % 3

\* Variant: the number of the field is not reset after a request.
NextFieldUnbounded(n) == n + 1

NextField(n) == (n + 1) % 4

ReadField(c) ==
    /\ More(c) /\ Proto(c) = "saslauthd"
    /\ LET t == thread[c]
           f == [t.fields EXCEPT ![t.field_no + 1] = RequestOf(c, t.pos + 1)]
           n == NextField(t.field_no)
           read == [t EXCEPT !.fields = f, !.field_no = n, !.pos = @ + 1]
       IN Becomes(c, IF n # 0 THEN read
                     ELSE [read EXCEPT !.at = "perform",
                                       !.data = [to |-> OneRequest(f), op |-> "auth"]])
    /\ UNCHANGED out /\ Others

Illegal(c) == More(c) /\ Proto(c) = "postfix" /\ Unit(c) \in {"other", "cut"}

\* Variant: what cannot be parsed is logged and skipped.
ReadIllegalSkipped(c) ==
    /\ Illegal(c)
    /\ Becomes(c, [thread[c] EXCEPT !.pos = @ + 1])
    /\ UNCHANGED out /\ Others

\* Postfix gets the answer to an illegal request from read_request itself.
ReadIllegal(c) ==
    /\ Illegal(c)
    /\ Becomes(c, [thread[c] EXCEPT !.pos = @ + 1])
    /\ out' = [out EXCEPT ![c] = Append(@, [to |-> thread[c].pos + 1, op |-> "other",
                                           cloud |-> "none", answer |-> "500"])]
    /\ Others

\* quit and exit break the loop of perform_from_fd; a length of 0, or a length
\* without its command, ends the generator.
ReadEnd(c) ==
    /\ More(c)
    /\ Unit(c) \in {"quit", "zero"} \/ (Unit(c) = "cut" /\ ~Lines(c))
    /\ Stop(c)

\* Variant: 'if not line: break' is missing.
ReadEofForever(c) ==
    /\ At(c, "read") /\ thread[c].pos = Len(stream[c]) /\ eof[c]
    /\ UNCHANGED vars

ReadEof(c) ==
    /\ At(c, "read") /\ thread[c].pos = Len(stream[c]) /\ eof[c]
    /\ Stop(c)

\* ConnectionResetError, if the client has closed the connection with an answer
\* unread; or UnicodeDecodeError: a text file decodes whatever has arrived,
\* so lines before the one at fault are lost with it.
ReadRaises(c) ==
    /\ At(c, "read")
    /\ \/ eof[c] /\ out[c] # <<>>
       \/ More(c) /\ Unit(c) = "garbage"
       \/ Lines(c) /\ \E i \in thread[c].pos + 1 .. Len(stream[c]) : stream[c][i] = "garbage"
    /\ Raise(c)

-----------------------------------------------------------------------------
(* The body of the loop of perform_from_fd.                                *)

\* What the cloud may make of a request; "trouble": no connection, an HTTP
\* error, no JSON, 'error', no data.
Results(op) ==
    CASE op = "auth"   -> {"yes", "no"}
      [] op = "isuser" -> {"yes", "no", "trouble"}
      [] op = "roster" -> {"text"}
      [] OTHER         -> {"none"}

Perform(c) ==
    /\ At(c, "perform")
    /\ \E r \in Results(thread[c].data.op) :
          Becomes(c, [thread[c] EXCEPT !.at = "write", !.cloud = r])
    /\ UNCHANGED out /\ Others

\* An error of the database, or data of an unexpected type.
PerformRaises(c) ==
    /\ At(c, "perform") /\ thread[c].data.op # "other"
    /\ Raise(c)

Boolean(b) == IF b THEN "True" ELSE "False"

\* Variant: isuser_cloud returns False when there is a problem.
isuserOrNot(r) == Boolean(r = "yes")

\* isuser_cloud has three results: "True when user exists, False when user does
\* not exist, None when there is a problem" (isuser.py:15-17).
isuser(r) == IF r = "trouble" THEN "None" ELSE Boolean(r = "yes")

\* The variable "success" of perform_from_fd.
success(op, r) ==
    CASE op = "isuser" -> isuser(r)
      [] op = "roster" -> "text"
      [] OTHER -> Boolean(r = "yes")

\* write_response; a string is an answer of its own to Prosody, and true to
\* ejabberd.  The string is the body of the reply of the cloud, taken to be a line:
\* one of several lines would be as many answers to a client that reads by lines.
Answer(proto, s) ==
    CASE proto = "prosody"   -> IF s = "text" THEN "text" ELSE IF s = "True" THEN "1" ELSE "0"
      [] proto = "ejabberd"  -> IF s \in {"True", "text"} THEN "1" ELSE "0"
      [] proto = "saslauthd" -> IF s = "True" THEN "OK" ELSE "NO"
      [] proto = "postfix"   -> IF s = "None" THEN "400" ELSE IF s = "True" THEN "200" ELSE "500"

Write(c) ==
    /\ At(c, "write")
    /\ LET t == thread[c] IN
          /\ out' = [out EXCEPT ![c] =
                       Append(@, [to |-> t.data.to, op |-> t.data.op, cloud |-> t.cloud,
                                  answer |-> Answer(Proto(c), success(t.data.op, t.cloud))])]
          /\ Becomes(c, [t EXCEPT !.at = "read", !.data = NoData, !.cloud = "none"])
    /\ Others

\* The client has closed the connection: BrokenPipeError.
WriteRaises(c) ==
    /\ eof[c]
    /\ At(c, "write") \/ Illegal(c)
    /\ Raise(c)

-----------------------------------------------------------------------------
Serve(c) ==
    \/ \E op \in {"auth", "isuser", "roster", "other"} : ReadRequest(c, op)
    \/ ReadField(c) \/ ReadIllegal(c) \/ ReadEnd(c) \/ ReadEof(c) \/ ReadRaises(c)
    \/ Perform(c) \/ PerformRaises(c)
    \/ Write(c) \/ WriteRaises(c)

Client(c) ==
    \/ \E f \in Fds : Connect(c, f)
    \/ \E u \in Units(Proto(c)) : Send(c, u)
    \/ Close(c)

Trouble ==
    \/ \E c \in Clients : AcceptRaises(c) \/ StartRaises(c)
    \/ \E f \in Fds : Drop(f)
    \/ Kill

Next ==
    \/ \E c \in Clients : Client(c) \/ Serve(c) \/ Accept(c)
    \/ Trouble \/ Exit \/ Activate

Spec == Init /\ [][Next]_vars

\* The operating system runs the threads, a request to the cloud ends, select()
\* reports what waits, and systemd starts the service when it is needed.
FairSpec ==
    /\ Spec
    /\ \A c \in Clients : WF_vars(Serve(c)) /\ WF_vars(Accept(c))
    /\ WF_vars(Exit) /\ WF_vars(Activate)

-----------------------------------------------------------------------------
(* Safety.                                                                 *)

\* The n-th answer a client reads is that to its n-th request, and what it
\* answers was put together from that request alone: whatever is cut off, cannot
\* be parsed or raises, the stream of answers never shifts.
AnswersInOrder == \A c \in Clients : \A i \in DOMAIN out[c] : out[c][i].to = i

\* Of a request it understands the program says yes only if the cloud did, and
\* Postfix gets the 500 that bounces a mail only if the cloud said no, the 400 that
\* has it try again only if the cloud said neither (doc/Protocol.md:46).  There are
\* two exceptions, which the formula names: ejabberd has 1 for any request of a
\* roster, even if the cloud is out of reach, since str(None) is true
\* (authops.py:186-187); and what Postfix sends that is no request gets 500 from
\* postfix_io.py:24, though nobody has said that there is no such user and
\* doc/Protocol.md:46 has 400 for a problem processing the request.
AnswersTruthful ==
    \A c \in Clients : \A i \in DOMAIN out[c] :
        LET a == out[c][i] IN
        /\ a.answer \in {"1", "OK", "200"} =>
              a.cloud = "yes" \/ (a.answer = "1" /\ a.op = "roster")
        /\ a.answer = "500" => a.cloud = "no" \/ a.op = "other"
        /\ a.answer = "400" => a.cloud = "trouble"

\* Of the connections a thread has left behind by an exception all are closed
\* but the last that was accepted: they do not pile up.
OnlyLastHangs == \A c \in Clients : conn[c] = "hung" => held = c

-----------------------------------------------------------------------------
(* Liveness.                                                               *)

\* A client learns what becomes of each request: an answer, or the end of the
\* connection - except for the connection accepted last, if its thread raises.
RequestSettled ==
    \A c \in Clients : \A n \in 1 .. MaxRequests[c] :
        (conn[c] = "served" /\ Sent(c) >= n)
            ~> (Len(out[c]) >= n \/ conn[c] # "served" \/ eof[c])

\* When trouble is over and clients close their connections in the end, each
\* that waits is accepted, even if the main thread has died - the process ends
\* with its last thread and is started again - unless its socket was dropped.
AcceptedInTheEnd ==
    (/\ <>[][~Trouble]_vars
     /\ \A c \in Clients : []<>(eof[c] \/ conn[c] \notin {"served", "hung"})) =>
        \A c \in Clients :
            (conn[c] = "waiting")
                ~> (conn[c] # "waiting" \/ (main = "running" /\ fd[c] \notin listeners))
=============================================================================
