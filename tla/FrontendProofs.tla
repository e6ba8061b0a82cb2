--------------------------- MODULE FrontendProofs ---------------------------
(* What Frontend guarantees for any number of connections, requests and     *)
(* sockets, whatever their names.                                           *)
EXTENDS Frontend, TLAPS

\* Where the thread of c is, measured by the answers it has given.
Progress(c) ==
    LET t == thread[c]
        n == Len(out[c])
        busy == t.at \in {"perform", "write"}
    IN /\ Proto(c) # "saslauthd" => t.pos = IF busy THEN n + 1 ELSE n
       /\ Proto(c) = "saslauthd" =>
             /\ t.pos = 4 * (IF busy THEN n + 1 ELSE n) + t.field_no
             /\ busy => t.field_no = 0
             /\ \A i \in 1 .. 4 : i <= t.field_no => t.fields[i] = n + 1
       /\ busy => /\ t.data.to = n + 1 /\ t.data.op # "none"
                  /\ Proto(c) = "postfix" => t.data.op = "isuser"
       /\ t.at = "write" => t.cloud \in Results(t.data.op)

InStep ==
    \A c \in Clients : /\ conn[c] = "waiting" => out[c] = <<>>
                       /\ conn[c] = "served" => Progress(c)

IInv == TypeOK /\ InStep /\ AnswersInOrder /\ AnswersTruthful /\ OnlyLastHangs

-----------------------------------------------------------------------------
(* Operators.                                                              *)

\* Every listener has a protocol.
LEMMA Protocols == \A f \in Fds : ProtoOf(f) \in IoClasses
BY FrontendAssumption DEF ProtoOf, IoClasses

LEMMA SomeUnits ==
    /\ "cut" \in AllUnits /\ "field" \in AllUnits
    /\ \A proto \in IoClasses : Units(proto) \subseteq AllUnits
    /\ \A proto \in IoClasses : "field" \in Units(proto) => proto = "saslauthd"
BY DEF AllUnits, Units, IoClasses

LEMMA Typed == Ended \in Threads /\ Started \in Threads
BY DEF Ended, Started, NoData, Threads, Operations, CloudSays

-----------------------------------------------------------------------------
(* Types.                                                                  *)

LEMMA TypeInit == Init => TypeOK
<1> SUFFICES ASSUME Init PROVE TypeOK
    OBVIOUS
<1>1. 1 \in Fds
    BY FrontendAssumption DEF Fds
<1>2. QED
    BY <1>1, Typed DEF Init, TypeOK, Ended

\* A thread that goes on.
LEMMA TypeBecomes ==
    ASSUME TypeOK, NEW c \in Clients, NEW t \in Threads, conn[c] = "served",
           t.at # "ended", t.pos \in 0 .. Len(stream[c]), Becomes(c, t), Others,
           out' \in [Clients -> Seq(Answers)]
    PROVE  TypeOK'
BY DEF TypeOK, Becomes, Others, SameMain

\* A thread that ends.
LEMMA TypeStop ==
    ASSUME TypeOK, NEW c \in Clients, Stop(c) \/ Raise(c)
    PROVE  TypeOK'
<1>1. PICK cc \in {"closed", "hung"} : conn' = [conn EXCEPT ![c] = cc]
    BY DEF Stop, Raise
<1>2. thread' = [thread EXCEPT ![c] = Ended] /\ UNCHANGED <<out, fd, eof, stream, main, listeners, held>>
    BY DEF Stop, Raise, Others, SameMain
<1>3. Ended.at = "ended"
    BY DEF Ended
<1>4. /\ conn' \in [Clients -> {"closed", "waiting", "served", "hung"}]
      /\ thread' \in [Clients -> Threads]
    BY <1>1, <1>2, Typed DEF TypeOK
<1>5. \A d \in Clients : (thread'[d].at = "ended" <=> conn'[d] # "served")
                         /\ (conn'[d] = "served" => conn[d] = "served" /\ thread'[d] = thread[d])
    BY <1>1, <1>2, <1>3 DEF TypeOK
<1>6. QED
    BY <1>2, <1>4, <1>5 DEF TypeOK

LEMMA TypeClient ==
    ASSUME TypeOK, NEW c \in Clients, Client(c)
    PROVE  TypeOK'
<1> USE DEF TypeOK, SameMain
<1>1. ASSUME NEW f \in Fds, Connect(c, f) PROVE TypeOK'
    BY <1>1 DEF Connect
<1>2. ASSUME NEW u \in Units(Proto(c)), Send(c, u) PROVE TypeOK'
    <2> DEFINE sent == IF u = "field" THEN <<u, u, u, u>> ELSE <<u>>
    <2>1. u \in AllUnits
        BY Protocols, SomeUnits DEF Proto
    <2>2. sent \in Seq(AllUnits) /\ Len(sent) \in Nat
        BY <2>1
    <2>3. stream[c] \o sent \in Seq(AllUnits) /\ Len(stream[c] \o sent) = Len(stream[c]) + Len(sent)
        BY <2>2
    <2> HIDE DEF sent
    <2>4. stream' = [stream EXCEPT ![c] = @ \o sent] /\ UNCHANGED <<fd, conn, eof, out, thread, main, listeners, held>>
        BY <1>2 DEF Send, sent
    <2>5. stream' \in [Clients -> Seq(AllUnits)] /\ \A d \in Clients : Len(stream[d]) <= Len(stream'[d])
        BY <2>2, <2>3, <2>4
    <2>6. QED
        BY <2>4, <2>5
<1>3. ASSUME Close(c) PROVE TypeOK'
    <2>1. PICK rest \in {<<>>, IF Proto(c) = "saslauthd" THEN <<"field", "field">> ELSE <<"cut">>} :
              stream' = [stream EXCEPT ![c] = @ \o rest]
        BY <1>3 DEF Close
    <2>2. rest \in Seq(AllUnits) /\ Len(rest) \in Nat
        <3>1. CASE rest = <<>>
            BY <3>1
        <3>2. CASE rest = <<"field", "field">>
            BY <3>2, SomeUnits
        <3>3. CASE rest = <<"cut">>
            BY <3>3, SomeUnits
        <3>4. QED
            BY <3>1, <3>2, <3>3
    <2>3. stream[c] \o rest \in Seq(AllUnits) /\ Len(stream[c] \o rest) = Len(stream[c]) + Len(rest)
        BY <2>2
    <2>4. stream' \in [Clients -> Seq(AllUnits)] /\ \A d \in Clients : Len(stream[d]) <= Len(stream'[d])
        BY <2>1, <2>2, <2>3
    <2>5. eof' \in [Clients -> BOOLEAN] /\ UNCHANGED <<fd, conn, out, thread, main, listeners, held>>
        BY <1>3 DEF Close
    <2>6. QED
        BY <2>4, <2>5
<1>4. QED
    BY <1>1, <1>2, <1>3 DEF Client

LEMMA TypeMain ==
    ASSUME TypeOK,
           \/ \E c \in Clients : Accept(c)
           \/ Trouble \/ Exit \/ Activate
    PROVE  TypeOK'
<1> USE DEF TypeOK, SameClients
<1>0. /\ Released \in [Clients -> {"closed", "waiting", "served", "hung"}]
      /\ \A c \in Clients : Released[c] = "served" <=> conn[c] = "served"
    BY DEF Released
<1>1. ASSUME NEW c \in Clients, Accept(c) PROVE TypeOK'
    <2>1. Started.at = "read" /\ Started.pos = 0
        BY DEF Started, Ended
    <2>2. QED
        BY <1>0, <1>1, <2>1, Typed DEF Accept, Pending
<1>2. ASSUME NEW c \in Clients, AcceptRaises(c) PROVE TypeOK'
    BY <1>2 DEF AcceptRaises
<1>3. ASSUME NEW c \in Clients, StartRaises(c) PROVE TypeOK'
    BY <1>0, <1>3 DEF StartRaises, Pending
<1>4. ASSUME NEW f \in Fds, Drop(f) PROVE TypeOK'
    BY <1>0, <1>4 DEF Drop
<1>5. ASSUME Gone PROVE TypeOK'
    <2>1. Ended.at = "ended"
        BY DEF Ended
    <2>2. QED
        BY <1>5, <2>1, Typed DEF Gone
<1>6. ASSUME Activate PROVE TypeOK'
    BY <1>6 DEF Activate
<1>7. QED
    BY <1>1, <1>2, <1>3, <1>4, <1>5, <1>6 DEF Trouble, Kill, Exit

\* What is answered is an answer of the protocol.
LEMMA TypeAnswer ==
    ASSUME NEW proto \in IoClasses, NEW op \in Operations, NEW r \in CloudSays
    PROVE  Answer(proto, success(op, r)) \in {"1", "0", "text", "OK", "NO", "200", "400", "500"}
BY DEF Answer, success, isuser, Boolean, IoClasses, Operations, CloudSays

LEMMA TypeServe ==
    ASSUME TypeOK, NEW c \in Clients, Serve(c)
    PROVE  TypeOK'
<1> DEFINE t == thread[c]
<1>1. /\ t \in Threads /\ stream[c] \in Seq(AllUnits) /\ out[c] \in Seq(Answers)
      /\ t.at # "ended" => conn[c] = "served" /\ t.pos \in 0 .. Len(stream[c])
      /\ t.at = "ended" => conn[c] # "served"
    BY DEF TypeOK
<1>0. /\ t.pos \in Nat /\ t.pos + 1 \in Nat /\ Len(stream[c]) \in Nat
      /\ t.fields \in [1 .. 4 -> Nat] /\ t.field_no \in 0 .. 3
    BY <1>1 DEF Threads
<1>2. out \in [Clients -> Seq(Answers)]
    BY DEF TypeOK
<1>3. Proto(c) \in IoClasses
    BY Protocols DEF Proto, TypeOK
<1>4. ASSUME NEW op \in {"auth", "isuser", "roster", "other"}, ReadRequest(c, op) PROVE TypeOK'
    <2> DEFINE u == [t EXCEPT !.at = "perform", !.pos = @ + 1, !.data = [to |-> t.pos + 1, op |-> op]]
    <2>1. t.pos + 1 \in 1 .. Len(stream[c]) /\ conn[c] = "served"
        BY <1>1, <1>4 DEF ReadRequest, More, At
    <2>2. u \in Threads /\ u.at = "perform" /\ u.pos = t.pos + 1
        BY <1>0, <1>1 DEF Threads, Operations
    <2>3. Becomes(c, u) /\ UNCHANGED out /\ Others
        BY <1>4 DEF ReadRequest
    <2> HIDE DEF u
    <2>4. QED
        BY <1>2, <2>1, <2>2, <2>3, TypeBecomes
<1>5. ASSUME ReadField(c) PROVE TypeOK'
    <2> DEFINE f == [t.fields EXCEPT ![t.field_no + 1] = RequestOf(c, t.pos + 1)]
               n == NextField(t.field_no)
               u == [t EXCEPT !.fields = f, !.field_no = n, !.pos = @ + 1]
               v == IF n # 0 THEN u ELSE [u EXCEPT !.at = "perform",
                                                  !.data = [to |-> OneRequest(f), op |-> "auth"]]
    <2>1. t.at = "read" /\ t.pos + 1 \in 1 .. Len(stream[c]) /\ conn[c] = "served"
        BY <1>1, <1>5 DEF ReadField, More, At
    <2>2. RequestOf(c, t.pos + 1) \in Nat
        BY <1>0 DEF RequestOf
    <2>3. f \in [1 .. 4 -> Nat] /\ n \in 0 .. 3
        BY <1>1, <2>2 DEF Threads, NextField
    <2> HIDE DEF f, n
    <2>4. u \in Threads /\ u.at = "read" /\ u.pos = t.pos + 1
        BY <1>0, <1>1, <2>1, <2>3 DEF Threads
    <2>5. OneRequest(f) \in Nat
        BY <2>3 DEF OneRequest
    <2>6. v \in Threads /\ v.at # "ended" /\ v.pos = t.pos + 1
        BY <2>4, <2>5 DEF Threads, Operations
    <2>7. Becomes(c, v) /\ UNCHANGED out /\ Others
        BY <1>5 DEF ReadField, f, n
    <2> HIDE DEF v
    <2>8. QED
        BY <1>2, <2>1, <2>6, <2>7, TypeBecomes
<1>6. ASSUME ReadIllegal(c) PROVE TypeOK'
    <2> DEFINE u == [t EXCEPT !.pos = @ + 1]
               a == [to |-> t.pos + 1, op |-> "other", cloud |-> "none", answer |-> "500"]
    <2>1. t.at = "read" /\ t.pos + 1 \in 1 .. Len(stream[c]) /\ conn[c] = "served"
        BY <1>1, <1>6 DEF ReadIllegal, Illegal, More, At
    <2>2. u \in Threads /\ u.at = "read" /\ u.pos = t.pos + 1
        BY <1>0, <1>1, <2>1 DEF Threads
    <2>3. a \in Answers
        BY <2>1 DEF Answers, Operations, CloudSays
    <2>4. out' = [out EXCEPT ![c] = Append(@, a)] /\ Becomes(c, u) /\ Others
        BY <1>6 DEF ReadIllegal
    <2> HIDE DEF u, a
    <2>5. out' \in [Clients -> Seq(Answers)]
        BY <1>2, <2>3, <2>4
    <2>6. QED
        BY <2>1, <2>2, <2>4, <2>5, TypeBecomes
<1>7. ASSUME Perform(c) PROVE TypeOK'
    <2>1. PICK r \in Results(t.data.op) : Becomes(c, [t EXCEPT !.at = "write", !.cloud = r])
        BY <1>7 DEF Perform
    <2> DEFINE u == [t EXCEPT !.at = "write", !.cloud = r]
    <2>2. r \in CloudSays
        BY <2>1 DEF Results, CloudSays
    <2>3. u \in Threads /\ u.at = "write" /\ u.pos = t.pos /\ t.at = "perform"
        BY <1>1, <1>7, <2>2 DEF Threads, Perform, At
    <2>4. Becomes(c, u) /\ UNCHANGED out /\ Others
        BY <1>7, <2>1 DEF Perform
    <2> HIDE DEF u
    <2>5. QED
        BY <1>1, <1>2, <2>3, <2>4, TypeBecomes
<1>8. ASSUME Write(c) PROVE TypeOK'
    <2> DEFINE u == [t EXCEPT !.at = "read", !.data = NoData, !.cloud = "none"]
               a == [to |-> t.data.to, op |-> t.data.op, cloud |-> t.cloud,
                     answer |-> Answer(Proto(c), success(t.data.op, t.cloud))]
    <2>1. t.at = "write"
        BY <1>8 DEF Write, At
    <2>2. u \in Threads /\ u.at = "read" /\ u.pos = t.pos
        BY <1>1 DEF Threads, NoData, Operations, CloudSays
    <2>3. t.data.to \in Nat /\ t.data.op \in Operations /\ t.cloud \in CloudSays
        BY <1>1 DEF Threads
    <2>4. a \in Answers
        BY <1>3, <2>3, TypeAnswer DEF Answers
    <2>5. out' = [out EXCEPT ![c] = Append(@, a)] /\ Becomes(c, u) /\ Others
        BY <1>8 DEF Write
    <2> HIDE DEF u, a
    <2>6. out' \in [Clients -> Seq(Answers)]
        BY <1>2, <2>4, <2>5
    <2>7. QED
        BY <1>1, <2>1, <2>2, <2>5, <2>6, TypeBecomes
<1>9. ASSUME Stop(c) \/ Raise(c) PROVE TypeOK'
    BY <1>9, TypeStop
<1>10. QED
    BY <1>4, <1>5, <1>6, <1>7, <1>8, <1>9
    DEF Serve, ReadEnd, ReadEof, ReadRaises, PerformRaises, WriteRaises

LEMMA TypeNext == TypeOK /\ [Next]_vars => TypeOK'
<1> SUFFICES ASSUME TypeOK, [Next]_vars PROVE TypeOK'
    OBVIOUS
<1>1. CASE Next
    BY <1>1, TypeClient, TypeServe, TypeMain DEF Next
<1>2. CASE UNCHANGED vars
    BY <1>2 DEF TypeOK, vars
<1>3. QED
    BY <1>1, <1>2

\* Every reachable state is well typed, for any connections, requests and
\* sockets; a thread and an open connection belong together.
THEOREM TypeCorrect == Spec => []TypeOK
BY TypeInit, TypeNext, PTL DEF Spec

-----------------------------------------------------------------------------
(* Answers.                                                                *)

\* True of an answer: see AnswersTruthful.
Truthful(a) ==
    /\ a.answer \in {"1", "OK", "200"} =>
          a.cloud = "yes" \/ (a.answer = "1" /\ a.op = "roster")
    /\ a.answer = "500" => a.cloud = "no" \/ a.op = "other"
    /\ a.answer = "400" => a.cloud = "trouble"

LEMMA AnswerIsTruthful ==
    ASSUME NEW proto \in IoClasses, NEW op \in Operations \ {"none"}, NEW r \in Results(op),
           proto = "postfix" => op = "isuser"
    PROVE  LET s == Answer(proto, success(op, r)) IN
           /\ s \in {"1", "OK", "200"} => r = "yes" \/ (s = "1" /\ op = "roster")
           /\ s = "500" => r = "no" \/ op = "other"
           /\ s = "400" => r = "trouble"
<1>1. CASE op = "isuser"
    BY <1>1 DEF Answer, success, isuser, Boolean, IoClasses, Results
<1>2. CASE op = "auth"
    BY <1>2 DEF Answer, success, Boolean, IoClasses, Results
<1>3. CASE op \in {"roster", "other"}
    BY <1>3 DEF Answer, success, Boolean, IoClasses, Results
<1>4. QED
    BY <1>1, <1>2, <1>3 DEF Operations

LEMMA InvInit == Init => IInv
<1> SUFFICES ASSUME Init PROVE IInv
    OBVIOUS
<1>1. \A c \in Clients : conn[c] = "closed" /\ out[c] = <<>>
    BY DEF Init
<1>2. QED
    BY <1>1, TypeInit DEF IInv, InStep, AnswersInOrder, AnswersTruthful, OnlyLastHangs

\* A step in which nothing is answered and no thread goes on.
LEMMA NothingAnswered ==
    ASSUME IInv, UNCHANGED <<fd, out>>,
           \A c \in Clients : /\ conn'[c] = "waiting" => conn[c] = "waiting"
                              /\ conn'[c] = "served" => conn[c] = "served" /\ thread'[c] = thread[c]
    PROVE  InStep' /\ AnswersInOrder' /\ AnswersTruthful'
<1>1. \A c \in Clients : conn'[c] = "served" => (Progress(c) => Progress(c)')
    BY DEF Progress, Proto
<1>2. QED
    BY <1>1 DEF IInv, InStep, AnswersInOrder, AnswersTruthful

\* A step of a thread that goes on and answers nothing.
LEMMA GoesOn ==
    ASSUME IInv, NEW c \in Clients, NEW t, conn[c] = "served",
           Becomes(c, t), Others, UNCHANGED out, Progress(c)'
    PROVE  InStep' /\ AnswersInOrder' /\ AnswersTruthful' /\ OnlyLastHangs'
<1>1. /\ UNCHANGED <<conn, fd, out, held>>
      /\ \A d \in Clients \ {c} : thread'[d] = thread[d]
    BY DEF IInv, TypeOK, Becomes, Others, SameMain
<1>2. \A d \in Clients \ {c} : Progress(d) => Progress(d)'
    BY <1>1 DEF Progress, Proto
<1>3. QED
    BY <1>1, <1>2 DEF IInv, InStep, AnswersInOrder, AnswersTruthful, OnlyLastHangs

\* A step of a thread that answers.
LEMMA GivesAnswer ==
    ASSUME IInv, NEW c \in Clients, NEW t, conn[c] = "served", NEW a \in Answers,
           Becomes(c, t), Others, out' = [out EXCEPT ![c] = Append(@, a)],
           a.to = Len(out[c]) + 1, Truthful(a), Progress(c)'
    PROVE  InStep' /\ AnswersInOrder' /\ AnswersTruthful' /\ OnlyLastHangs'
<1>1. /\ UNCHANGED <<conn, fd, held>>
      /\ \A d \in Clients \ {c} : thread'[d] = thread[d] /\ out'[d] = out[d]
      /\ out'[c] = Append(out[c], a) /\ out[c] \in Seq(Answers)
    BY DEF IInv, TypeOK, Becomes, Others, SameMain
<1>2. \A d \in Clients \ {c} : Progress(d) => Progress(d)'
    BY <1>1 DEF Progress, Proto
<1>3. InStep' /\ OnlyLastHangs'
    BY <1>1, <1>2 DEF IInv, InStep, OnlyLastHangs
<1>4. /\ DOMAIN out'[c] = 1 .. Len(out[c]) + 1 /\ DOMAIN out[c] = 1 .. Len(out[c])
      /\ Len(out[c]) \in Nat
      /\ out'[c][Len(out[c]) + 1] = a
      /\ \A i \in 1 .. Len(out[c]) : out'[c][i] = out[c][i]
    BY <1>1
<1>5. \A i \in DOMAIN out'[c] : i = Len(out[c]) + 1 \/ i \in DOMAIN out[c]
    BY <1>4
<1>6. \A i \in DOMAIN out'[c] : out'[c][i].to = i /\ Truthful(out'[c][i])
    BY <1>4, <1>5 DEF IInv, AnswersInOrder, AnswersTruthful, Truthful
<1>7. \A d \in Clients : \A i \in DOMAIN out'[d] : out'[d][i].to = i /\ Truthful(out'[d][i])
    BY <1>1, <1>6 DEF IInv, AnswersInOrder, AnswersTruthful, Truthful
<1>8. QED
    BY <1>3, <1>7 DEF AnswersInOrder, AnswersTruthful, Truthful

\* What a thread that reads or works has to do with its stream.
LEMMA Local ==
    ASSUME IInv, NEW c \in Clients, thread[c].at # "ended"
    PROVE  /\ conn[c] = "served" /\ Progress(c) /\ Proto(c) \in IoClasses
           /\ thread \in [Clients -> Threads] /\ out \in [Clients -> Seq(Answers)]
           /\ thread[c] \in Threads /\ Len(out[c]) \in Nat
           /\ thread[c].pos \in Nat /\ thread[c].pos + 1 \in Nat
           /\ thread[c].fields \in [1 .. 4 -> Nat] /\ thread[c].field_no \in 0 .. 3
<1>1. thread[c] \in Threads /\ out[c] \in Seq(Answers) /\ conn[c] = "served"
    BY DEF IInv, TypeOK
<1>2. /\ thread[c].pos \in Nat /\ thread[c].pos + 1 \in Nat
      /\ thread[c].fields \in [1 .. 4 -> Nat] /\ thread[c].field_no \in 0 .. 3
    BY <1>1 DEF Threads
<1>3. Len(out[c]) \in Nat
    BY <1>1
<1>4. Proto(c) \in IoClasses
    BY Protocols DEF IInv, TypeOK, Proto
<1>5. Progress(c)
    BY <1>1 DEF IInv, InStep
<1>6. QED
    BY <1>1, <1>2, <1>3, <1>4, <1>5 DEF IInv, TypeOK

LEMMA Quotient == \A n \in Nat, r \in 0 .. 3 : (4 * n + r) \div 4 = n
OBVIOUS

\* One more field of the request m is filled.
LEMMA FieldFilled ==
    ASSUME NEW fields \in [1 .. 4 -> Nat], NEW k \in 0 .. 3, NEW m \in Nat,
           \A i \in 1 .. 4 : i <= k => fields[i] = m
    PROVE  /\ [fields EXCEPT ![k + 1] = m] \in [1 .. 4 -> Nat]
           /\ \A i \in 1 .. 4 : i <= k + 1 => [fields EXCEPT ![k + 1] = m][i] = m
<1>1. k + 1 \in 1 .. 4
    OBVIOUS
<1>2. [fields EXCEPT ![k + 1] = m] \in [1 .. 4 -> Nat]
    BY <1>1
<1>3. ASSUME NEW i \in 1 .. 4, i <= k + 1
      PROVE  [fields EXCEPT ![k + 1] = m][i] = m
    <2>1. CASE i = k + 1
        BY <1>1, <2>1
    <2>2. CASE i # k + 1
        <3>1. i <= k
            BY <1>3, <2>2
        <3>2. QED
            BY <2>2, <3>1
    <2>3. QED
        BY <2>1, <2>2
<1>4. QED
    BY <1>2, <1>3

LEMMA ReadsInStep ==
    ASSUME IInv, NEW c \in Clients,
           (\E op \in {"auth", "isuser", "roster", "other"} : ReadRequest(c, op)) \/ ReadField(c)
    PROVE  InStep' /\ AnswersInOrder' /\ AnswersTruthful' /\ OnlyLastHangs'
<1> DEFINE t == thread[c]
           n == Len(out[c])
<1>1. t.at = "read"
    BY DEF ReadRequest, ReadField, More, At
<1>2. ASSUME NEW op \in {"auth", "isuser", "roster", "other"}, ReadRequest(c, op)
      PROVE  InStep' /\ AnswersInOrder' /\ AnswersTruthful' /\ OnlyLastHangs'
    <2> DEFINE u == [t EXCEPT !.at = "perform", !.pos = @ + 1, !.data = [to |-> t.pos + 1, op |-> op]]
    <2>1. Becomes(c, u) /\ UNCHANGED out /\ Others /\ op \in Ops(Proto(c))
        BY <1>2 DEF ReadRequest
    <2>2. Proto(c) # "saslauthd" /\ (Proto(c) = "postfix" => op = "isuser")
        BY <1>1, <2>1, Local DEF Ops, Units
    <2>3. t.pos = n
        BY <1>1, <2>2, Local DEF Progress
    <2>4. u.at = "perform" /\ u.pos = n + 1 /\ u.data.to = n + 1 /\ u.data.op = op
        BY <1>1, <2>3, Local DEF Threads
    <2> HIDE DEF u
    <2>5. thread'[c] = u /\ UNCHANGED <<out, fd>>
        BY <1>1, <2>1, Local DEF Becomes, Others
    <2>6. Progress(c)'
        BY <2>2, <2>4, <2>5 DEF Progress, Proto
    <2>7. QED
        BY <1>1, <2>1, <2>6, Local, GoesOn
<1>3. ASSUME ReadField(c)
      PROVE  InStep' /\ AnswersInOrder' /\ AnswersTruthful' /\ OnlyLastHangs'
    <2> DEFINE f == [t.fields EXCEPT ![t.field_no + 1] = RequestOf(c, t.pos + 1)]
               m == NextField(t.field_no)
               u == [t EXCEPT !.fields = f, !.field_no = m, !.pos = @ + 1]
               v == IF m # 0 THEN u ELSE [u EXCEPT !.at = "perform",
                                                  !.data = [to |-> OneRequest(f), op |-> "auth"]]
    <2>1. Becomes(c, v) /\ UNCHANGED out /\ Others
        BY <1>3 DEF ReadField
    <2>2. Proto(c) = "saslauthd"
        BY <1>3 DEF ReadField
    <2>3. t.pos = 4 * n + t.field_no /\ \A i \in 1 .. 4 : i <= t.field_no => t.fields[i] = n + 1
        BY <1>1, <2>2, Local DEF Progress
    <2>4. RequestOf(c, t.pos + 1) = n + 1
        <3>1. t.field_no \in 0 .. 3 /\ n \in Nat /\ t.pos \in Nat
            BY <1>1, Local
        <3>2. (t.pos + 1) - 1 = 4 * n + t.field_no
            BY <2>3, <3>1
        <3>3. QED
            BY <2>2, <3>1, <3>2, Quotient DEF RequestOf
    <2>5. f \in [1 .. 4 -> Nat] /\ \A i \in 1 .. 4 : i <= t.field_no + 1 => f[i] = n + 1
        <3> DEFINE F == t.fields
                   k == t.field_no
                   M == n + 1
        <3>1. F \in [1 .. 4 -> Nat] /\ k \in 0 .. 3 /\ M \in Nat
            BY <1>1, Local
        <3>2. \A i \in 1 .. 4 : i <= k => F[i] = M
            BY <2>3
        <3>3. f = [F EXCEPT ![k + 1] = M]
            BY <2>4
        <3> HIDE DEF F, k, M, f
        <3>4. f \in [1 .. 4 -> Nat] /\ \A i \in 1 .. 4 : i <= k + 1 => f[i] = M
            BY <3>1, <3>2, <3>3, FieldFilled
        <3>5. QED
            BY <3>4 DEF k, M
    <2>6. m \in 0 .. 3 /\ (t.field_no = 3 => m = 0) /\ (t.field_no # 3 => m = t.field_no + 1)
        BY <1>1, Local DEF NextField
    <2> HIDE DEF f, m
    <2>7. thread'[c] = v /\ UNCHANGED <<out, fd>>
        BY <1>1, <2>1, Local DEF Becomes, Others
    <2>8. Progress(c)'
        <3>1. CASE t.field_no = 3
            <4>1. OneRequest(f) = n + 1
                BY <2>5, <3>1 DEF OneRequest
            <4>2. v.at = "perform" /\ v.pos = t.pos + 1 /\ v.field_no = 0 /\ v.data = [to |-> n + 1, op |-> "auth"]
                BY <1>1, <2>6, <3>1, <4>1, Local DEF Threads
            <4> HIDE DEF v
            <4>3. QED
                BY <1>1, <2>2, <2>3, <2>7, <3>1, <4>2, Local DEF Progress, Proto
        <3>2. CASE t.field_no # 3
            <4>1. m # 0
                BY <1>1, <2>6, <3>2, Local
            <4>2. v.at = "read" /\ v.pos = t.pos + 1 /\ v.field_no = t.field_no + 1 /\ v.fields = f
                BY <1>1, <2>6, <3>2, <4>1, Local DEF Threads
            <4> HIDE DEF v
            <4>3. QED
                <5>1. /\ v.pos = 4 * n + v.field_no
                      /\ \A i \in 1 .. 4 : i <= v.field_no => v.fields[i] = n + 1
                    <6>1. n \in Nat /\ t.field_no \in 0 .. 3 /\ t.pos \in Nat
                        BY <1>1, Local
                    <6>2. v.pos = 4 * n + v.field_no
                        BY <2>3, <4>2, <6>1
                    <6>3. QED
                        BY <2>5, <4>2, <6>2
                <5>2. thread'[c] = v /\ Len(out'[c]) = n /\ Proto(c)' = "saslauthd"
                    BY <2>2, <2>7 DEF Proto
                <5>3. QED
                    BY <4>2, <5>1, <5>2 DEF Progress
        <3>3. QED
            BY <3>1, <3>2
    <2> HIDE DEF v
    <2>9. QED
        BY <1>1, <2>1, <2>8, Local, GoesOn
<1>4. QED
    BY <1>2, <1>3

LEMMA AnswersInStep ==
    ASSUME IInv, NEW c \in Clients, ReadIllegal(c) \/ Perform(c) \/ Write(c)
    PROVE  InStep' /\ AnswersInOrder' /\ AnswersTruthful' /\ OnlyLastHangs'
<1> DEFINE t == thread[c]
           n == Len(out[c])
<1>1. t.at # "ended"
    BY DEF ReadIllegal, Illegal, More, Perform, Write, At
<1>2. /\ conn[c] = "served" /\ Progress(c) /\ Proto(c) \in IoClasses /\ n \in Nat
      /\ thread \in [Clients -> Threads] /\ out \in [Clients -> Seq(Answers)]
      /\ t \in Threads /\ t.pos \in Nat
    BY <1>1, Local
<1>3. ASSUME ReadIllegal(c)
      PROVE  InStep' /\ AnswersInOrder' /\ AnswersTruthful' /\ OnlyLastHangs'
    <2> DEFINE u == [t EXCEPT !.pos = @ + 1]
               a == [to |-> t.pos + 1, op |-> "other", cloud |-> "none", answer |-> "500"]
    <2>1. /\ out' = [out EXCEPT ![c] = Append(@, a)] /\ Becomes(c, u) /\ Others
          /\ Proto(c) = "postfix" /\ t.at = "read"
        BY <1>3 DEF ReadIllegal, Illegal, More, At
    <2>2. t.pos = n
        BY <1>2, <2>1 DEF Progress
    <2>3. a \in Answers /\ a.to = n + 1 /\ Truthful(a)
        BY <1>2, <2>2 DEF Answers, Operations, CloudSays, Truthful
    <2>4. u.at = "read" /\ u.pos = n + 1
        BY <1>2, <2>1, <2>2 DEF Threads
    <2> HIDE DEF a, u
    <2>5. thread'[c] = u /\ Len(out'[c]) = n + 1 /\ Proto(c)' = "postfix"
        BY <1>2, <2>1, <2>3 DEF Becomes, Others, Proto
    <2>6. Progress(c)'
        BY <2>4, <2>5 DEF Progress
    <2>7. QED
        BY <1>2, <2>1, <2>3, <2>6, GivesAnswer
<1>4. ASSUME Perform(c)
      PROVE  InStep' /\ AnswersInOrder' /\ AnswersTruthful' /\ OnlyLastHangs'
    <2>1. PICK r \in Results(t.data.op) : Becomes(c, [t EXCEPT !.at = "write", !.cloud = r])
        BY <1>4 DEF Perform
    <2> DEFINE u == [t EXCEPT !.at = "write", !.cloud = r]
    <2>2. UNCHANGED out /\ Others /\ t.at = "perform"
        BY <1>4 DEF Perform, At
    <2>3. /\ u.at = "write" /\ u.cloud = r /\ u.data = t.data /\ u.pos = t.pos
          /\ u.field_no = t.field_no /\ u.fields = t.fields
        BY <1>2 DEF Threads
    <2> HIDE DEF u
    <2>4. thread'[c] = u /\ UNCHANGED <<out, fd>>
        BY <1>2, <2>1, <2>2 DEF Becomes, Others, u
    <2>5. Progress(c)'
        BY <1>2, <2>1, <2>2, <2>3, <2>4 DEF Progress, Proto
    <2>6. Becomes(c, u)
        BY <2>1 DEF u
    <2>7. QED
        BY <1>2, <2>2, <2>5, <2>6, GoesOn
<1>5. ASSUME Write(c)
      PROVE  InStep' /\ AnswersInOrder' /\ AnswersTruthful' /\ OnlyLastHangs'
    <2> DEFINE u == [t EXCEPT !.at = "read", !.data = NoData, !.cloud = "none"]
               s == Answer(Proto(c), success(t.data.op, t.cloud))
               a == [to |-> t.data.to, op |-> t.data.op, cloud |-> t.cloud, answer |-> s]
    <2>1. out' = [out EXCEPT ![c] = Append(@, a)] /\ Becomes(c, u) /\ Others /\ t.at = "write"
        BY <1>5 DEF Write, At
    <2>2. /\ t.data.to = n + 1 /\ t.data.op \in Operations \ {"none"}
          /\ t.cloud \in Results(t.data.op) /\ t.cloud \in CloudSays
          /\ Proto(c) = "postfix" => t.data.op = "isuser"
        BY <1>2, <2>1 DEF Progress, Threads
    <2>3. s \in {"1", "0", "text", "OK", "NO", "200", "400", "500"}
        BY <1>2, <2>2, TypeAnswer
    <2>4. /\ s \in {"1", "OK", "200"} => t.cloud = "yes" \/ (s = "1" /\ t.data.op = "roster")
          /\ s = "500" => t.cloud = "no" \/ t.data.op = "other"
          /\ s = "400" => t.cloud = "trouble"
        BY <1>2, <2>2, AnswerIsTruthful
    <2> HIDE DEF s
    <2>5. a \in Answers /\ a.to = n + 1 /\ Truthful(a)
        BY <1>2, <2>2, <2>3, <2>4 DEF Answers, Truthful
    <2>6. u.at = "read" /\ u.pos = t.pos /\ u.field_no = t.field_no /\ u.fields = t.fields
        BY <1>2 DEF Threads
    <2> HIDE DEF a, u
    <2>7. thread'[c] = u /\ Len(out'[c]) = n + 1 /\ Proto(c)' = Proto(c)
        BY <1>2, <2>1, <2>5 DEF Becomes, Others, Proto
    <2>8. Progress(c)'
        <3>1. CASE Proto(c) # "saslauthd"
            BY <1>2, <2>1, <2>6, <2>7, <3>1 DEF Progress
        <3>2. CASE Proto(c) = "saslauthd"
            <4>1. t.pos = 4 * (n + 1) + t.field_no /\ t.field_no = 0
                BY <1>2, <2>1, <3>2 DEF Progress
            <4>2. QED
                BY <1>2, <2>6, <2>7, <3>2, <4>1 DEF Progress
        <3>3. QED
            BY <3>1, <3>2
    <2>9. QED
        BY <1>2, <2>1, <2>5, <2>8, GivesAnswer
<1>6. QED
    BY <1>3, <1>4, <1>5

LEMMA EndsInStep ==
    ASSUME IInv, NEW c \in Clients, Stop(c) \/ Raise(c)
    PROVE  InStep' /\ AnswersInOrder' /\ AnswersTruthful' /\ OnlyLastHangs'
<1>1. PICK cc \in {"closed", "hung"} : conn' = [conn EXCEPT ![c] = cc] /\ (cc = "hung" => held = c)
    BY DEF Stop, Raise
<1>2. thread' = [thread EXCEPT ![c] = Ended] /\ UNCHANGED <<fd, out, held>>
    BY DEF Stop, Raise, Others, SameMain
<1>3. \A d \in Clients \ {c} : conn'[d] = conn[d] /\ thread'[d] = thread[d]
    BY <1>1, <1>2 DEF IInv, TypeOK
<1>4. conn'[c] = cc
    BY <1>1 DEF IInv, TypeOK
<1>5. OnlyLastHangs'
    BY <1>1, <1>2, <1>3, <1>4 DEF IInv, OnlyLastHangs
<1>6. QED
    BY <1>2, <1>3, <1>4, <1>5, NothingAnswered

LEMMA ConnectInStep ==
    ASSUME IInv, NEW c \in Clients, NEW f \in Fds, Connect(c, f)
    PROVE  InStep' /\ AnswersInOrder' /\ AnswersTruthful' /\ OnlyLastHangs'
<1>1. /\ conn'[c] = "waiting" /\ out'[c] = <<>> /\ UNCHANGED <<thread, held>>
      /\ \A d \in Clients \ {c} : conn'[d] = conn[d] /\ out'[d] = out[d] /\ fd'[d] = fd[d]
    BY DEF Connect, SameMain, IInv, TypeOK
<1>2. \A d \in Clients \ {c} : Progress(d) => Progress(d)'
    BY <1>1 DEF Progress, Proto
<1>3. QED
    BY <1>1, <1>2 DEF IInv, InStep, AnswersInOrder, AnswersTruthful, OnlyLastHangs

LEMMA AcceptInStep ==
    ASSUME IInv, NEW c \in Clients, Accept(c)
    PROVE  InStep' /\ AnswersInOrder' /\ AnswersTruthful' /\ OnlyLastHangs'
<1>1. /\ conn[c] = "waiting" /\ held' = c /\ UNCHANGED <<fd, out>>
      /\ conn' = [Released EXCEPT ![c] = "served"]
      /\ thread' = [thread EXCEPT ![c] = Started]
    BY DEF Accept, Pending, SameClients
<1>2. /\ conn'[c] = "served" /\ thread'[c] = Started
      /\ \A d \in Clients \ {c} : thread'[d] = thread[d] /\ conn'[d] = Released[d]
    BY <1>1 DEF Released, IInv, TypeOK
<1>3. \A d \in Clients : /\ Released[d] # "hung"
                         /\ Released[d] \in {"waiting", "served"} => conn[d] = Released[d]
    BY DEF Released
<1>4. OnlyLastHangs'
    BY <1>2, <1>3 DEF OnlyLastHangs
<1>5. /\ Started.at = "read" /\ Started.pos = 0 /\ Started.field_no = 0
      /\ out'[c] = <<>> /\ Len(out'[c]) = 0
    BY <1>1 DEF Started, Ended, IInv, InStep
<1>6. Progress(c)'
    BY <1>2, <1>5 DEF Progress
<1>7. \A d \in Clients \ {c} : Progress(d) => Progress(d)'
    BY <1>1, <1>2 DEF Progress, Proto
<1>8. QED
    BY <1>1, <1>2, <1>3, <1>4, <1>6, <1>7 DEF IInv, InStep, AnswersInOrder, AnswersTruthful

LEMMA MainInStep ==
    ASSUME IInv, Trouble \/ Exit \/ Activate
    PROVE  InStep' /\ AnswersInOrder' /\ AnswersTruthful' /\ OnlyLastHangs'
<1>0. \A d \in Clients : /\ Released[d] # "hung"
                         /\ Released[d] \in {"waiting", "served"} => conn[d] = Released[d]
    BY DEF Released
<1>1. ASSUME NEW c \in Clients, AcceptRaises(c)
      PROVE  InStep' /\ AnswersInOrder' /\ AnswersTruthful' /\ OnlyLastHangs'
    <2>1. UNCHANGED <<held, conn, thread, fd, out>>
        BY <1>1 DEF AcceptRaises, SameClients
    <2>2. OnlyLastHangs'
        BY <2>1 DEF IInv, OnlyLastHangs
    <2>3. QED
        BY <2>1, <2>2, NothingAnswered
<1>2. ASSUME NEW c \in Clients, StartRaises(c)
      PROVE  InStep' /\ AnswersInOrder' /\ AnswersTruthful' /\ OnlyLastHangs'
    <2>1. UNCHANGED <<thread, fd, out>> /\ held' = c /\ conn' = [Released EXCEPT ![c] = "hung"]
        BY <1>2 DEF StartRaises, SameClients
    <2>2. conn'[c] = "hung" /\ \A d \in Clients \ {c} : conn'[d] = Released[d]
        BY <2>1 DEF Released
    <2>3. OnlyLastHangs'
        BY <1>0, <2>1, <2>2 DEF OnlyLastHangs
    <2>4. QED
        BY <1>0, <2>1, <2>2, <2>3, NothingAnswered
<1>3. ASSUME NEW f \in Fds, Drop(f)
      PROVE  InStep' /\ AnswersInOrder' /\ AnswersTruthful' /\ OnlyLastHangs'
    <2>1. UNCHANGED <<thread, fd, out>> /\ (conn' = Released \/ UNCHANGED <<held, conn>>)
        BY <1>3 DEF Drop, SameClients
    <2>2. OnlyLastHangs'
        BY <1>0, <2>1 DEF IInv, OnlyLastHangs
    <2>3. QED
        BY <1>0, <2>1, <2>2, NothingAnswered
<1>4. ASSUME Gone
      PROVE  InStep' /\ AnswersInOrder' /\ AnswersTruthful' /\ OnlyLastHangs'
    <2>1. UNCHANGED <<fd, out>> /\ \A d \in Clients : conn'[d] # "served" /\ conn'[d] # "hung"
                                                   /\ (conn'[d] = "waiting" => conn[d] = "waiting")
        BY <1>4 DEF Gone, SameClients
    <2>2. OnlyLastHangs'
        BY <2>1 DEF OnlyLastHangs
    <2>3. QED
        BY <2>1, <2>2, NothingAnswered
<1>5. ASSUME Activate
      PROVE  InStep' /\ AnswersInOrder' /\ AnswersTruthful' /\ OnlyLastHangs'
    <2>1. UNCHANGED <<held, conn, thread, fd, out>>
        BY <1>5 DEF Activate, SameClients
    <2>2. OnlyLastHangs'
        BY <2>1 DEF IInv, OnlyLastHangs
    <2>3. QED
        BY <2>1, <2>2, NothingAnswered
<1>6. QED
    BY <1>1, <1>2, <1>3, <1>4, <1>5 DEF Trouble, Kill, Exit

LEMMA ClientInStep ==
    ASSUME IInv, NEW c \in Clients, Client(c)
    PROVE  InStep' /\ AnswersInOrder' /\ AnswersTruthful' /\ OnlyLastHangs'
<1>1. ASSUME NEW u \in Units(Proto(c)), Send(c, u)
      PROVE  UNCHANGED <<held, conn, thread, fd, out>>
    BY <1>1 DEF Send, SameMain
<1>2. ASSUME Close(c)
      PROVE  UNCHANGED <<held, conn, thread, fd, out>>
    BY <1>2 DEF Close, SameMain
<1>3. ASSUME UNCHANGED <<held, conn, thread, fd, out>>
      PROVE  InStep' /\ AnswersInOrder' /\ AnswersTruthful' /\ OnlyLastHangs'
    <2>1. OnlyLastHangs'
        BY <1>3 DEF IInv, OnlyLastHangs
    <2>2. QED
        BY <1>3, <2>1, NothingAnswered
<1>4. QED
    BY <1>1, <1>2, <1>3, ConnectInStep DEF Client

LEMMA InvNext == IInv /\ [Next]_vars => IInv'
<1> SUFFICES ASSUME IInv, [Next]_vars PROVE IInv'
    OBVIOUS
<1>1. TypeOK'
    BY TypeNext DEF IInv
<1>2. ASSUME NEW c \in Clients, Serve(c)
      PROVE  InStep' /\ AnswersInOrder' /\ AnswersTruthful' /\ OnlyLastHangs'
    BY <1>2, ReadsInStep, AnswersInStep, EndsInStep
    DEF Serve, ReadEnd, ReadEof, ReadRaises, PerformRaises, WriteRaises
<1>3. CASE UNCHANGED vars
    <2>1. UNCHANGED <<held, conn, thread, fd, out>>
        BY <1>3 DEF vars
    <2>2. OnlyLastHangs'
        BY <2>1 DEF IInv, OnlyLastHangs
    <2>3. QED
        BY <1>1, <2>1, <2>2, NothingAnswered DEF IInv
<1>4. CASE Next
    BY <1>1, <1>2, <1>4, ClientInStep, AcceptInStep, MainInStep DEF Next, IInv
<1>5. QED
    BY <1>3, <1>4

LEMMA Inv == Spec => []IInv
BY InvInit, InvNext, PTL DEF Spec

\* The n-th answer is that to the n-th request, in each of the protocols, for
\* any number of pipelined requests, whatever is cut off, illegal or raises.
THEOREM AnswersKeepOrder == Spec => []AnswersInOrder
<1>1. IInv => AnswersInOrder
    BY DEF IInv
<1>2. QED
    BY <1>1, Inv, PTL

\* What is answered to a request that is understood is what the cloud said: nobody
\* is let in and no user declared missing without its word, and Postfix is told to
\* try again only without it.  It says nothing of an illegal request of Postfix,
\* which gets 500 all the same, and allows ejabberd its 1 for any roster.
THEOREM AnswersAreTruthful == Spec => []AnswersTruthful
<1>1. IInv => AnswersTruthful
    BY DEF IInv
<1>2. QED
    BY <1>1, Inv, PTL

\* Connections whose thread died do not pile up: only the one accepted last
\* stays open.
THEOREM HungConnectionIsLast == Spec => []OnlyLastHangs
<1>1. IInv => OnlyLastHangs
    BY DEF IInv
<1>2. QED
    BY <1>1, Inv, PTL
=============================================================================
