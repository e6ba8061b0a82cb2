--------------------------- MODULE PseudoLptyProofs ---------------------------
(***************************************************************************)
(* ResponseMatches and OneQueryInConnection for any number of queries and  *)
(* failures.  What makes them inductive is Contents: outside of the wait   *)
(* for the response the connection is empty, and during the wait it holds  *)
(* at most the query that is waited for.                                   *)
(***************************************************************************)
EXTENDS PseudoLpty, TLAPS

Empty == requests = <<>> /\ lines = <<>>

Contents ==
    \/ Empty
    \/ phase = "read" /\ requests = <<query>> /\ lines = <<>>
    \/ phase = "read" /\ requests = <<>> /\ lines = <<query>>

LInv == TypeOK /\ Contents /\ ResponseMatches

LEMMA LInvInit == Init => LInv
  <1> SUFFICES ASSUME Init PROVE LInv
    OBVIOUS
  <1>1. 0 \in Numbers
    BY PseudoLptyAssumption DEF Numbers
  <1>2. requests \in Seq(Numbers) /\ lines \in Seq(Numbers)
    BY DEF Init
  <1>3. faults \in 0 .. MaxFaults
    BY PseudoLptyAssumption DEF Init
  <1>4. TypeOK
    BY <1>1, <1>2, <1>3 DEF Init, TypeOK
  <1> QED
    BY <1>4 DEF LInv, Init, Contents, Empty, ResponseMatches

LEMMA FaultType ==
    ASSUME faults \in 0 .. MaxFaults, Fault
    PROVE  faults' \in 0 .. MaxFaults
  BY PseudoLptyAssumption DEF Fault

\* The number of the next query is a number.
LEMMA NextNumber == ASSUME NEW n \in Numbers PROVE (n + 1) % Queries \in Numbers
  BY PseudoLptyAssumption DEF Numbers

LEMMA AskStep == LInv /\ Ask => LInv'
  <1> SUFFICES ASSUME LInv, Ask PROVE LInv'
    OBVIOUS
  <1>1. Empty
    BY DEF LInv, Ask, Contents
  <1>2. query' \in Numbers
    BY NextNumber DEF LInv, TypeOK, Ask
  <1>3. TypeOK'
    BY <1>2 DEF LInv, TypeOK, Ask, Return, server
  <1>4. Contents'
    BY <1>1 DEF Ask, Contents, Empty
  <1>5. ResponseMatches'
    BY DEF Ask, Return, ResponseMatches
  <1> QED
    BY <1>3, <1>4, <1>5 DEF LInv

\* The steps that leave an empty connection to xcauth, or none.
LEMMA ClosingStep == LInv /\ (Start \/ Probe \/ Reconnect \/ ReadFails) => LInv'
  <1> SUFFICES ASSUME LInv, Start \/ Probe \/ Reconnect \/ ReadFails PROVE LInv'
    OBVIOUS
  <1> USE DEF LInv, TypeOK
  <1>1. CASE Start
    <2>1. TypeOK' /\ Contents'
      BY <1>1 DEF Start, reconnect, Return, Contents, Empty
    <2>2. ResponseMatches'
      BY <1>1 DEF Start, Return, ResponseMatches
    <2> QED
      BY <2>1, <2>2
  <1>2. CASE Probe
    <2>1. Empty
      BY <1>2 DEF Probe, Contents
    <2>2. TypeOK' /\ Contents'
      BY <1>2, <2>1 DEF Probe, disconnect, Contents, Empty
    <2>3. ResponseMatches'
      BY <1>2 DEF Probe, ResponseMatches
    <2> QED
      BY <2>2, <2>3
  <1>3. CASE Reconnect
    <2>1. TypeOK' /\ Contents'
      BY <1>3 DEF Reconnect, reconnect, Contents, Empty
    <2>2. ResponseMatches'
      BY <1>3 DEF Reconnect, ResponseMatches
    <2> QED
      BY <2>1, <2>2
  <1>4. CASE ReadFails
    <2>1. faults' \in 0 .. MaxFaults
      BY <1>4, FaultType DEF ReadFails
    <2>2. Empty' /\ phase' = "idle" /\ response' = None
      BY <1>4 DEF ReadFails, disconnect, Return, Empty
    <2>3. requests' \in Seq(Numbers) /\ lines' \in Seq(Numbers)
      BY <2>2 DEF Empty
    <2>4. connected' = FALSE /\ peer' = FALSE /\ UNCHANGED <<query, exitstr, up>>
      BY <1>4 DEF ReadFails, disconnect
    <2>5. TypeOK'
      BY <2>1, <2>2, <2>3, <2>4 DEF Empty
    <2> QED
      BY <2>2, <2>5 DEF Contents, ResponseMatches
  <1> QED
    BY <1>1, <1>2, <1>3, <1>4

\* The query enters the empty connection.
LEMMA SendingStep == LInv /\ (Send \/ Resend) => LInv'
  <1> SUFFICES ASSUME LInv, Send \/ Resend PROVE LInv'
    OBVIOUS
  <1>1. Empty
    BY DEF LInv, Send, Resend, Contents
  <1>2. requests' \in {<<>>, <<query>>}
    BY <1>1 DEF Send, Resend, Transmitted, Empty
  <1>3. requests' = <<query>> => phase' = "read" /\ peer
    BY <1>1 DEF Send, Resend, Transmitted, Empty
  <1>4. /\ phase' \in {"read", "reconnect"}
        /\ UNCHANGED <<query, response, connected, exitstr, lines, peer, up, faults>>
    BY DEF Send, Resend, server
  <1>5. requests' \in Seq(Numbers)
    <2>1. query \in Numbers
      BY DEF LInv, TypeOK
    <2>2. <<query>> \in Seq(Numbers) /\ <<>> \in Seq(Numbers)
      BY <2>1
    <2> QED
      BY <1>2, <2>2
  <1>6. ~connected' => requests' = <<>>
    BY <1>2, <1>3, <1>4 DEF LInv, TypeOK
  <1>7. TypeOK'
    BY <1>4, <1>5, <1>6 DEF LInv, TypeOK
  <1>8. Contents'
    BY <1>1, <1>2, <1>3, <1>4 DEF Contents, Empty
  <1>9. ResponseMatches'
    BY <1>4 DEF ResponseMatches
  <1> QED
    BY <1>7, <1>8, <1>9 DEF LInv

\* The line that is read is that of the query.
LEMMA ReadStep == LInv /\ Read => LInv'
  <1> SUFFICES ASSUME LInv, Read PROVE LInv'
    OBVIOUS
  <1>1. requests = <<>> /\ lines = <<query>>
    BY DEF LInv, Read, Contents, Empty
  <1>2. lines' = <<>> /\ response' = query /\ phase' = "idle"
    BY <1>1 DEF Read, Return
  <1>3. UNCHANGED <<query, connected, exitstr, requests, peer, up, faults>>
    BY DEF Read, server
  <1>4. TypeOK'
    BY <1>2, <1>3 DEF LInv, TypeOK
  <1>5. Contents' /\ ResponseMatches'
    BY <1>1, <1>2, <1>3 DEF Contents, Empty, ResponseMatches
  <1> QED
    BY <1>4, <1>5 DEF LInv

\* xcauth moves the query to its response, or what it has not answered is lost.
LEMMA ServerStep == LInv /\ (Answer \/ PeerGone \/ Down \/ Up) => LInv'
  <1> SUFFICES ASSUME LInv, Answer \/ PeerGone \/ Down \/ Up PROVE LInv'
    OBVIOUS
  <1>1. CASE Answer
    <2>1. phase = "read" /\ requests = <<query>> /\ lines = <<>>
      BY <1>1 DEF LInv, Answer, Contents, Empty
    <2>2. requests' = <<>> /\ lines' = <<query>>
      BY <1>1, <2>1 DEF Answer
    <2>3. UNCHANGED <<phase, query, response, connected, exitstr, peer, up, faults>>
      BY <1>1 DEF Answer, client, server
    <2>4. lines' \in Seq(Numbers) /\ connected
      BY <1>1, <2>2 DEF LInv, TypeOK, Answer
    <2>5. TypeOK'
      BY <2>2, <2>3, <2>4 DEF LInv, TypeOK
    <2> QED
      BY <2>1, <2>2, <2>3, <2>5 DEF LInv, Contents, Empty, ResponseMatches
  <1>2. CASE PeerGone \/ Down \/ Up
    <2>1. UNCHANGED <<phase, query, response, connected, exitstr, lines>>
      BY <1>2 DEF PeerGone, Down, Up, client
    <2>2. faults' \in 0 .. MaxFaults
      BY <1>2, FaultType DEF LInv, TypeOK, PeerGone, Down, Up
    <2>3. requests' \in {requests, <<>>}
      BY <1>2 DEF PeerGone, Down, Up
    <2>4. requests' \in Seq(Numbers)
      <3>1. <<>> \in Seq(Numbers)
        OBVIOUS
      <3> QED
        BY <2>3, <3>1 DEF LInv, TypeOK
    <2>5. up' \in BOOLEAN
      BY <1>2 DEF LInv, TypeOK, PeerGone, Down, Up
    <2>6. peer' = peer \/ peer' = FALSE
      BY <1>2 DEF PeerGone, Down, Up
    <2>7. TypeOK'
      <3>1. peer' \in BOOLEAN
        BY <2>6 DEF LInv, TypeOK
      <3>2. ~connected => ~peer' /\ requests' = <<>> /\ lines = <<>>
        BY <2>3, <2>6 DEF LInv, TypeOK
      <3>3. (~connected => ~peer /\ requests = <<>> /\ lines = <<>>)'
        BY <2>1, <3>2
      <3> QED
        BY <2>1, <2>2, <2>4, <2>5, <3>1, <3>3 DEF LInv, TypeOK
    <2> QED
      BY <2>1, <2>3, <2>7 DEF LInv, Contents, Empty, ResponseMatches
  <1> QED
    BY <1>1, <1>2

LEMMA LInvNext == LInv /\ [Next]_vars => LInv'
  <1> SUFFICES ASSUME LInv, [Next]_vars PROVE LInv'
    OBVIOUS
  <1>1. CASE Next
    BY <1>1, AskStep, ClosingStep, SendingStep, ReadStep, ServerStep
    DEF Next, send_query
  <1>2. CASE UNCHANGED vars
    BY <1>2 DEF vars, LInv, TypeOK, Contents, Empty, ResponseMatches
  <1> QED
    BY <1>1, <1>2

\* Every reachable state is well typed; a connection that is closed holds nothing.
THEOREM TypeCorrect == Spec => []TypeOK
  <1>1. LInv => TypeOK
    BY DEF LInv
  <1> QED
    BY <1>1, LInvInit, LInvNext, PTL DEF Spec

\* Whatever is late, lost or sent again, a response is never returned for another
\* query than the one it answers (mod_auth_external.lua:65-97).
THEOREM ResponsesMatch == Spec => []ResponseMatches
  <1>1. LInv => ResponseMatches
    BY DEF LInv
  <1> QED
    BY <1>1, LInvInit, LInvNext, PTL DEF Spec

\* No connection ever holds two queries, and none between queries
\* (pseudolpty.lib.lua:69-87).
THEOREM OneQuery == Spec => []OneQueryInConnection
  <1>1. LInv => OneQueryInConnection
    <2>1. Len(<<>>) = 0 /\ Len(<<query>>) = 1
      OBVIOUS
    <2>2. ASSUME LInv PROVE Len(requests) + Len(lines) <= 1
      <3>1. CASE Empty
        BY <2>1, <3>1 DEF Empty
      <3>2. CASE requests = <<query>> /\ lines = <<>>
        BY <2>1, <3>2
      <3>3. CASE requests = <<>> /\ lines = <<query>>
        BY <2>1, <3>3
      <3> QED
        BY <2>2, <3>1, <3>2, <3>3 DEF LInv, Contents
    <2>3. LInv => (phase # "read" => requests = <<>> /\ lines = <<>>)
      BY DEF LInv, Contents, Empty
    <2> QED
      BY <2>2, <2>3 DEF OneQueryInConnection
  <1> QED
    BY <1>1, LInvInit, LInvNext, PTL DEF Spec
===============================================================================
