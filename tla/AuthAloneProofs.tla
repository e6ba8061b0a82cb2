--------------------------- MODULE AuthAloneProofs ---------------------------
(***************************************************************************)
(* Theorems about AuthCache that need the database to be used by one       *)
(* process, or by one thread: what README.md calls the safe deployments.   *)
(* With two threads an old password can return (the run auth_lost_update), *)
(* and a nested BEGIN ends a request; with two processes the times of      *)
(* their starts mix in one row.                                            *)
(***************************************************************************)
EXTENDS AuthServiceProofs

USE DEF Writer, View

-----------------------------------------------------------------------------
(* One process: its times are in order.                                    *)

\* The times of a row, in a process started at t.  The half-filled row has the
\* time of the database, which may be later.
InOrder(row, t) ==
    row # NoRow =>
        /\ row.firstauth <= t
        /\ row.pwhash # NULL => /\ row.firstauth <= row.remoteauth
                                /\ row.remoteauth <= row.anyauth
                                /\ row.anyauth <= t

OrderInv ==
    \A p \in Procs, u \in Users :
        InOrder(disk[u], started[p]) /\ InOrder(buf[u], started[p])

LEMMA OrderStep ==
    ASSUME \A p, q \in Procs : p = q, IInv, TimesSound, OrderInv, [Next]_vars
    PROVE  OrderInv'
  <1>0. /\ disk \in Cache /\ buf \in Cache
        /\ started \in [Procs -> Nat] /\ started' \in [Procs -> Nat]
    BY IInvNext, AuthCacheAssumption DEF IInv, TypeOK, SqlTypeOK, Time
  <1>. SUFFICES ASSUME NEW p \in Procs, NEW x \in Users
                PROVE  InOrder(disk'[x], started'[p]) /\ InOrder(buf'[x], started'[p])
    BY DEF OrderInv
  <1>1. started[p] <= started'[p]
    BY <1>0, NextTimeStep DEF TimesSound
  <1>2. \A u \in Users : InOrder(disk[u], started'[p]) /\ InOrder(buf[u], started'[p])
    <2>1. ASSUME NEW row \in Row \cup {NoRow}, InOrder(row, started[p])
          PROVE  InOrder(row, started'[p])
      BY <1>0, <1>1, <2>1 DEF InOrder, Row, Time
    <2>. QED  BY <1>0, <2>1 DEF OrderInv, Cache
  <1>3. \A t : InOrder(NoRow, t)
    BY DEF InOrder
  <1>4. ASSUME NEW w \in Workers, PutsSome(w)
        PROVE  InOrder(disk'[x], started'[p]) /\ InOrder(buf'[x], started'[p])
    <2>1. /\ task[w].user \in Users /\ now(w) = started[p] /\ now(w) \in Time
          /\ buf[task[w].user] \in Row \cup {NoRow} /\ task[w].n \in Nat
      BY <1>0, RowOfType DEF IInv, TypeOK, now, Cache, Task
    <2>2. PICK row : /\ row \in {Touched(buf[task[w].user], now(w)),
                                 Inserted(buf[task[w].user], now(w)),
                                 Updated(buf[task[w].user], task[w].n, now(w))}
                     /\ Puts(w, row)
      BY <1>4 DEF PutsSome
    <2>3. InOrder(buf[task[w].user], started[p])
      BY <2>1 DEF OrderInv
    <2>4. InOrder(Touched(buf[task[w].user], now(w)), started[p])
      BY <1>0, <2>1, <2>3, NoRowAssumption DEF InOrder, Touched, Row, Time
    <2>5. InOrder(Inserted(buf[task[w].user], now(w)), started[p])
      BY <1>0, <2>1, <2>3, NoRowAssumption DEF InOrder, Inserted, Row, Time
    <2>6. InOrder(Updated(buf[task[w].user], task[w].n, now(w)), started[p])
      BY <1>0, <2>1, <2>3, NoRowAssumption DEF InOrder, Updated, Row, Time
    <2>7. row \in Row \cup {NoRow}
      <3>1. clock \in Time
        BY DEF IInv, TypeOK
      <3>2. /\ Touched(buf[task[w].user], now(w)) \in Row \cup {NoRow}
            /\ Inserted(buf[task[w].user], now(w)) \in Row \cup {NoRow}
            /\ Updated(buf[task[w].user], task[w].n, now(w)) \in Row \cup {NoRow}
        BY <2>1, <3>1, RowLemma
      <3>. QED  BY <2>2, <3>2
    <2>8. InOrder(row, started'[p])
      BY <1>0, <1>1, <2>2, <2>4, <2>5, <2>6, <2>7 DEF InOrder, Row, Time
    <2>. QED  BY <1>0, <1>2, <2>2, <2>8 DEF Puts, Cache
  <1>5. CASE UNCHANGED <<disk, buf>> \/ (disk' = buf /\ buf' = buf)
    BY <1>2, <1>5
  <1>6. CASE Rolls
    BY <1>2, <1>3, <1>6 DEF Rolls, EmptyCache
  <1>7. ASSUME NEW u \in Users, disk' = [disk EXCEPT ![u] = NoRow], buf' = disk'
        PROVE  InOrder(disk'[x], started'[p]) /\ InOrder(buf'[x], started'[p])
    BY <1>0, <1>2, <1>3, <1>7 DEF Cache
  <1>. QED  BY <1>4, <1>5, <1>6, <1>7, NextDbStep DEF DbStep

\* In one process the timestamps of a committed row are in the order their names
\* say: every time written is the time the process was started.
THEOREM OneProcessOrdersTimestamps ==
    ASSUME \A p, q \in Procs : p = q PROVE Spec => []TimestampsOrdered
  <1>1. Init => IInv /\ TimesSound /\ OrderInv
    BY DInvInit DEF DInv, Init, SqlInit, EmptyCache, OrderInv, InOrder
  <1>2. (IInv /\ TimesSound /\ OrderInv) /\ [Next]_vars => (IInv /\ TimesSound /\ OrderInv)'
    BY IInvNext, TimesStep, OrderStep
  <1>3. IInv /\ OrderInv => TimestampsOrdered
    BY AuthCacheAssumption
       DEF IInv, FillInv, DurableRowsComplete, OrderInv, InOrder, TimestampsOrdered
  <1>. QED  BY <1>1, <1>2, <1>3, PTL DEF Spec

-----------------------------------------------------------------------------
(* One thread of one process: what may still raise.                         *)

Alone == (\A p, q \in Procs : p = q) /\ (\A v, w \in Workers : v = w)

\* The request of w meets its own malformed reply or a password bcrypt refuses.
OwnInput(w) ==
    \/ pc[w] = "cloud"
    \/ pc[w] \in {"lookup", "begin"} /\ storage # "none" /\ ~Hashable(w)

LEMMA OnlyInputRaises ==
    ASSUME \A p, q \in Procs : p = q, \A v, w \in Workers : v = w,
           IInv, BackToAutocommit, NEW w \in Workers, Raising(w)
    PROVE  OwnInput(w)
  <1>1. ASSUME LookupRaises(w), Hashable(w) PROVE FALSE
    <2>1. /\ pc[w] = "lookup" /\ RowOf(w) # NoRow /\ RowOf(w).pwhash = NULL
          /\ RowOf(w) \in {disk[task[w].user], buf[task[w].user]}
          /\ task[w].user \in Users
      BY <1>1, RowOfType DEF LookupRaises, Candidate, RowOf, Rows, IInv
    <2>2. \E v \in Workers : pc[v] = "update"
      BY <2>1 DEF IInv, FillInv, DurableRowsComplete, BufRowsFilled
    <2>. QED  BY <2>1, <2>2
  <1>2. ASSUME BeginRaises(w), Hashable(w) PROVE FALSE
    BY <1>2, RowOfType DEF BeginRaises, BackToAutocommit, InUpsert, IInv
  <1>3. ASSUME Busy(w) PROVE FALSE
    BY <1>3, RowOfType DEF Busy, MayRead, MayWrite, MayReserve, MayExclude, IInv
  <1>. QED  BY <1>1, <1>2, <1>3
            DEF Raising, LookupRaises, BeginRaises, CloudMisanswers, OwnInput

LEMMA AnswerStep ==
    ASSUME \A p, q \in Procs : p = q, \A v, w \in Workers : v = w,
           IInv, BackToAutocommit, [Next]_vars,
           NEW w \in Workers, pc[w] \notin Resting, pc'[w] = "lost"
    PROVE  Crash(ProcOf[w]) \/ OwnInput(w)
  <1>0. pc \in [Workers -> Phases] /\ ProcOf[w] \in Procs
    BY RowOfType DEF IInv, TypeOK
  <1>1. ASSUME NEW p \in Procs, Crash(p) PROVE Crash(ProcOf[w])
    BY <1>0, <1>1
  <1>2. ASSUME NEW v \in Workers,
               \/ PerDomain(v) \/ Lookup(v) \/ CloudAccepts(v) \/ CloudRefuses(v)
               \/ CloudUnreachable(v) \/ SkipUpdate(v) \/ Arrive(v)
        PROVE  pc'[w] # "lost"
    BY <1>0, <1>2, ReadingMoves
  <1>3. ASSUME NEW v \in Workers,
               Touch(v) \/ Begin(v) \/ Insert(v) \/ Update(v) \/ Commit(v)
        PROVE  pc'[w] # "lost"
    BY <1>0, <1>3 DEF Touch, Begin, Insert, Update, Commit, AnswerVerified, Finish, Goto
  <1>4. ASSUME \/ \E u \in Users : ChangePassword(u) \/ XcDelUser(u)
               \/ Tick
               \/ UNCHANGED vars
        PROVE  pc'[w] # "lost"
    <2>1. pc' = pc
      BY <1>4 DEF ChangePassword, XcDelUser, Tick, vars, cacheVars
    <2>. QED  BY <2>1 DEF Resting
  <1>5. ASSUME NEW v \in Workers, Raising(v) PROVE OwnInput(w)
    BY <1>5, OnlyInputRaises
  <1>. QED  BY <1>1, <1>2, <1>3, <1>4, <1>5 DEF Next, Serve, Raising, Environment

\* With one thread in one process, the two inputs that raise are the only way to
\* lose a request short of a crash: the reply of the cloud to it, and a password
\* bcrypt refuses.  No half-filled row, nested BEGIN or lock is ever met.
THEOREM OneThreadLosesOnlyByItsInput ==
    ASSUME Alone PROVE Spec => LostOnlyByItsInput
  <1>. USE DEF Alone
  <1>1. Init => IInv /\ BackToAutocommit
    BY IInvInit DEF Init, SqlInit, BackToAutocommit
  <1>2. (IInv /\ BackToAutocommit) /\ [Next]_vars => (IInv /\ BackToAutocommit)'
    BY IInvNext, AutocommitStep
  <1>3. (IInv /\ BackToAutocommit) /\ [Next]_vars =>
            [\A w \in Workers : pc[w] \notin Resting /\ pc'[w] = "lost" =>
                \/ Crash(ProcOf[w])
                \/ pc[w] = "cloud"
                \/ pc[w] \in {"lookup", "begin"} /\ storage # "none" /\ ~Hashable(w)]_vars
    BY AnswerStep DEF OwnInput
  <1>. QED  BY <1>1, <1>2, <1>3, PTL DEF Spec, LostOnlyByItsInput

-----------------------------------------------------------------------------
(* One thread of one process: the passwords grow.                          *)

\* A row holds a password no older than n.
RowNew(row, n) == row # NoRow /\ row.pwhash # NULL => row.pwhash >= n

RowsNew ==
    \A u \in Users :
        /\ newest[u] <= cloudPw[u]
        /\ RowNew(disk[u], newest[u]) /\ RowNew(buf[u], newest[u])
        /\ storage = "none" => disk[u] = NoRow /\ buf[u] = NoRow

WorkerNew(w) ==
    /\ pc[w] \notin Resting => task[w].floor <= newest[task[w].user]
    /\ pc[w] \in {"begin"} \cup InUpsert =>
          newest[task[w].user] <= task[w].n /\ task[w].n <= cloudPw[task[w].user]
    /\ pc[w] \in {"touch"} \cup InUpsert => storage # "none"
    /\ pc[w] = "commit" => RowNew(buf[task[w].user], task[w].n)
    /\ pc[w] \in Accepting => task[w].n >= task[w].floor

NewInv == RowsNew /\ \A w \in Workers : WorkerNew(w)

\* The types the steps below rest on.
LEMMA NewTypes ==
    ASSUME IInv, NEW w \in Workers
    PROVE  /\ task[w] \in Task /\ task[w].user \in Users /\ task[w].n \in Nat
           /\ task[w].floor \in Nat /\ pc[w] \in Phases
           /\ disk \in Cache /\ buf \in Cache
           /\ newest \in [Users -> Nat] /\ cloudPw \in [Users -> Nat]
           /\ \A u \in Users : disk[u] \in Row \cup {NoRow} /\ buf[u] \in Row \cup {NoRow}
BY AuthCacheAssumption DEF IInv, TypeOK, SqlTypeOK, Task, Cache, Passwords

\* A step that ends the request, or of a worker that serves none.
LEMMA RestedNew ==
    ASSUME RowsNew', \A w \in Workers : pc'[w] \in Resting PROVE NewInv'
BY DEF NewInv, WorkerNew, Resting, Accepting, InUpsert

\* Steps that change no row and no password.
LEMMA QuietRows ==
    ASSUME RowsNew, UNCHANGED <<disk, buf, newest, cloudPw, storage>> PROVE RowsNew'
BY DEF RowsNew

LEMMA FinishNew ==
    ASSUME Alone, IInv, NewInv, NEW w \in Workers, NEW how \in Resting, Finish(w, how),
           UNCHANGED <<disk, buf, newest, cloudPw, storage>>
    PROVE  NewInv'
  <1>1. \A v \in Workers : pc'[v] = how
    BY DEF Finish, Alone, IInv, TypeOK
  <1>. QED  BY <1>1, QuietRows, RestedNew DEF NewInv

LEMMA ServeReadsNew ==
    ASSUME Alone, IInv, NewInv, NEW w \in Workers,
           \/ PerDomain(w) \/ Lookup(w) \/ CloudAccepts(w) \/ CloudRefuses(w)
           \/ CloudUnreachable(w) \/ Arrive(w)
    PROVE  NewInv'
  <1>. USE NewTypes
  <1>0. /\ \A v \in Workers : v = w
        /\ RowsNew /\ WorkerNew(w) /\ pc \in [Workers -> Phases] /\ task \in [Workers -> Task]
    BY DEF Alone, NewInv, IInv, TypeOK
  <1>1. UNCHANGED <<disk, buf, newest, cloudPw, storage>>
    <2>1. SqlRead(ProcOf[w]) \/ UNCHANGED sqlVars
      BY ReadingMoves
    <2>2. UNCHANGED <<disk, buf>>
      BY <2>1 DEF SqlRead, sqlVars
    <2>3. UNCHANGED <<newest, cloudPw, storage>>
      BY DEF PerDomain, Lookup, CloudAccepts, CloudRefuses, CloudUnreachable, Arrive,
             Request, Unchanged
    <2>. QED  BY <2>2, <2>3
  <1>2. RowsNew'
    BY <1>0, <1>1, QuietRows
  <1>3. ASSUME pc[w] \notin Resting, pc'[w] \in {"lookup", "cloud"},
               task'[w].user = task[w].user, task'[w].floor = task[w].floor
        PROVE  NewInv'
    BY <1>0, <1>1, <1>2, <1>3 DEF NewInv, WorkerNew, Accepting, InUpsert
  <1>4. ASSUME NEW how \in Resting, Finish(w, how) PROVE NewInv'
    BY <1>1, <1>4, FinishNew
  <1>5. ASSUME NEW phase, Goto(w, phase) PROVE pc'[w] = phase /\ task' = task
    BY <1>0, <1>5 DEF Goto
  <1>6. CASE PerDomain(w)
    BY <1>3, <1>4, <1>5, <1>6 DEF PerDomain, Resting
  <1>7. CASE Lookup(w)
    <2>1. \/ \E how \in Resting : Finish(w, how)
          \/ Goto(w, "cloud")
          \/ Goto(w, "touch") /\ storage # "none" /\ RowOf(w) # NoRow /\ CheckPw(RowOf(w), w)
      BY <1>7 DEF Lookup, Miss, Candidate, Resting
    <2>2. CASE Goto(w, "cloud")
      BY <1>3, <1>5, <1>7, <2>2 DEF Lookup, Resting
    <2>3. CASE Goto(w, "touch") /\ storage # "none" /\ RowOf(w) # NoRow /\ CheckPw(RowOf(w), w)
      <3>1. pc'[w] = "touch" /\ task' = task /\ storage' # "none"
        BY <1>1, <1>5, <2>3
      <3>2. RowOf(w) \in {disk[task[w].user], buf[task[w].user]}
        BY DEF RowOf, Rows
      <3>3. task[w].n >= newest[task[w].user]
        BY <1>0, <2>3, <3>2, AuthCacheAssumption DEF RowsNew, RowNew, CheckPw
      <3>4. task[w].floor <= newest[task[w].user]
        BY <1>0, <1>7 DEF WorkerNew, Lookup, Resting
      <3>5. WorkerNew(w)'
        BY <1>1, <3>1, <3>3, <3>4 DEF WorkerNew, InUpsert
      <3>. QED  BY <1>0, <1>2, <3>5 DEF NewInv
    <2>. QED  BY <1>4, <2>1, <2>2, <2>3
  <1>8. CASE CloudAccepts(w)
    <2>1. pc'[w] = "begin" /\ task' = task /\ task[w].n = cloudPw[task[w].user]
      BY <1>5, <1>8 DEF CloudAccepts
    <2>2. /\ task[w].floor <= newest[task[w].user]
          /\ newest[task[w].user] <= cloudPw[task[w].user]
      BY <1>0, <1>8 DEF CloudAccepts, WorkerNew, RowsNew, Resting
    <2>3. WorkerNew(w)'
      BY <1>1, <2>1, <2>2 DEF WorkerNew, InUpsert
    <2>. QED  BY <1>0, <1>2, <2>3 DEF NewInv
  <1>9. CASE CloudRefuses(w)
    BY <1>4, <1>9 DEF CloudRefuses, Resting
  <1>10. CASE CloudUnreachable(w)
    <2>1. pc'[w] = "lookup" /\ task'[w] = [task[w] EXCEPT !.unreach = TRUE]
      BY <1>0, <1>10 DEF CloudUnreachable
    <2>. QED  BY <1>3, <1>10, <2>1 DEF CloudUnreachable, Task, Resting
  <1>11. CASE Arrive(w)
    <2>1. \E u \in Users : /\ pc'[w] = "per_domain" /\ task'[w].user = u
                           /\ task'[w].floor = newest[u]
      BY <1>0, <1>11 DEF Arrive, Request
    <2>2. WorkerNew(w)'
      BY <1>1, <2>1 DEF WorkerNew, Accepting, InUpsert
    <2>. QED  BY <1>0, <1>2, <2>2 DEF NewInv
  <1>. QED  BY <1>6, <1>7, <1>8, <1>9, <1>10, <1>11

LEMMA AnswerVerifiedNew ==
    ASSUME Alone, IInv, NewInv, NEW w \in Workers, AnswerVerified(w),
           pc[w] \in {"begin"} \cup InUpsert,
           \/ storage = "none" /\ UNCHANGED sqlVars
           \/ pc[w] = "commit" /\ disk' = buf /\ buf' = buf
    PROVE  NewInv'
  <1>. USE NewTypes
  <1>0. RowsNew /\ WorkerNew(w) /\ \A v \in Workers : v = w
    BY DEF NewInv, Alone
  <1>1. /\ \A v \in Workers : pc'[v] \in Resting
        /\ UNCHANGED <<storage, cloudPw>>
    BY <1>0 DEF AnswerVerified, Finish, Resting, IInv, TypeOK
  <1>2. newest[task[w].user] <= task[w].n /\ task[w].n <= cloudPw[task[w].user]
    BY <1>0 DEF WorkerNew
  <1>3. \A u \in Users : newest'[u] = IF u = task[w].user THEN task[w].n ELSE newest[u]
    BY <1>2 DEF AnswerVerified
  <1>4. \A u \in Users : newest'[u] <= cloudPw'[u]
    BY <1>0, <1>1, <1>2, <1>3 DEF RowsNew
  <1>5. CASE storage = "none" /\ UNCHANGED sqlVars
    BY <1>0, <1>1, <1>4, <1>5, RestedNew DEF RowsNew, RowNew, sqlVars
  <1>6. CASE pc[w] = "commit" /\ disk' = buf /\ buf' = buf
    <2>1. RowNew(buf[task[w].user], task[w].n) /\ storage # "none"
      BY <1>0, <1>6 DEF WorkerNew, InUpsert
    <2>2. RowsNew'
      BY <1>0, <1>1, <1>3, <1>4, <1>6, <2>1 DEF RowsNew
    <2>. QED  BY <1>1, <2>2, RestedNew
  <1>. QED  BY <1>5, <1>6

\* Writing a row with an old password, or a new one.
LEMMA PutNew ==
    ASSUME IInv, RowsNew, NEW w \in Workers, NEW row, Puts(w, row),
           RowNew(row, newest[task[w].user]), storage # "none",
           UNCHANGED <<newest, cloudPw, storage>>
    PROVE  RowsNew' /\ buf'[task[w].user] = row
  <1>1. task[w].user \in Users /\ buf \in Cache
    BY NewTypes
  <1>. QED  BY <1>1 DEF RowsNew, Puts, Cache

LEMMA WritesNew ==
    ASSUME Alone, IInv, NewInv, NEW w \in Workers,
           Touch(w) \/ Begin(w) \/ Insert(w) \/ Update(w) \/ Commit(w) \/ SkipUpdate(w)
    PROVE  NewInv'
  <1>. USE NewTypes
  <1>. DEFINE u == task[w].user
  <1>0. /\ RowsNew /\ WorkerNew(w) /\ (\A v \in Workers : v = w)
        /\ pc \in [Workers -> Phases]
        /\ now(w) \in Time /\ buf[u] \in Row \cup {NoRow} /\ RowNew(buf[u], newest[u])
    BY RowOfType DEF NewInv, RowsNew, Alone, IInv, TypeOK
  <1>1. CASE Touch(w)
    <2>1. /\ pc[w] = "touch" /\ Finish(w, "yes") /\ UNCHANGED <<newest, cloudPw, storage>>
          /\ Puts(w, Touched(buf[u], now(w)))
      BY <1>1, WritersPut DEF Touch, Unchanged
    <2>2. RowNew(Touched(buf[u], now(w)), newest[u])
      BY <1>0, TouchedHash DEF RowNew
    <2>3. RowsNew'
      BY <1>0, <2>1, <2>2, PutNew DEF WorkerNew
    <2>4. \A v \in Workers : pc'[v] \in Resting
      BY <1>0, <2>1 DEF Finish, Resting
    <2>. QED  BY <2>3, <2>4, RestedNew
  <1>2. CASE Begin(w)
    <2>1. /\ pc[w] = "begin" /\ pc'[w] = "insert" /\ task' = task /\ storage # "none"
          /\ UNCHANGED <<disk, buf, newest, cloudPw, storage>>
      BY <1>0, <1>2 DEF Begin, SqlBegin, Goto, Unchanged
    <2>2. RowsNew'
      BY <1>0, <2>1, QuietRows
    <2>3. WorkerNew(w)'
      BY <1>0, <2>1 DEF WorkerNew, Accepting, InUpsert, Resting
    <2>. QED  BY <1>0, <2>2, <2>3 DEF NewInv
  <1>3. CASE Insert(w)
    <2>1. /\ pc[w] = "insert" /\ pc'[w] = "update" /\ task' = task
          /\ UNCHANGED <<newest, cloudPw, storage>>
          /\ Puts(w, Inserted(buf[u], now(w)))
      BY <1>0, <1>3, WritersPut DEF Insert, Goto, Unchanged
    <2>2. RowNew(Inserted(buf[u], now(w)), newest[u])
      BY <1>0 DEF RowNew, Inserted
    <2>3. RowsNew'
      BY <1>0, <2>1, <2>2, PutNew DEF WorkerNew, InUpsert
    <2>4. WorkerNew(w)'
      BY <1>0, <2>1 DEF WorkerNew, Accepting, InUpsert, Resting
    <2>. QED  BY <1>0, <2>3, <2>4 DEF NewInv
  <1>4. CASE Update(w)
    <2>1. /\ pc[w] = "update" /\ pc'[w] = "commit" /\ task' = task
          /\ UNCHANGED <<newest, cloudPw, storage>>
          /\ Puts(w, Updated(buf[u], task[w].n, now(w)))
      BY <1>0, <1>4, WritersPut DEF Update, Goto, Unchanged
    <2>2. newest[u] <= task[w].n /\ storage # "none"
      BY <1>0, <2>1 DEF WorkerNew, InUpsert
    <2>3. Updated(buf[u], task[w].n, now(w)) # NoRow =>
             Updated(buf[u], task[w].n, now(w)).pwhash = task[w].n
      BY <1>0, NoRowAssumption DEF Updated, Row
    <2>4. /\ RowNew(Updated(buf[u], task[w].n, now(w)), task[w].n)
          /\ RowNew(Updated(buf[u], task[w].n, now(w)), newest[u])
      BY <2>2, <2>3 DEF RowNew
    <2>5. RowsNew' /\ buf'[u] = Updated(buf[u], task[w].n, now(w))
      BY <1>0, <2>1, <2>2, <2>4, PutNew
    <2>6. WorkerNew(w)'
      BY <1>0, <2>1, <2>4, <2>5 DEF WorkerNew, Accepting, InUpsert, Resting
    <2>. QED  BY <1>0, <2>5, <2>6 DEF NewInv
  <1>5. CASE Commit(w)
    <2>1. pc[w] = "commit" /\ AnswerVerified(w) /\ disk' = buf /\ buf' = buf
      BY <1>5, OnlyOwnRow DEF Commit, SqlCommit
    <2>. QED  BY <2>1, AnswerVerifiedNew DEF InUpsert
  <1>6. CASE SkipUpdate(w)
    BY <1>6, AnswerVerifiedNew DEF SkipUpdate
  <1>. QED  BY <1>1, <1>2, <1>3, <1>4, <1>5, <1>6

LEMMA EnvironmentNew ==
    ASSUME Alone, IInv, NewInv, Environment PROVE NewInv'
  <1>0. RowsNew /\ \A w \in Workers : WorkerNew(w) /\ task[w].user \in Users
    BY NewTypes DEF NewInv
  <1>1. ASSUME NEW p \in Procs, Crash(p) PROVE NewInv'
    <2>1. \A w \in Workers : pc'[w] \in Resting
      BY <1>1, RowOfType DEF Crash, Restart, Alone, IInv, Resting
    <2>2. Rolls /\ UNCHANGED <<newest, cloudPw, storage>>
      BY <1>1, RestartRolls DEF Crash, Restart
    <2>3. RowsNew'
      BY <1>0, <2>2 DEF Rolls, EmptyCache, RowsNew, RowNew
    <2>. QED  BY <2>1, <2>3, RestedNew
  <1>2. ASSUME NEW u \in Users, ChangePassword(u) PROVE NewInv'
    <2>1. /\ UNCHANGED <<disk, buf, newest, storage, pc, task>>
          /\ cloudPw' = [cloudPw EXCEPT ![u] = @ + 1]
      <3>1. UNCHANGED sqlVars
        BY <1>2 DEF ChangePassword
      <3>. QED  BY <1>2, <3>1 DEF ChangePassword, sqlVars
    <2>2. \A x \in Users : /\ cloudPw[x] \in Nat /\ newest[x] \in Nat
                           /\ cloudPw'[x] \in Nat /\ cloudPw'[x] >= cloudPw[x]
      BY <2>1, AuthCacheAssumption DEF IInv, TypeOK, Passwords
    <2>3. RowsNew'
      BY <1>0, <2>1, <2>2 DEF RowsNew
    <2>4. \A w \in Workers : WorkerNew(w)'
      BY <1>0, <2>1, <2>2, NewTypes DEF WorkerNew
    <2>. QED  BY <2>3, <2>4 DEF NewInv
  <1>3. ASSUME NEW u \in Users, XcDelUser(u) PROVE NewInv'
    <2>1. /\ disk' = [disk EXCEPT ![u] = NoRow] /\ buf' = disk'
          /\ UNCHANGED <<newest, cloudPw, storage, pc, task>>
      BY <1>3 DEF XcDelUser, cacheVars
    <2>2. disk \in Cache
      BY DEF IInv, TypeOK, SqlTypeOK
    <2>3. RowsNew'
      BY <1>0, <2>1, <2>2 DEF RowsNew, RowNew, Cache
    <2>4. \A w \in Workers : pc[w] # "commit"
      BY <1>3, OnlyOwnRow, RowOfType DEF XcDelUser, IInv
    <2>5. \A w \in Workers : WorkerNew(w)'
      BY <1>0, <2>1, <2>4 DEF WorkerNew
    <2>. QED  BY <2>3, <2>5 DEF NewInv
  <1>4. CASE Tick
    <2>1. UNCHANGED <<disk, buf, newest, cloudPw, storage, pc, task>>
      <3>1. UNCHANGED sqlVars
        BY <1>4 DEF Tick
      <3>. QED  BY <1>4, <3>1 DEF Tick, sqlVars
    <2>. QED  BY <2>1 DEF NewInv, RowsNew, WorkerNew
  <1>. QED  BY <1>1, <1>2, <1>3, <1>4 DEF Environment

LEMMA RaisingNew ==
    ASSUME Alone, IInv, NewInv, NEW w \in Workers, Raising(w) PROVE NewInv'
  <1>1. CASE Threaded
    <2>1. /\ SqlRead(ProcOf[w]) \/ UNCHANGED sqlVars \/ SqlCommitBusy(ProcOf[w])
          /\ Finish(w, "lost")
          /\ UNCHANGED <<newest, cloudPw, storage>>
      BY <1>1 DEF Raising, LookupRaises, CloudMisanswers, BeginRaises, Busy, Raise
    <2>2. UNCHANGED <<disk, buf>>
      BY <2>1 DEF SqlRead, SqlCommitBusy, sqlVars
    <2>. QED  BY <2>1, <2>2, FinishNew DEF Resting
  <1>2. CASE ~Threaded
    <2>1. ProcOf[w] \in Procs /\ Crash(ProcOf[w])
      BY <1>2, RowOfType
         DEF Raising, LookupRaises, CloudMisanswers, BeginRaises, Busy, Raise, Crash, IInv
    <2>. QED  BY <2>1, EnvironmentNew DEF Environment
  <1>. QED  BY <1>1, <1>2

LEMMA NewStep ==
    ASSUME Alone, IInv, NewInv, [Next]_vars PROVE NewInv'
  <1>1. CASE UNCHANGED vars
    BY <1>1 DEF vars, NewInv, RowsNew, WorkerNew
  <1>. QED  BY <1>1, ServeReadsNew, WritesNew, RaisingNew, EnvironmentNew
            DEF Next, Serve, Raising, Alone

\* With one thread in one process, no password is accepted that is older than one
\* answered before the request arrived, as doc/Cache.md:9 has it: two threads that
\* store their passwords in the opposite order are what breaks it.
THEOREM OneThreadInvalidatesOldPasswords ==
    ASSUME Alone PROVE Spec => []OldPasswordInvalidated
  <1>1. Init => IInv /\ NewInv
    <2>1. ASSUME Init PROVE NewInv
      BY <2>1 DEF Init, SqlInit, EmptyCache, NoTask, NewInv, RowsNew, RowNew, WorkerNew,
                  Resting, Accepting, InUpsert
    <2>. QED  BY <2>1, IInvInit
  <1>2. (IInv /\ NewInv) /\ [Next]_vars => (IInv /\ NewInv)'
    BY IInvNext, NewStep
  <1>3. NewInv => OldPasswordInvalidated
    BY DEF NewInv, WorkerNew, OldPasswordInvalidated
  <1>. QED  BY <1>1, <1>2, <1>3, PTL DEF Spec
=============================================================================
