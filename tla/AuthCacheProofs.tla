--------------------------- MODULE AuthCacheProofs ---------------------------
(***************************************************************************)
(* Theorems about AuthCache, for every set of users, workers and processes *)
(* and every TTL.                                                          *)
(***************************************************************************)
EXTENDS AuthCache, SqliteProofs

USE DEF Writer, View

(* What the pure parts return.                                             *)

LEMMA RowLemma ==
    ASSUME NEW row \in Row \cup {NoRow}, NEW t \in Time, NEW n \in Nat,
           clock \in Time
    PROVE  /\ Touched(row, t) \in Row \cup {NoRow}
           /\ Inserted(row, t) \in Row \cup {NoRow}
           /\ Updated(row, n, t) \in Row \cup {NoRow}
BY NoRowAssumption DEF Touched, Inserted, Updated, Row

LEMMA NoTaskType == NoTask \in Task
  <1>1. (CHOOSE u \in Users : TRUE) \in Users
    BY AuthCacheAssumption
  <1>2. 0 \in Time /\ 0 \in Passwords /\ 0 \in Nat
    BY AuthCacheAssumption DEF Time, Passwords
  <1>. QED  BY <1>1, <1>2 DEF NoTask, Task

LEMMA EmptyCacheType == EmptyCache \in Cache
BY DEF EmptyCache, Cache

-----------------------------------------------------------------------------
(* Type correctness.                                                       *)

LEMMA RestartType ==
    ASSUME TypeOK, NEW p \in Procs, Restart(p) PROVE TypeOK'
  <1>1. SqlTypeOK(Cache)'
    <2>1. (IF storage = "memory" THEN EmptyCache ELSE disk) \in Cache
      BY EmptyCacheType DEF TypeOK, SqlTypeOK
    <2>. QED  BY <2>1, SqlCloseType DEF TypeOK, Restart
  <1>2. task' \in [Workers -> Task]
    BY NoTaskType DEF TypeOK, Restart
  <1>3. pc' \in [Workers -> Phases]
    BY DEF TypeOK, Restart, Phases
  <1>. QED  BY <1>1, <1>2, <1>3 DEF TypeOK, Restart

LEMMA GotoType ==
    ASSUME TypeOK, NEW w \in Workers, NEW phase \in Phases, Goto(w, phase)
    PROVE  pc' \in [Workers -> Phases] /\ task' \in [Workers -> Task]
BY DEF TypeOK, Goto

LEMMA FinishType ==
    ASSUME TypeOK, NEW w \in Workers, NEW how \in Phases, Finish(w, how)
    PROVE  pc' \in [Workers -> Phases] /\ task' \in [Workers -> Task]
BY NoTaskType DEF TypeOK, Finish

\* A write of one row keeps the type of the table.
LEMMA PutType ==
    ASSUME TypeOK, NEW w \in Workers, NEW row \in Row \cup {NoRow}
    PROVE  [Rows(w) EXCEPT ![task[w].user] = row] \in Cache
BY DEF TypeOK, SqlTypeOK, Cache, Rows

LEMMA RowOfType ==
    ASSUME TypeOK, NEW w \in Workers
    PROVE  /\ ProcOf[w] \in Procs
           /\ task[w].user \in Users
           /\ Rows(w)[task[w].user] \in Row \cup {NoRow}
           /\ now(w) \in Time
BY AuthCacheAssumption DEF TypeOK, SqlTypeOK, Cache, Rows, Task, now

LEMMA TypeOKInit == Init => TypeOK
  <1>. SUFFICES ASSUME Init PROVE TypeOK
    OBVIOUS
  <1>1. 0 \in Time /\ 0 \in Passwords
    BY AuthCacheAssumption DEF Time, Passwords
  <1>2. SqlTypeOK(Cache)
    BY EmptyCacheType DEF Init, SqlInit, SqlTypeOK, Locks
  <1>. QED  BY <1>1, <1>2, NoTaskType DEF Init, TypeOK, Phases

\* The steps that only move their worker.
LEMMA MoveType ==
    ASSUME TypeOK, SqlTypeOK(Cache)', Unchanged,
           pc' \in [Workers -> Phases], task' \in [Workers -> Task]
    PROVE  TypeOK'
BY DEF TypeOK, Unchanged

LEMMA RaiseType ==
    ASSUME TypeOK, NEW w \in Workers, NEW effect \in BOOLEAN,
           effect => SqlTypeOK(Cache)', Raise(w, effect)
    PROVE  TypeOK'
  <1>1. CASE Threaded
    <2>1. pc' \in [Workers -> Phases] /\ task' \in [Workers -> Task]
      BY <1>1, FinishType DEF Raise, Phases
    <2>. QED  BY <1>1, <2>1, MoveType DEF Raise, Unchanged
  <1>2. CASE ~Threaded
    BY <1>2, RestartType, RowOfType DEF Raise
  <1>. QED  BY <1>1, <1>2

LEMMA AnswerVerifiedType ==
    ASSUME TypeOK, SqlTypeOK(Cache)', NEW w \in Workers, AnswerVerified(w)
    PROVE  TypeOK'
  <1>1. pc' \in [Workers -> Phases] /\ task' \in [Workers -> Task]
    BY FinishType DEF AnswerVerified, Phases
  <1>2. newest' \in [Users -> Nat]
    BY DEF AnswerVerified, TypeOK, Task
  <1>. QED  BY <1>1, <1>2 DEF AnswerVerified, TypeOK

LEMMA ServeType ==
    ASSUME TypeOK, NEW w \in Workers, Serve(w) PROVE TypeOK'
  <1>. USE RowOfType
  <1>0. clock \in Time /\ SqlTypeOK(Cache)
    BY DEF TypeOK
  <1>1. UNCHANGED sqlVars => SqlTypeOK(Cache)'
    BY <1>0 DEF SqlTypeOK, sqlVars
  <1>2. CASE PerDomain(w)
    <2>1. SqlTypeOK(Cache)'
      BY <1>0, <1>1, <1>2, SqlReadType DEF PerDomain
    <2>2. pc' \in [Workers -> Phases] /\ task' \in [Workers -> Task]
      BY <1>2, GotoType, FinishType DEF PerDomain, Phases
    <2>. QED  BY <1>2, <2>1, <2>2, MoveType DEF PerDomain
  <1>3. CASE Lookup(w)
    <2>1. SqlTypeOK(Cache)'
      BY <1>0, <1>1, <1>3, SqlReadType DEF Lookup
    <2>2. pc' \in [Workers -> Phases] /\ task' \in [Workers -> Task]
      BY <1>3, GotoType, FinishType DEF Lookup, Miss, Phases
    <2>. QED  BY <1>3, <2>1, <2>2, MoveType DEF Lookup
  <1>4. CASE LookupRaises(w)
    <2>1. SqlRead(ProcOf[w]) \in BOOLEAN
      BY DEF SqlRead
    <2>2. SqlRead(ProcOf[w]) => SqlTypeOK(Cache)'
      BY <1>0, SqlReadType
    <2>. QED  BY <1>4, <2>1, <2>2, RaiseType DEF LookupRaises
  <1>5. CASE Touch(w)
    <2>1. [Rows(w) EXCEPT ![task[w].user] = Touched(@, now(w))] \in Cache
      BY <1>0, RowLemma, PutType
    <2>2. SqlTypeOK(Cache)'
      BY <1>0, <1>5, <2>1, SqlWriteType DEF Touch
    <2>3. pc' \in [Workers -> Phases] /\ task' \in [Workers -> Task]
      BY <1>5, FinishType DEF Touch, Phases
    <2>. QED  BY <1>5, <2>2, <2>3, MoveType DEF Touch
  <1>6. CASE CloudAccepts(w)
    <2>1. pc' \in [Workers -> Phases] /\ task' \in [Workers -> Task]
      BY <1>6, GotoType DEF CloudAccepts, Phases
    <2>2. verifiedAt' \in [Users -> [Passwords -> Time \cup {Never}]]
      BY <1>0, <1>6 DEF CloudAccepts, TypeOK
    <2>. QED  BY <1>1, <1>6, <2>1, <2>2 DEF CloudAccepts, TypeOK
  <1>7. CASE CloudRefuses(w)
    <2>1. pc' \in [Workers -> Phases] /\ task' \in [Workers -> Task]
      BY <1>7, FinishType DEF CloudRefuses, Phases
    <2>. QED  BY <1>1, <1>7, <2>1, MoveType DEF CloudRefuses
  <1>8. CASE CloudUnreachable(w)
    <2>1. pc' \in [Workers -> Phases]
      BY <1>8 DEF CloudUnreachable, TypeOK, Phases
    <2>2. ASSUME NEW t \in Task PROVE [t EXCEPT !.unreach = TRUE] \in Task
      BY DEF Task
    <2>3. task' = [task EXCEPT ![w] = [task[w] EXCEPT !.unreach = TRUE]]
      BY <1>8 DEF CloudUnreachable
    <2>4. task' \in [Workers -> Task]
      BY <2>2, <2>3 DEF TypeOK
    <2>. QED  BY <1>1, <1>8, <2>1, <2>4, MoveType DEF CloudUnreachable
  <1>9. CASE SkipUpdate(w)
    BY <1>1, <1>9, AnswerVerifiedType DEF SkipUpdate
  <1>10. CASE Begin(w)
    <2>1. pc' \in [Workers -> Phases] /\ task' \in [Workers -> Task]
      BY <1>10, GotoType DEF Begin, Phases
    <2>2. SqlTypeOK(Cache)'
      BY <1>0, <1>10, SqlBeginType DEF Begin
    <2>. QED  BY <1>10, <2>1, <2>2, MoveType DEF Begin
  <1>11. CASE BeginRaises(w)
    BY <1>1, <1>11, RaiseType DEF BeginRaises
  <1>12. CASE Insert(w)
    <2>1. [Rows(w) EXCEPT ![task[w].user] = Inserted(@, now(w))] \in Cache
      BY <1>0, RowLemma, PutType
    <2>2. SqlTypeOK(Cache)'
      BY <1>0, <1>12, <2>1, SqlWriteType DEF Insert
    <2>3. pc' \in [Workers -> Phases] /\ task' \in [Workers -> Task]
      BY <1>12, GotoType DEF Insert, Phases
    <2>. QED  BY <1>12, <2>2, <2>3, MoveType DEF Insert
  <1>13. CASE Update(w)
    <2>0. task[w].n \in Nat
      BY DEF TypeOK, Task
    <2>1. [Rows(w) EXCEPT ![task[w].user] = Updated(@, task[w].n, now(w))] \in Cache
      BY <1>0, <2>0, RowLemma, PutType
    <2>2. SqlTypeOK(Cache)'
      BY <1>0, <1>13, <2>1, SqlWriteType DEF Update
    <2>3. pc' \in [Workers -> Phases] /\ task' \in [Workers -> Task]
      BY <1>13, GotoType DEF Update, Phases
    <2>. QED  BY <1>13, <2>2, <2>3, MoveType DEF Update
  <1>14. CASE Commit(w)
    <2>1. SqlTypeOK(Cache)'
      BY <1>0, <1>14, SqlCommitType DEF Commit
    <2>. QED  BY <1>14, <2>1, AnswerVerifiedType DEF Commit
  <1>15. CASE Busy(w)
    <2>1. SqlCommitBusy(ProcOf[w]) \in BOOLEAN
      BY DEF SqlCommitBusy
    <2>2. SqlCommitBusy(ProcOf[w]) => SqlTypeOK(Cache)'
      BY <1>0, SqlCommitBusyType
    <2>. QED  BY <1>1, <1>15, <2>1, <2>2, RaiseType DEF Busy
  <1>16. CASE CloudMisanswers(w)
    BY <1>1, <1>16, RaiseType DEF CloudMisanswers
  <1>. QED
    BY <1>2, <1>3, <1>4, <1>5, <1>6, <1>7, <1>8, <1>9, <1>10, <1>11, <1>12, <1>13,
       <1>14, <1>15, <1>16 DEF Serve

LEMMA ArriveType ==
    ASSUME TypeOK, NEW w \in Workers, Arrive(w) PROVE TypeOK'
  <1>1. PICK u \in Users, kind \in {"password", "token"}, n \in Nat :
            Request(w, u, kind, n)
    BY AuthCacheAssumption DEF Arrive, Passwords
  <1>2. [user |-> u, kind |-> kind, n |-> n, unreach |-> FALSE,
         arrived |-> clock, floor |-> newest[u]] \in Task
    BY DEF TypeOK, Task
  <1>3. pc' \in [Workers -> Phases] /\ task' \in [Workers -> Task]
    BY <1>1, <1>2 DEF Request, TypeOK, Phases
  <1>4. SqlTypeOK(Cache)'
    BY <1>1 DEF Request, TypeOK, SqlTypeOK, sqlVars
  <1>. QED  BY <1>1, <1>3, <1>4, MoveType DEF Request

LEMMA EnvironmentType ==
    ASSUME TypeOK, Environment PROVE TypeOK'
  <1>1. ASSUME NEW p \in Procs, Crash(p) PROVE TypeOK'
    BY <1>1, RestartType DEF Crash
  <1>2. ASSUME NEW u \in Users, ChangePassword(u) PROVE TypeOK'
    BY <1>2, AuthCacheAssumption
       DEF ChangePassword, TypeOK, Passwords, SqlTypeOK, sqlVars
  <1>3. ASSUME NEW u \in Users, XcDelUser(u) PROVE TypeOK'
    <2>1. [disk EXCEPT ![u] = NoRow] \in Cache
      BY DEF TypeOK, SqlTypeOK, Cache
    <2>. QED  BY <1>3, <2>1 DEF XcDelUser, cacheVars, TypeOK, SqlTypeOK
  <1>4. CASE Tick
    BY <1>4, AuthCacheAssumption DEF Tick, TypeOK, Time, SqlTypeOK, sqlVars
  <1>. QED  BY <1>1, <1>2, <1>3, <1>4 DEF Environment

\* Type correctness of authentication, cache and database.
THEOREM TypeCorrect == Spec => []TypeOK
  <1>1. TypeOK /\ [Next]_vars => TypeOK'
    <2>1. TypeOK /\ UNCHANGED vars => TypeOK'
      BY DEF TypeOK, SqlTypeOK, vars
    <2>. QED  BY <2>1, ArriveType, ServeType, EnvironmentType DEF Next
  <1>. QED  BY <1>1, TypeOKInit, PTL DEF Spec

-----------------------------------------------------------------------------
(* The cache update is exclusive within a process, and no half-filled row  *)
(* is ever committed.                                                      *)

\* The thread that has inserted its row holds the write lock of its process.
UpsertLocked ==
    \A w \in Workers : pc[w] \in {"update", "commit"} => Writer(ProcOf[w])

\* A row without a hash is the one some thread is about to fill.
BufRowsFilled ==
    \A u \in Users : buf[u] # NoRow /\ buf[u].pwhash = NULL =>
        \E w \in Workers : pc[w] = "update" /\ task[w].user = u /\ Writer(ProcOf[w])

FillInv == UpsertExclusive /\ UpsertLocked /\ BufRowsFilled /\ DurableRowsComplete

IInv == TypeOK /\ SqlInv /\ FillInv

\* Steps that change neither the content nor who writes, and take no worker into
\* the update or away from a row it has still to fill.
LEMMA QuietStep ==
    ASSUME IInv, NEW w \in Workers,
           disk' = disk, buf' = buf, open' = open,
           \A p \in Procs : Writer(p)' <=> Writer(p),
           pc[w] # "update", pc'[w] \notin InUpsert,
           \A v \in Workers \ {w} : pc'[v] = pc[v] /\ task'[v] = task[v]
    PROVE  FillInv'
  <1>. USE AuthCacheAssumption
  <1>1. UpsertExclusive'
    BY DEF IInv, FillInv, UpsertExclusive, InUpsert
  <1>2. UpsertLocked'
    BY DEF IInv, FillInv, UpsertLocked, InUpsert
  <1>3. BufRowsFilled'
    BY DEF IInv, FillInv, BufRowsFilled
  <1>4. DurableRowsComplete'
    BY DEF IInv, FillInv, DurableRowsComplete
  <1>. QED  BY <1>1, <1>2, <1>3, <1>4 DEF FillInv

LEMMA TouchedHash ==
    ASSUME NEW row \in Row \cup {NoRow}, NEW t \in Time
    PROVE  /\ Touched(row, t) = NoRow <=> row = NoRow
           /\ row # NoRow => Touched(row, t).pwhash = row.pwhash
BY NoRowAssumption, RowLemma DEF Touched, Row

LEMMA UpdatedHash ==
    ASSUME NEW row \in Row \cup {NoRow}, NEW t \in Time, NEW n \in Nat
    PROVE  Updated(row, n, t) # NoRow => Updated(row, n, t).pwhash # NULL
BY AuthCacheAssumption DEF Updated, Row

\* One writer of a process: nobody else is in its update, and no row of the
\* uncommitted content but the writer's own waits to be filled.
LEMMA OnlyOwnRow ==
    ASSUME IInv, NEW w \in Workers, pc[w] \in {"update", "commit"}
    PROVE  /\ Writer(ProcOf[w]) /\ open[ProcOf[w]]
           /\ \A v \in Workers : pc[v] = "update" /\ Writer(ProcOf[v]) => v = w
           /\ \A u \in Users : buf[u] # NoRow /\ buf[u].pwhash = NULL
                                => pc[w] = "update" /\ u = task[w].user
BY RowOfType
   DEF IInv, FillInv, SqlInv, UpsertLocked, UpsertExclusive, InUpsert, BufRowsFilled

LEMMA TouchFill == ASSUME IInv, NEW w \in Workers, Touch(w) PROVE FillInv'
  <1>. DEFINE p == ProcOf[w]
  <1>. DEFINE u == task[w].user
  <1>. DEFINE c == [Rows(w) EXCEPT ![u] = Touched(@, now(w))]
  <1>1. /\ p \in Procs /\ u \in Users /\ now(w) \in Time
        /\ Rows(w) \in Cache /\ buf \in Cache /\ disk \in Cache
    BY RowOfType DEF IInv, TypeOK, SqlTypeOK, Rows
  <1>2. SqlWrite(p, c) /\ pc[w] = "touch" /\ pc' = [pc EXCEPT ![w] = "yes"]
    BY <1>1 DEF Touch, Finish
  <1>3. /\ pc'[w] = "yes" /\ open' = open /\ buf' = c
        /\ \A v \in Workers \ {w} : pc'[v] = pc[v] /\ task'[v] = task[v]
    BY <1>2 DEF Touch, Finish, SqlWrite, IInv, TypeOK
  <1>4. \A q \in Procs : Writer(q) => Writer(q)'
    BY <1>1, <1>2 DEF SqlWrite, IInv, TypeOK, SqlTypeOK
  <1>5. \A x \in Users : /\ c[x] = NoRow <=> Rows(w)[x] = NoRow
                         /\ c[x] # NoRow => c[x].pwhash = Rows(w)[x].pwhash
    BY <1>1, TouchedHash DEF Cache
  <1>6. UpsertExclusive'
    BY <1>2, <1>3 DEF IInv, FillInv, UpsertExclusive, InUpsert
  <1>7. UpsertLocked'
    BY <1>2, <1>3, <1>4, RowOfType DEF IInv, FillInv, UpsertLocked
  <1>8. Rows(w) = buf
    BY <1>1, <1>2 DEF SqlWrite, MayWrite, MayReserve, Rows, IInv, SqlInv
  <1>9. BufRowsFilled'
    BY <1>2, <1>3, <1>4, <1>5, <1>8, RowOfType DEF IInv, FillInv, BufRowsFilled
  <1>10. DurableRowsComplete'
    <2>1. CASE open[p]
      BY <1>2, <2>1 DEF SqlWrite, IInv, FillInv, DurableRowsComplete
    <2>2. CASE ~open[p]
      <3>1. disk' = c /\ Rows(w) = disk
        BY <1>1, <1>2, <2>2 DEF SqlWrite, Rows, IInv, SqlInv
      <3>. QED  BY <1>5, <3>1 DEF IInv, FillInv, DurableRowsComplete
    <2>. QED  BY <2>1, <2>2
  <1>. QED  BY <1>6, <1>7, <1>9, <1>10 DEF FillInv

LEMMA BeginFill == ASSUME IInv, NEW w \in Workers, Begin(w) PROVE FillInv'
  <1>1. /\ ProcOf[w] \in Procs /\ SqlBegin(ProcOf[w]) /\ pc[w] = "begin"
        /\ pc' = [pc EXCEPT ![w] = "insert"] /\ task' = task
    BY RowOfType DEF Begin, Goto, IInv
  <1>2. \A v \in Workers : ProcOf[v] = ProcOf[w] => pc[v] \notin InUpsert
    BY <1>1 DEF SqlBegin, IInv, FillInv, UpsertExclusive
  <1>3. UpsertExclusive'
    BY <1>1, <1>2, RowOfType
       DEF SqlBegin, IInv, TypeOK, SqlTypeOK, FillInv, UpsertExclusive, InUpsert
  <1>4. UpsertLocked' /\ BufRowsFilled' /\ DurableRowsComplete'
    BY <1>1 DEF SqlBegin, IInv, TypeOK, FillInv, UpsertLocked, BufRowsFilled,
                DurableRowsComplete
  <1>. QED  BY <1>3, <1>4 DEF FillInv

LEMMA InsertFill == ASSUME IInv, NEW w \in Workers, Insert(w) PROVE FillInv'
  <1>. DEFINE p == ProcOf[w]
  <1>. DEFINE u == task[w].user
  <1>. DEFINE c == [Rows(w) EXCEPT ![u] = Inserted(@, now(w))]
  <1>1. /\ p \in Procs /\ u \in Users
        /\ Rows(w) \in Cache /\ buf \in Cache
    BY RowOfType DEF IInv, TypeOK, SqlTypeOK, Rows
  <1>2. /\ SqlWrite(p, c) /\ pc[w] = "insert" /\ task' = task
        /\ pc' = [pc EXCEPT ![w] = "update"]
    BY <1>1 DEF Insert, Goto
  <1>3. open[p] /\ \A v \in Workers \ {w} : ProcOf[v] = p => pc[v] \notin InUpsert
    BY <1>2 DEF IInv, FillInv, UpsertExclusive, InUpsert
  <1>4. /\ pc'[w] = "update" /\ open' = open /\ buf' = c /\ disk' = disk
        /\ \A v \in Workers \ {w} : pc'[v] = pc[v]
    BY <1>2, <1>3 DEF SqlWrite, IInv, TypeOK
  <1>5. Writer(p)' /\ \A q \in Procs : Writer(q) => Writer(q)'
    BY <1>1, <1>2, <1>3 DEF SqlWrite, IInv, TypeOK, SqlTypeOK
  <1>6. Rows(w) = buf
    BY <1>1, <1>2 DEF SqlWrite, MayWrite, MayReserve, Rows, IInv, SqlInv
  <1>7. \A x \in Users \ {u} : c[x] = buf[x]
    BY <1>1, <1>6 DEF Cache
  <1>8. UpsertExclusive'
    BY <1>3, <1>4 DEF IInv, FillInv, UpsertExclusive, InUpsert
  <1>9. UpsertLocked'
    BY <1>4, <1>5, RowOfType DEF IInv, FillInv, UpsertLocked
  <1>10. BufRowsFilled'
    BY <1>1, <1>2, <1>4, <1>5, <1>7, RowOfType DEF IInv, FillInv, BufRowsFilled
  <1>11. DurableRowsComplete'
    BY <1>4 DEF IInv, FillInv, DurableRowsComplete
  <1>. QED  BY <1>8, <1>9, <1>10, <1>11 DEF FillInv

LEMMA UpdateFill == ASSUME IInv, NEW w \in Workers, Update(w) PROVE FillInv'
  <1>. DEFINE p == ProcOf[w]
  <1>. DEFINE u == task[w].user
  <1>. DEFINE c == [Rows(w) EXCEPT ![u] = Updated(@, task[w].n, now(w))]
  <1>1. /\ p \in Procs /\ u \in Users /\ now(w) \in Time /\ task[w].n \in Nat
        /\ Rows(w) \in Cache /\ buf \in Cache
    BY RowOfType DEF IInv, TypeOK, SqlTypeOK, Rows, Task
  <1>2. /\ SqlWrite(p, c) /\ pc[w] = "update" /\ task' = task
        /\ pc' = [pc EXCEPT ![w] = "commit"]
    BY <1>1 DEF Update, Goto
  <1>3. /\ open[p] /\ Writer(p)
        /\ \A x \in Users : buf[x] # NoRow /\ buf[x].pwhash = NULL => x = u
    BY <1>2, OnlyOwnRow
  <1>4. /\ pc'[w] = "commit" /\ open' = open /\ buf' = c /\ disk' = disk
        /\ \A v \in Workers \ {w} : pc'[v] = pc[v]
    BY <1>2, <1>3 DEF SqlWrite, IInv, TypeOK
  <1>5. \A q \in Procs : Writer(q) => Writer(q)'
    BY <1>1, <1>2 DEF SqlWrite, IInv, TypeOK, SqlTypeOK
  <1>6. \A x \in Users : c[x] # NoRow => c[x].pwhash # NULL
    <2>1. Rows(w) = buf
      BY <1>3 DEF Rows
    <2>2. \A x \in Users \ {u} : c[x] = buf[x]
      BY <1>1, <2>1 DEF Cache
    <2>3. c[u] = Updated(Rows(w)[u], task[w].n, now(w)) /\ Rows(w)[u] \in Row \cup {NoRow}
      BY <1>1 DEF Cache
    <2>. QED  BY <1>1, <1>3, <2>2, <2>3, UpdatedHash
  <1>7. UpsertExclusive'
    BY <1>2, <1>4 DEF IInv, FillInv, UpsertExclusive, InUpsert
  <1>8. UpsertLocked'
    BY <1>2, <1>4, <1>5, RowOfType DEF IInv, FillInv, UpsertLocked
  <1>9. BufRowsFilled'
    BY <1>4, <1>6 DEF BufRowsFilled
  <1>10. DurableRowsComplete'
    BY <1>4 DEF IInv, FillInv, DurableRowsComplete
  <1>. QED  BY <1>7, <1>8, <1>9, <1>10 DEF FillInv

LEMMA CommitFill == ASSUME IInv, NEW w \in Workers, Commit(w) PROVE FillInv'
  <1>. DEFINE p == ProcOf[w]
  <1>1. /\ p \in Procs /\ SqlCommit(p) /\ pc[w] = "commit"
        /\ pc' = [pc EXCEPT ![w] = "yes"]
        /\ task' = [task EXCEPT ![w] = NoTask]
    BY RowOfType DEF Commit, AnswerVerified, Finish, IInv
  <1>2. /\ Writer(p)
        /\ \A x \in Users : buf[x] # NoRow => buf[x].pwhash # NULL
    BY <1>1, OnlyOwnRow
  <1>3. /\ disk' = buf /\ buf' = buf
        /\ \A q \in Procs \ {p} : open'[q] = open[q] /\ (Writer(q)' <=> Writer(q))
    BY <1>1, <1>2 DEF SqlCommit, IInv, TypeOK, SqlTypeOK
  <1>4. /\ pc'[w] = "yes"
        /\ \A v \in Workers \ {w} : pc'[v] = pc[v] /\ task'[v] = task[v]
    BY <1>1 DEF IInv, TypeOK
  <1>5. \A v \in Workers \ {w} : ProcOf[v] = p => pc[v] \notin InUpsert
    BY <1>1 DEF IInv, FillInv, UpsertExclusive, InUpsert
  <1>6. UpsertExclusive'
    BY <1>3, <1>4, <1>5, RowOfType DEF IInv, FillInv, UpsertExclusive, InUpsert
  <1>7. UpsertLocked'
    BY <1>3, <1>4, <1>5, RowOfType DEF IInv, FillInv, UpsertLocked, InUpsert
  <1>8. BufRowsFilled' /\ DurableRowsComplete'
    BY <1>2, <1>3 DEF BufRowsFilled, DurableRowsComplete
  <1>. QED  BY <1>6, <1>7, <1>8 DEF FillInv

LEMMA RestartFill == ASSUME IInv, NEW p \in Procs, Restart(p) PROVE FillInv'
  <1>. DEFINE c == IF storage = "memory" THEN EmptyCache ELSE disk
  <1>. USE AuthCacheAssumption
  <1>1. /\ SqlClose(p, c)
        /\ \A v \in Workers : /\ ProcOf[v] = p => pc'[v] \in Resting
                              /\ ProcOf[v] # p => pc'[v] = pc[v] /\ task'[v] = task[v]
    BY DEF Restart, Resting
  <1>2. \A q \in Procs \ {p} : open'[q] = open[q] /\ (Writer(q)' <=> Writer(q))
    BY <1>1 DEF SqlClose, IInv, TypeOK, SqlTypeOK
  <1>3. \A x \in Users : c[x] # NoRow => c[x].pwhash # NULL
    BY DEF EmptyCache, IInv, FillInv, DurableRowsComplete
  <1>4. UpsertExclusive'
    BY <1>1, <1>2 DEF IInv, FillInv, UpsertExclusive, InUpsert, Resting
  <1>5. UpsertLocked'
    BY <1>1, <1>2 DEF IInv, FillInv, UpsertLocked, Resting
  <1>6. BufRowsFilled'
    <2>1. CASE \E q \in Procs \ {p} : Writer(q)
      <3>1. buf' = buf /\ ~Writer(p)
        BY <1>1, <2>1 DEF SqlClose, IInv, SqlInv
      <3>. QED  BY <1>1, <1>2, <3>1 DEF IInv, FillInv, BufRowsFilled
    <2>2. CASE ~ \E q \in Procs \ {p} : Writer(q)
      BY <1>1, <1>3, <2>2 DEF SqlClose, BufRowsFilled
    <2>. QED  BY <2>1, <2>2
  <1>7. DurableRowsComplete'
    BY <1>1, <1>3 DEF SqlClose, DurableRowsComplete
  <1>. QED  BY <1>4, <1>5, <1>6, <1>7 DEF FillInv

Raising(w) == LookupRaises(w) \/ CloudMisanswers(w) \/ BeginRaises(w) \/ Busy(w)

\* A thread that ends by an exception: nobody was at UPDATE, which holds the lock
\* it needs.
LEMMA RaisingSteps ==
    ASSUME IInv, NEW w \in Workers,
           Raising(w)
    PROVE  SqlInv' /\ FillInv'
  <1>. USE RowOfType
  <1>0. TypeOK /\ SqlInv /\ SqlTypeOK(Cache)
    BY DEF IInv, TypeOK
  <1>1. CASE ~Threaded
    <2>1. Restart(ProcOf[w])
      BY <1>1 DEF Raising, LookupRaises, CloudMisanswers, BeginRaises, Busy, Raise
    <2>2. SqlInv'
      BY <1>0, <2>1, SqlInvStep DEF Restart
    <2>. QED  BY <1>0, <2>1, <2>2, RestartFill
  <1>2. CASE Threaded
    <2>1. /\ pc' = [pc EXCEPT ![w] = "lost"] /\ task' = [task EXCEPT ![w] = NoTask]
          /\ pc[w] # "update"
      <3>1. pc[w] = "update" => MayWrite(ProcOf[w])
        BY OnlyOwnRow DEF MayWrite, MayReserve, MayRead, IInv, SqlInv
      <3>. QED  BY <1>2, <3>1
                   DEF Raising, LookupRaises, CloudMisanswers, BeginRaises, Busy, Raise, Finish
    <2>2. /\ pc'[w] \notin InUpsert
          /\ \A v \in Workers \ {w} : pc'[v] = pc[v] /\ task'[v] = task[v]
      BY <1>0, <2>1 DEF TypeOK, InUpsert
    <2>3. \/ SqlRead(ProcOf[w]) \/ UNCHANGED sqlVars \/ SqlCommitBusy(ProcOf[w])
      BY <1>2 DEF Raising, LookupRaises, CloudMisanswers, BeginRaises, Busy, Raise
    <2>4. /\ disk' = disk /\ buf' = buf /\ open' = open
          /\ \A p \in Procs : Writer(p)' <=> Writer(p)
      BY <1>0, <2>3 DEF SqlRead, SqlCommitBusy, sqlVars, SqlTypeOK
    <2>5. SqlInv'
      <3>1. UNCHANGED sqlVars => SqlInv'
        BY <1>0 DEF SqlInv, sqlVars
      <3>. QED  BY <1>0, <2>3, <3>1, SqlInvStep
    <2>6. FillInv'
      BY <2>1, <2>2, <2>4, QuietStep
    <2>. QED  BY <2>5, <2>6
  <1>. QED  BY <1>1, <1>2

\* The steps outside of the update that only read the table, or leave it alone.
LEMMA ReadingMoves ==
    ASSUME IInv, NEW w \in Workers,
           \/ PerDomain(w) \/ Lookup(w) \/ CloudAccepts(w) \/ CloudRefuses(w)
           \/ CloudUnreachable(w) \/ SkipUpdate(w) \/ Arrive(w)
    PROVE  /\ pc[w] \in {"idle", "yes", "no", "lost", "per_domain", "lookup", "cloud",
                         "begin"}
           /\ \E phase \in {"yes", "no", "per_domain", "lookup", "touch", "cloud",
                            "begin"} : pc' = [pc EXCEPT ![w] = phase]
           /\ \E t : task' = [task EXCEPT ![w] = t]
           /\ SqlRead(ProcOf[w]) \/ UNCHANGED sqlVars
  <1>0. TypeOK
    BY DEF IInv
  <1>1. CASE PerDomain(w)
    BY <1>1, <1>0 DEF PerDomain, Finish, Goto, TypeOK
  <1>2. CASE Lookup(w)
    BY <1>2, <1>0 DEF Lookup, Miss, Finish, Goto, TypeOK
  <1>3. CASE CloudAccepts(w)
    BY <1>3, <1>0 DEF CloudAccepts, Goto, TypeOK
  <1>4. CASE CloudRefuses(w)
    BY <1>4 DEF CloudRefuses, Finish
  <1>5. CASE CloudUnreachable(w)
    BY <1>5 DEF CloudUnreachable
  <1>6. CASE SkipUpdate(w)
    BY <1>6 DEF SkipUpdate, AnswerVerified, Finish
  <1>7. CASE Arrive(w)
    BY <1>7 DEF Arrive, Request, Resting
  <1>8. SqlRead(ProcOf[w]) \/ UNCHANGED sqlVars
    BY DEF PerDomain, Lookup, CloudAccepts, CloudRefuses, CloudUnreachable,
           SkipUpdate, Arrive, Request
  <1>. QED  BY <1>8, <1>1, <1>2, <1>3, <1>4, <1>5, <1>6, <1>7

LEMMA ReadingSteps ==
    ASSUME IInv, NEW w \in Workers,
           \/ PerDomain(w) \/ Lookup(w) \/ CloudAccepts(w) \/ CloudRefuses(w)
           \/ CloudUnreachable(w) \/ SkipUpdate(w) \/ Arrive(w)
    PROVE  SqlInv' /\ FillInv'
  <1>0. TypeOK /\ SqlInv /\ SqlTypeOK(Cache) /\ ProcOf[w] \in Procs
    BY RowOfType DEF IInv, TypeOK
  <1>1. SqlRead(ProcOf[w]) \/ UNCHANGED sqlVars
    BY ReadingMoves
  <1>2. /\ pc[w] # "update" /\ pc'[w] \notin InUpsert
        /\ \A v \in Workers \ {w} : pc'[v] = pc[v] /\ task'[v] = task[v]
    BY <1>0, ReadingMoves DEF TypeOK, InUpsert
  <1>3. /\ disk' = disk /\ buf' = buf /\ open' = open
        /\ \A p \in Procs : Writer(p)' <=> Writer(p)
    BY <1>0, <1>1 DEF SqlRead, sqlVars, SqlTypeOK
  <1>4. SqlInv'
    <2>1. UNCHANGED sqlVars => SqlInv'
      BY <1>0 DEF SqlInv, sqlVars
    <2>. QED  BY <1>0, <1>1, <2>1, SqlInvStep
  <1>5. FillInv'
    BY <1>2, <1>3, QuietStep
  <1>. QED  BY <1>4, <1>5

LEMMA EnvironmentFill == ASSUME IInv, Environment PROVE SqlInv' /\ FillInv'
  <1>0. TypeOK /\ SqlInv /\ SqlTypeOK(Cache) /\ FillInv
    BY DEF IInv, TypeOK
  <1>1. ASSUME NEW p \in Procs, Crash(p) PROVE SqlInv' /\ FillInv'
    BY <1>0, <1>1, SqlInvStep, RestartFill DEF Crash, Restart
  <1>2. ASSUME UNCHANGED <<sqlVars, pc, task>> PROVE SqlInv' /\ FillInv'
    BY <1>0, <1>2 DEF sqlVars, SqlInv, FillInv, UpsertExclusive, UpsertLocked,
                      BufRowsFilled, DurableRowsComplete
  <1>3. ASSUME NEW u \in Users, XcDelUser(u) PROVE SqlInv' /\ FillInv'
    <2>1. /\ UNCHANGED <<lock, open, pc, task>> /\ buf' = disk'
          /\ disk' = [disk EXCEPT ![u] = NoRow]
      BY <1>3 DEF XcDelUser, cacheVars
    <2>2. DurableRowsComplete'
      BY <1>0, <2>1 DEF FillInv, DurableRowsComplete, SqlTypeOK, Cache
    <2>3. SqlInv' /\ UpsertExclusive' /\ UpsertLocked'
      BY <1>0, <2>1 DEF SqlInv, FillInv, UpsertExclusive, UpsertLocked
    <2>4. BufRowsFilled'
      BY <2>1, <2>2 DEF BufRowsFilled, DurableRowsComplete
    <2>. QED  BY <2>2, <2>3, <2>4 DEF FillInv
  <1>. QED  BY <1>1, <1>2, <1>3 DEF Environment, ChangePassword, Tick

LEMMA WritingSteps ==
    ASSUME IInv, NEW w \in Workers,
           Touch(w) \/ Begin(w) \/ Insert(w) \/ Update(w) \/ Commit(w)
    PROVE  SqlInv' /\ FillInv'
  <1>0. SqlInv /\ SqlTypeOK(Cache) /\ ProcOf[w] \in Procs
    BY RowOfType DEF IInv, TypeOK
  <1>1. CASE Touch(w)
    BY <1>0, <1>1, SqlInvStep, TouchFill DEF Touch
  <1>2. CASE Begin(w)
    BY <1>0, <1>2, SqlInvStep, BeginFill DEF Begin
  <1>3. CASE Insert(w)
    BY <1>0, <1>3, SqlInvStep, InsertFill DEF Insert
  <1>4. CASE Update(w)
    BY <1>0, <1>4, SqlInvStep, UpdateFill DEF Update
  <1>5. CASE Commit(w)
    BY <1>0, <1>5, SqlInvStep, CommitFill DEF Commit
  <1>. QED  BY <1>1, <1>2, <1>3, <1>4, <1>5

LEMMA IInvInit == Init => IInv
  <1>. SUFFICES ASSUME Init PROVE IInv
    OBVIOUS
  <1>1. SqlInv
    BY DEF Init, SqlInit, SqlInv
  <1>2. FillInv
    BY DEF Init, SqlInit, EmptyCache, FillInv, UpsertExclusive, InUpsert,
           UpsertLocked, BufRowsFilled, DurableRowsComplete
  <1>. QED  BY <1>1, <1>2, TypeOKInit DEF IInv

LEMMA IInvNext == IInv /\ [Next]_vars => IInv'
  <1>. SUFFICES ASSUME IInv, [Next]_vars PROVE IInv'
    OBVIOUS
  <1>0. TypeOK
    BY DEF IInv
  <1>1. ASSUME NEW w \in Workers, Arrive(w) PROVE IInv'
    BY <1>0, <1>1, ArriveType, ReadingSteps DEF IInv
  <1>2. ASSUME NEW w \in Workers, Serve(w) PROVE IInv'
    <2>1. TypeOK'
      BY <1>0, <1>2, ServeType
    <2>2. SqlInv' /\ FillInv'
      BY <1>2, ReadingSteps, WritingSteps, RaisingSteps DEF Serve, Raising
    <2>. QED  BY <2>1, <2>2 DEF IInv
  <1>3. CASE Environment
    BY <1>0, <1>3, EnvironmentType, EnvironmentFill DEF IInv
  <1>4. CASE UNCHANGED vars
    BY <1>4 DEF vars, IInv, TypeOK, SqlTypeOK, SqlInv, FillInv, UpsertExclusive,
                UpsertLocked, BufRowsFilled, DurableRowsComplete
  <1>. QED  BY <1>1, <1>2, <1>3, <1>4 DEF Next

\* One thread of a process at a time is between BEGIN and COMMIT.
THEOREM UpsertIsExclusive == Spec => []UpsertExclusive
  <1>1. IInv => UpsertExclusive
    BY DEF IInv, FillInv
  <1>. QED  BY <1>1, IInvInit, IInvNext, PTL DEF Spec

\* No committed row lacks its hash, whatever crashes, blocks or interleaves.
THEOREM DurableRowsAreComplete == Spec => []DurableRowsComplete
  <1>1. IInv => DurableRowsComplete
    BY DEF IInv, FillInv
  <1>. QED  BY <1>1, IInvInit, IInvNext, PTL DEF Spec

-----------------------------------------------------------------------------
(* One process.                                                            *)

\* A step that neither ends a transaction nor takes a worker out of one.
Keeps ==
    /\ open' = open
    /\ \A v \in Workers : pc[v] \in InUpsert => pc'[v] \in InUpsert

LEMMA AutocommitStep ==
    ASSUME \A p, q \in Procs : p = q, IInv, BackToAutocommit, [Next]_vars
    PROVE  BackToAutocommit'
  <1>. SUFFICES ASSUME NEW p \in Procs, open'[p]
                PROVE  \E w \in Workers : ProcOf[w] = p /\ pc'[w] \in InUpsert
    BY DEF BackToAutocommit
  <1>0. /\ \A w \in Workers : ProcOf[w] = p
        /\ pc \in [Workers -> Phases] /\ open \in [Procs -> BOOLEAN]
    BY RowOfType DEF IInv, TypeOK, SqlTypeOK
  <1>1. CASE Keeps
    BY <1>0, <1>1 DEF Keeps, BackToAutocommit
  <1>2. ASSUME NEW w \in Workers, Begin(w) \/ Insert(w) \/ Update(w)
        PROVE  pc'[w] \in InUpsert
    BY <1>0, <1>2 DEF Begin, Insert, Update, Goto, InUpsert
  <1>3. ASSUME NEW w \in Workers, Commit(w) PROVE FALSE
    BY <1>0, <1>3 DEF Commit, SqlCommit
  <1>4. ASSUME NEW q \in Procs, Restart(q) PROVE FALSE
    BY <1>0, <1>4 DEF Restart, SqlClose
  <1>5. ASSUME NEW w \in Workers,
               \/ PerDomain(w) \/ Lookup(w) \/ CloudAccepts(w) \/ CloudRefuses(w)
               \/ CloudUnreachable(w) \/ SkipUpdate(w) \/ Arrive(w)
        PROVE  Keeps
    <2>1. open' = open
      BY <1>5, ReadingMoves DEF SqlRead, sqlVars
    <2>2. pc[w] \notin InUpsert /\ \A v \in Workers \ {w} : pc'[v] = pc[v]
      BY <1>0, <1>5, ReadingMoves DEF InUpsert
    <2>. QED  BY <2>1, <2>2 DEF Keeps
  <1>6. ASSUME NEW w \in Workers, Touch(w) PROVE Keeps
    BY <1>0, <1>6 DEF Touch, SqlWrite, Finish, Keeps, InUpsert
  <1>7. ASSUME NEW w \in Workers, Raising(w)
        PROVE  Keeps
    <2>1. MayRead(p) /\ MayWrite(p) /\ MayExclude(p)
      BY DEF MayRead, MayWrite, MayReserve, MayExclude
    <2>2. ~Busy(w)
      BY <1>0, <2>1 DEF Busy
    <2>3. CASE Threaded
      <3>1. pc[w] \notin InUpsert /\ Finish(w, "lost") /\ open' = open
        BY <1>7, <2>2, <2>3
           DEF Raising, LookupRaises, CloudMisanswers, BeginRaises, Raise, SqlRead, InUpsert, sqlVars
      <3>. QED  BY <1>0, <3>1 DEF Keeps, Finish
    <2>4. CASE ~Threaded
      BY <1>0, <1>4, <1>7, <2>2, <2>4 DEF Raising, LookupRaises, CloudMisanswers, BeginRaises, Raise
    <2>. QED  BY <2>3, <2>4
  <1>8. ASSUME NEW u \in Users, ChangePassword(u) \/ XcDelUser(u) PROVE Keeps
    <2>1. open' = open /\ pc' = pc
      BY <1>8 DEF ChangePassword, XcDelUser, cacheVars, sqlVars
    <2>. QED  BY <2>1 DEF Keeps
  <1>9. ASSUME Tick \/ UNCHANGED vars PROVE Keeps
    <2>1. UNCHANGED <<sqlVars, pc>> \/ UNCHANGED vars
      BY <1>9 DEF Tick
    <2>. QED  BY <2>1 DEF vars, sqlVars, Keeps
  <1>. QED  BY <1>0, <1>1, <1>2, <1>3, <1>4, <1>5, <1>6, <1>7, <1>8, <1>9
            DEF Next, Serve, Raising, Environment, Crash

\* Without other processes no statement waits for a lock, so no request ends
\* inside its transaction, by an exception or otherwise: the connection is back in
\* autocommit mode when the worker that began one is done with it.
THEOREM OneProcessReturnsToAutocommit ==
    ASSUME \A p, q \in Procs : p = q PROVE Spec => []BackToAutocommit
  <1>1. Init => IInv /\ BackToAutocommit
    BY IInvInit DEF Init, SqlInit, BackToAutocommit
  <1>2. (IInv /\ BackToAutocommit) /\ [Next]_vars => (IInv /\ BackToAutocommit)'
    BY IInvNext, AutocommitStep
  <1>. QED  BY <1>1, <1>2, PTL DEF Spec
=============================================================================
