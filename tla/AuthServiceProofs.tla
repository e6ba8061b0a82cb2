-------------------------- MODULE AuthServiceProofs --------------------------
(***************************************************************************)
(* Theorems about what AuthCache decides: what the rows of the cache mean, *)
(* which answers follow, and that it implements AuthService.  They rest on *)
(* the invariant IInv of AuthCacheProofs.                                  *)
(***************************************************************************)
EXTENDS AuthCacheProofs

USE DEF Writer, View

-----------------------------------------------------------------------------
(* How a step changes the cache, and where it takes a worker.              *)

\* A statement puts one row.
Puts(w, row) ==
    /\ buf' = [buf EXCEPT ![task[w].user] = row]
    /\ disk' \in {disk, buf'}

PutsSome(w) ==
    \/ Touch(w) /\ Puts(w, Touched(buf[task[w].user], now(w)))
    \/ Insert(w) /\ Puts(w, Inserted(buf[task[w].user], now(w)))
    \/ Update(w) /\ Puts(w, Updated(buf[task[w].user], task[w].n, now(w)))

\* Of the connections that are closed, all are when the cache is in memory.
Rolls == \/ disk' = disk /\ buf' \in {buf, disk}
         \/ disk' = EmptyCache /\ buf' = EmptyCache

DbStep ==
    \/ UNCHANGED <<disk, buf>>
    \/ \E w \in Workers : PutsSome(w)
    \/ disk' = buf /\ buf' = buf
    \/ Rolls
    \/ \E u \in Users : disk' = [disk EXCEPT ![u] = NoRow] /\ buf' = disk'

LEMMA WriterSeesBuf ==
    ASSUME IInv, NEW w \in Workers, NEW c, SqlWrite(ProcOf[w], c) PROVE Rows(w) = buf
BY RowOfType DEF SqlWrite, MayWrite, MayReserve, Rows, IInv, SqlInv

LEMMA WritePuts ==
    ASSUME IInv, NEW w \in Workers, NEW row,
           SqlWrite(ProcOf[w], [Rows(w) EXCEPT ![task[w].user] = row])
    PROVE  Rows(w) = buf /\ Puts(w, row)
  <1>1. Rows(w) = buf
    BY WriterSeesBuf
  <1>. QED  BY <1>1 DEF SqlWrite, Puts

LEMMA WritersPut ==
    ASSUME IInv, NEW w \in Workers
    PROVE  /\ Touch(w) => Puts(w, Touched(buf[task[w].user], now(w)))
           /\ Insert(w) => Puts(w, Inserted(buf[task[w].user], now(w)))
           /\ Update(w) => Puts(w, Updated(buf[task[w].user], task[w].n, now(w)))
  <1>1. ASSUME Touch(w) PROVE Puts(w, Touched(buf[task[w].user], now(w)))
    <2>1. SqlWrite(ProcOf[w], [Rows(w) EXCEPT ![task[w].user] =
                                  Touched(Rows(w)[task[w].user], now(w))])
      BY <1>1 DEF Touch
    <2>. QED  BY <2>1, WritePuts
  <1>2. ASSUME Insert(w) PROVE Puts(w, Inserted(buf[task[w].user], now(w)))
    <2>1. SqlWrite(ProcOf[w], [Rows(w) EXCEPT ![task[w].user] =
                                  Inserted(Rows(w)[task[w].user], now(w))])
      BY <1>2 DEF Insert
    <2>. QED  BY <2>1, WritePuts
  <1>3. ASSUME Update(w) PROVE Puts(w, Updated(buf[task[w].user], task[w].n, now(w)))
    <2>1. SqlWrite(ProcOf[w], [Rows(w) EXCEPT ![task[w].user] =
                                  Updated(Rows(w)[task[w].user], task[w].n, now(w))])
      BY <1>3 DEF Update
    <2>. QED  BY <2>1, WritePuts
  <1>. QED  BY <1>1, <1>2, <1>3

LEMMA RestartRolls == ASSUME IInv, NEW p \in Procs, Restart(p) PROVE Rolls
  <1>1. CASE storage = "memory"
    <2>1. \A q \in Procs : q = p
      BY <1>1, AuthCacheAssumption DEF IInv, TypeOK
    <2>. QED  BY <1>1, <2>1 DEF Restart, SqlClose, Rolls
  <1>2. CASE storage # "memory"
    BY <1>2 DEF Restart, SqlClose, Rolls
  <1>. QED  BY <1>1, <1>2

LEMMA NextDbStep == ASSUME IInv, [Next]_vars PROVE DbStep
  <1>1. ASSUME NEW w \in Workers,
               \/ PerDomain(w) \/ Lookup(w) \/ CloudAccepts(w) \/ CloudRefuses(w)
               \/ CloudUnreachable(w) \/ SkipUpdate(w) \/ Arrive(w)
        PROVE  UNCHANGED <<disk, buf>>
    BY <1>1, ReadingMoves DEF SqlRead, sqlVars
  <1>2. ASSUME NEW w \in Workers, Touch(w) \/ Insert(w) \/ Update(w) PROVE PutsSome(w)
    BY <1>2, WritersPut DEF PutsSome
  <1>3. ASSUME NEW w \in Workers, Begin(w) PROVE UNCHANGED <<disk, buf>>
    BY <1>3 DEF Begin, SqlBegin
  <1>4. ASSUME NEW w \in Workers, Commit(w) PROVE disk' = buf /\ buf' = buf
    BY <1>4, OnlyOwnRow DEF Commit, SqlCommit
  <1>5. ASSUME NEW w \in Workers, Raising(w)
        PROVE  UNCHANGED <<disk, buf>> \/ Rolls
    <2>1. CASE Threaded
      <3>1. SqlRead(ProcOf[w]) \/ UNCHANGED sqlVars \/ SqlCommitBusy(ProcOf[w])
        BY <1>5, <2>1 DEF Raising, LookupRaises, CloudMisanswers, BeginRaises, Busy, Raise
      <3>. QED  BY <3>1 DEF SqlRead, SqlCommitBusy, sqlVars
    <2>2. CASE ~Threaded
      BY <1>5, <2>2, RestartRolls, RowOfType
         DEF Raising, LookupRaises, CloudMisanswers, BeginRaises, Busy, Raise, IInv
    <2>. QED  BY <2>1, <2>2
  <1>6. ASSUME NEW p \in Procs, Crash(p) PROVE Rolls
    BY <1>6, RestartRolls DEF Crash
  <1>7. ASSUME NEW u \in Users, XcDelUser(u)
        PROVE  disk' = [disk EXCEPT ![u] = NoRow] /\ buf' = disk'
    BY <1>7 DEF XcDelUser
  <1>8. ASSUME NEW u \in Users, ChangePassword(u) PROVE UNCHANGED <<disk, buf>>
    <2>1. UNCHANGED sqlVars
      BY <1>8 DEF ChangePassword
    <2>. QED  BY <2>1 DEF sqlVars
  <1>9. ASSUME Tick \/ UNCHANGED vars PROVE UNCHANGED <<disk, buf>>
    <2>1. UNCHANGED sqlVars \/ UNCHANGED vars
      BY <1>9 DEF Tick
    <2>. QED  BY <2>1 DEF vars, sqlVars
  <1>. QED  BY <1>1, <1>2, <1>3, <1>4, <1>5, <1>6, <1>7, <1>8, <1>9
            DEF Next, Serve, Raising, Environment, DbStep

\* A worker on its way to a yes was on it before, or takes one of two steps.
TakenByCloud(w) == CloudAccepts(w) /\ pc'[w] = "begin"
FoundInCache(w) ==
    Lookup(w) /\ pc'[w] = "touch" /\ Candidate(w) /\ CheckPw(RowOf(w), w)

WorkerStep(w) ==
    /\ started'[ProcOf[w]] = started[ProcOf[w]] /\ task'[w] = task[w]
    /\ \/ pc[w] \in Accepting /\ (pc'[w] = "touch" <=> pc[w] = "touch")
       \/ TakenByCloud(w)
       \/ FoundInCache(w)

\* What a step of another worker or of the environment leaves alone.
LEMMA OtherWorkers ==
    ASSUME IInv, [Next]_vars, NEW w \in Workers, ~Arrive(w), ~Serve(w), pc'[w] \notin Resting
    PROVE  /\ pc'[w] = pc[w] /\ task'[w] = task[w]
           /\ started'[ProcOf[w]] = started[ProcOf[w]]
  <1>0. ProcOf[w] \in Procs
    BY RowOfType DEF IInv
  <1>1. ASSUME NEW p \in Procs, Restart(p)
        PROVE  /\ pc'[w] = pc[w] /\ task'[w] = task[w]
               /\ started'[ProcOf[w]] = started[ProcOf[w]]
    BY <1>0, <1>1 DEF Restart, Resting, IInv, TypeOK
  <1>2. ASSUME NEW v \in Workers \ {w},
               \/ PerDomain(v) \/ Lookup(v) \/ CloudAccepts(v) \/ CloudRefuses(v)
               \/ CloudUnreachable(v) \/ SkipUpdate(v) \/ Arrive(v)
        PROVE  pc'[w] = pc[w] /\ task'[w] = task[w] /\ started' = started
    <2>1. pc'[w] = pc[w] /\ task'[w] = task[w]
      BY <1>2, ReadingMoves DEF IInv, TypeOK
    <2>2. started' = started
      BY <1>2 DEF PerDomain, Lookup, CloudAccepts, CloudRefuses, CloudUnreachable,
                  SkipUpdate, AnswerVerified, Arrive, Request, Unchanged
    <2>. QED  BY <2>1, <2>2
  <1>3. ASSUME NEW v \in Workers \ {w},
               Touch(v) \/ Begin(v) \/ Insert(v) \/ Update(v) \/ Commit(v)
        PROVE  pc'[w] = pc[w] /\ task'[w] = task[w] /\ started' = started
    BY <1>3 DEF Touch, Begin, Insert, Update, Commit, AnswerVerified, Finish, Goto,
                Unchanged, IInv, TypeOK
  <1>4. ASSUME NEW v \in Workers \ {w}, Raising(v)
        PROVE  /\ pc'[w] = pc[w] /\ task'[w] = task[w]
               /\ started'[ProcOf[w]] = started[ProcOf[w]]
    <2>1. CASE Threaded
      BY <1>4, <2>1
         DEF Raising, LookupRaises, CloudMisanswers, BeginRaises, Busy, Raise, Finish, IInv, TypeOK
    <2>2. CASE ~Threaded
      BY <1>1, <1>4, <2>2, RowOfType
         DEF Raising, LookupRaises, CloudMisanswers, BeginRaises, Busy, Raise, IInv
    <2>. QED  BY <2>1, <2>2
  <1>5. ASSUME NEW u \in Users, ChangePassword(u) \/ XcDelUser(u)
        PROVE  pc'[w] = pc[w] /\ task'[w] = task[w] /\ started' = started
    BY <1>5 DEF ChangePassword, XcDelUser, cacheVars
  <1>6. CASE Tick \/ UNCHANGED vars
    <2>1. UNCHANGED <<started, pc, task>> \/ UNCHANGED vars
      BY <1>6 DEF Tick
    <2>. QED  BY <2>1 DEF vars
  <1>. QED  BY <1>1, <1>2, <1>3, <1>4, <1>5, <1>6 DEF Next, Serve, Raising, Environment, Crash

LEMMA NextWorkerStep ==
    ASSUME IInv, [Next]_vars, NEW w \in Workers, pc'[w] \in Accepting
    PROVE  WorkerStep(w)
  <1>0. /\ pc \in [Workers -> Phases] /\ ProcOf[w] \in Procs
        /\ pc'[w] \notin Resting /\ pc'[w] \notin {"per_domain", "lookup", "cloud"}
    BY RowOfType DEF IInv, TypeOK, Accepting, InUpsert, Resting
  <1>1. CASE ~Arrive(w) /\ ~Serve(w)
    BY <1>0, <1>1, OtherWorkers DEF WorkerStep
  <1>2. CASE Arrive(w)
    BY <1>0, <1>2 DEF Arrive, Request
  <1>3. CASE PerDomain(w) \/ CloudRefuses(w) \/ CloudUnreachable(w) \/ SkipUpdate(w)
    BY <1>0, <1>3 DEF PerDomain, CloudRefuses, CloudUnreachable, SkipUpdate,
                      AnswerVerified, Finish, Goto, Resting
  <1>4. CASE Touch(w) \/ Commit(w)
    BY <1>0, <1>4 DEF Touch, Commit, AnswerVerified, Finish, Resting
  <1>5. CASE Raising(w)
    <2>1. pc'[w] \in Resting
      <3>1. CASE Threaded
        BY <1>0, <1>5, <3>1
           DEF Raising, LookupRaises, CloudMisanswers, BeginRaises, Busy, Raise, Finish, Resting
      <3>2. CASE ~Threaded
        BY <1>0, <1>5, <3>2
           DEF Raising, LookupRaises, CloudMisanswers, BeginRaises, Busy, Raise, Restart, Resting
      <3>. QED  BY <3>1, <3>2
    <2>. QED  BY <1>0, <2>1
  <1>6. CASE CloudAccepts(w)
    BY <1>0, <1>6 DEF CloudAccepts, Goto, WorkerStep, TakenByCloud
  <1>7. CASE Lookup(w)
    BY <1>0, <1>7 DEF Lookup, Miss, Goto, Finish, Unchanged, WorkerStep, FoundInCache, Resting
  <1>8. CASE Begin(w) \/ Insert(w) \/ Update(w)
    BY <1>0, <1>8 DEF Begin, Insert, Update, Goto, Unchanged, WorkerStep, Accepting, InUpsert
  <1>. QED  BY <1>1, <1>2, <1>3, <1>4, <1>5, <1>6, <1>7, <1>8 DEF Serve, Raising

\* The times of a step: the clock runs forward, a process is started and a
\* password verified at the present.
LEMMA NextTimeStep ==
    ASSUME IInv, [Next]_vars
    PROVE  /\ clock <= clock'
           /\ \A p \in Procs : started'[p] \in {started[p], clock}
           /\ \A u \in Users, n \in Passwords :
                  verifiedAt'[u][n] \in {verifiedAt[u][n], clock}
  <1>0. TypeOK /\ clock \in Nat
    BY DEF IInv, TypeOK, Time
  <1>1. ASSUME Unchanged \/ UNCHANGED <<clock, started, verifiedAt>>
        PROVE  clock' = clock /\ started' = started /\ verifiedAt' = verifiedAt
    BY <1>1 DEF Unchanged
  <1>2. ASSUME NEW p \in Procs, Restart(p)
        PROVE  /\ clock' = clock /\ verifiedAt' = verifiedAt
               /\ \A q \in Procs : started'[q] \in {started[q], clock}
    BY <1>0, <1>2 DEF Restart, TypeOK
  <1>3. CASE \E w \in Workers : CloudAccepts(w)
    <2>1. PICK w \in Workers : CloudAccepts(w)
      BY <1>3
    <2>. QED  BY <1>0, <2>1 DEF CloudAccepts, TypeOK
  <1>4. CASE \E w \in Workers : Raising(w)
    <2>1. PICK w \in Workers : Raising(w)
      BY <1>4
    <2>2. CASE Threaded
      <3>1. UNCHANGED <<clock, started, verifiedAt>>
        BY <2>1, <2>2 DEF Raising, LookupRaises, CloudMisanswers, BeginRaises, Busy, Raise
      <3>. QED  BY <1>0, <1>1, <3>1
    <2>3. CASE ~Threaded
      <3>1. ProcOf[w] \in Procs /\ Restart(ProcOf[w])
        BY <1>0, <2>1, <2>3, RowOfType
           DEF Raising, LookupRaises, CloudMisanswers, BeginRaises, Busy, Raise
      <3>. QED  BY <1>0, <1>2, <3>1
    <2>. QED  BY <2>2, <2>3
  <1>5. CASE Tick
    BY <1>0, <1>5 DEF Tick
  <1>6. CASE \E p \in Procs : Crash(p)
    BY <1>0, <1>2, <1>6 DEF Crash
  <1>7. ASSUME \/ \E w \in Workers :
                    \/ Arrive(w) \/ PerDomain(w) \/ Lookup(w) \/ CloudRefuses(w)
                    \/ CloudUnreachable(w) \/ SkipUpdate(w)
                    \/ Begin(w) \/ Insert(w) \/ Update(w) \/ Commit(w) \/ Touch(w)
               \/ \E u \in Users : ChangePassword(u) \/ XcDelUser(u)
               \/ UNCHANGED vars
        PROVE  UNCHANGED <<clock, started, verifiedAt>>
    BY <1>7 DEF Arrive, Request, PerDomain, Lookup, CloudRefuses, CloudUnreachable,
                SkipUpdate, AnswerVerified, Begin, Insert, Update, Commit, Touch,
                Unchanged, ChangePassword, XcDelUser, cacheVars, vars
  <1>. QED  BY <1>0, <1>1, <1>3, <1>4, <1>5, <1>6, <1>7 DEF Next, Serve, Raising, Environment

-----------------------------------------------------------------------------
(* What a row of the cache says is true: the cloud has accepted its        *)
(* password, and not before the time the row gives.                        *)

RowSound(row, accepted) ==
    row # NoRow /\ row.pwhash # NULL =>
        /\ row.pwhash \in Passwords
        /\ accepted[row.pwhash] # Never
        /\ row.remoteauth <= accepted[row.pwhash]

RowsSound ==
    \A u \in Users : RowSound(disk[u], verifiedAt[u]) /\ RowSound(buf[u], verifiedAt[u])

\* No process was started and no password verified in the future.
TimesSound ==
    /\ \A p \in Procs : started[p] <= clock
    /\ \A u \in Users, n \in Passwords : verifiedAt[u][n] <= clock

\* The cloud has accepted the password of a worker that stores it, since the
\* process was started.
Verified(w) ==
    /\ task[w].kind = "password"
    /\ task[w].n \in Passwords
    /\ verifiedAt[task[w].user][task[w].n] # Never
    /\ now(w) <= verifiedAt[task[w].user][task[w].n]

WorkersSound ==
    \A w \in Workers :
        /\ pc[w] \in {"begin"} \cup InUpsert => Verified(w)
        /\ pc[w] = "touch" => task[w].n \in Passwords

DInv == IInv /\ TimesSound /\ RowsSound /\ WorkersSound /\ CacheDecisionSound

\* A row stays sound when passwords are verified again.
LEMMA RowStaysSound ==
    ASSUME NEW row \in Row \cup {NoRow},
           NEW old \in [Passwords -> Time \cup {Never}],
           NEW new \in [Passwords -> Time \cup {Never}],
           \A n \in Passwords : new[n] >= old[n],
           RowSound(row, old)
    PROVE  RowSound(row, new)
  <1>1. CASE row = NoRow
    BY <1>1 DEF RowSound
  <1>2. CASE row \in Row /\ row.pwhash # NULL
    BY <1>2, AuthCacheAssumption DEF RowSound, Row, Time, Never
  <1>3. CASE row \in Row /\ row.pwhash = NULL
    BY <1>3 DEF RowSound
  <1>. QED  BY <1>1, <1>2, <1>3

LEMMA VerifiedMonotone ==
    ASSUME IInv, TimesSound, [Next]_vars
    PROVE  \A u \in Users, n \in Passwords :
               /\ verifiedAt'[u][n] >= verifiedAt[u][n]
               /\ verifiedAt[u][n] # Never => verifiedAt'[u][n] # Never
BY NextTimeStep DEF IInv, TypeOK, TimesSound, Time, Never

LEMMA TimesStep == ASSUME IInv, TimesSound, [Next]_vars PROVE TimesSound'
  <1>1. clock \in Nat /\ clock' \in Nat /\ IInv'
    BY IInvNext DEF IInv, TypeOK, Time
  <1>2. /\ \A p \in Procs : started[p] \in Nat
        /\ \A u \in Users, n \in Passwords : verifiedAt[u][n] \in Nat \cup {Never}
    BY DEF IInv, TypeOK, Time
  <1>. QED  BY <1>1, <1>2, NextTimeStep DEF TimesSound, Never

LEMMA RowsStep == ASSUME DInv, [Next]_vars PROVE RowsSound'
  <1>0. IInv /\ TimesSound /\ RowsSound /\ IInv'
    BY IInvNext DEF DInv
  <1>1. /\ disk \in Cache /\ buf \in Cache
        /\ verifiedAt \in [Users -> [Passwords -> Time \cup {Never}]]
        /\ verifiedAt' \in [Users -> [Passwords -> Time \cup {Never}]]
    BY <1>0 DEF IInv, TypeOK, SqlTypeOK
  <1>2. ASSUME NEW u \in Users
        PROVE  RowSound(disk[u], verifiedAt'[u]) /\ RowSound(buf[u], verifiedAt'[u])
    BY <1>0, <1>1, VerifiedMonotone, RowStaysSound DEF RowsSound, Cache
  <1>4. \A accepted : RowSound(NoRow, accepted)
    BY DEF RowSound
  <1>5. ASSUME NEW w \in Workers, NEW row, Puts(w, row),
               RowSound(row, verifiedAt'[task[w].user])
        PROVE  RowsSound'
    BY <1>1, <1>2, <1>5 DEF Puts, RowsSound, Cache
  <1>6. ASSUME NEW w \in Workers, PutsSome(w) PROVE RowsSound'
    <2>0. /\ task[w].user \in Users /\ now(w) \in Time /\ task[w].n \in Nat
          /\ buf[task[w].user] \in Row \cup {NoRow}
      BY <1>0, <1>1, RowOfType DEF IInv, TypeOK, Task, Cache
    <2>1. RowSound(buf[task[w].user], verifiedAt'[task[w].user])
      BY <1>2, <2>0
    <2>2. RowSound(Touched(buf[task[w].user], now(w)), verifiedAt'[task[w].user])
      BY <2>0, <2>1, NoRowAssumption DEF RowSound, Touched, Row
    <2>3. RowSound(Inserted(buf[task[w].user], now(w)), verifiedAt'[task[w].user])
      BY <2>0, <2>1, NoRowAssumption DEF RowSound, Inserted, Row
    <2>4. ASSUME Update(w)
          PROVE  RowSound(Updated(buf[task[w].user], task[w].n, now(w)),
                          verifiedAt'[task[w].user])
      <3>1. Verified(w)
        BY <2>4 DEF Update, DInv, WorkersSound, InUpsert
      <3>2. /\ task[w].n \in Passwords
            /\ verifiedAt'[task[w].user][task[w].n] # Never
            /\ now(w) <= verifiedAt'[task[w].user][task[w].n]
        BY <1>0, <1>1, <2>0, <3>1, VerifiedMonotone, AuthCacheAssumption
           DEF Verified, Time, Never
      <3>. QED  BY <2>0, <3>2, NoRowAssumption DEF RowSound, Updated, Row
    <2>. QED  BY <1>5, <1>6, <2>2, <2>3, <2>4 DEF PutsSome
  <1>7. CASE Rolls
    BY <1>1, <1>2, <1>4, <1>7 DEF Rolls, RowsSound, EmptyCache
  <1>8. ASSUME NEW u \in Users, disk' = [disk EXCEPT ![u] = NoRow], buf' = disk'
        PROVE  RowsSound'
    BY <1>1, <1>2, <1>4, <1>8 DEF RowsSound, Cache
  <1>9. CASE UNCHANGED <<disk, buf>> \/ (disk' = buf /\ buf' = buf)
    BY <1>2, <1>9 DEF RowsSound
  <1>. QED  BY <1>0, <1>6, <1>7, <1>8, <1>9, NextDbStep DEF DbStep

\* A worker on its way to a yes has the cloud's word for its password, or the
\* cache's.
WorkerSound(w) ==
    /\ pc[w] \in {"begin"} \cup InUpsert => Verified(w)
    /\ pc[w] = "touch" =>
         LET at == verifiedAt[task[w].user][task[w].n] IN
         /\ task[w].kind = "password" /\ task[w].n \in Passwords
         /\ at # Never
         /\ \/ now(w) < at + VerifyTTL
            \/ task[w].unreach /\ now(w) < at + UnreachTTL

LEMMA WorkerSoundLemma ==
    WorkersSound /\ CacheDecisionSound <=> \A w \in Workers : WorkerSound(w)
BY DEF WorkersSound, CacheDecisionSound, WorkerSound

\* The cache says yes only on the strength of a sound row.
LEMMA FoundSound ==
    ASSUME IInv, RowsSound, NEW w \in Workers, Candidate(w), CheckPw(RowOf(w), w)
    PROVE  LET at == verifiedAt[task[w].user][task[w].n] IN
           /\ task[w].kind = "password" /\ task[w].n \in Passwords
           /\ at # Never
           /\ \/ now(w) < at + VerifyTTL
              \/ task[w].unreach /\ now(w) < at + UnreachTTL
  <1>1. /\ task[w].user \in Users /\ task[w].n \in Nat /\ now(w) \in Nat
        /\ RowOf(w) \in Row /\ RowOf(w).remoteauth \in Nat
        /\ RowOf(w) \in {disk[task[w].user], buf[task[w].user]}
        /\ verifiedAt[task[w].user] \in [Passwords -> Time \cup {Never}]
    BY RowOfType DEF IInv, TypeOK, Task, Candidate, RowOf, Rows, Row, Time
  <1>2. RowSound(RowOf(w), verifiedAt[task[w].user])
    BY <1>1 DEF RowsSound
  <1>3. task[w].kind = "password" /\ RowOf(w).pwhash = task[w].n /\ task[w].n # NULL
    BY <1>1, AuthCacheAssumption DEF CheckPw
  <1>4. /\ task[w].n \in Passwords
        /\ verifiedAt[task[w].user][task[w].n] # Never
        /\ RowOf(w).remoteauth <= verifiedAt[task[w].user][task[w].n]
    BY <1>2, <1>3 DEF RowSound, Candidate
  <1>5. verifiedAt[task[w].user][task[w].n] \in Nat
    BY <1>1, <1>4 DEF Time
  <1>6. \/ RowOf(w).remoteauth + VerifyTTL > now(w)
        \/ task[w].unreach /\ RowOf(w).remoteauth + UnreachTTL > now(w)
    BY DEF Candidate, Fresh
  <1>. QED  BY <1>1, <1>3, <1>4, <1>5, <1>6, AuthCacheAssumption

LEMMA WorkerSoundStep ==
    ASSUME DInv, [Next]_vars, NEW w \in Workers PROVE WorkerSound(w)'
  <1>. SUFFICES ASSUME pc'[w] \in Accepting PROVE WorkerSound(w)'
    BY DEF WorkerSound, Accepting
  <1>0. /\ IInv /\ TimesSound /\ RowsSound /\ IInv' /\ WorkerSound(w)
        /\ ProcOf[w] \in Procs /\ task[w].user \in Users /\ now(w) \in Nat
        /\ clock \in Nat /\ started[ProcOf[w]] <= clock
        /\ verifiedAt \in [Users -> [Passwords -> Time \cup {Never}]]
        /\ verifiedAt' \in [Users -> [Passwords -> Time \cup {Never}]]
    BY IInvNext, RowOfType, WorkerSoundLemma DEF DInv, TimesSound, IInv, TypeOK, Time
  <1>1. WorkerStep(w)
    BY <1>0, NextWorkerStep
  <1>2. now(w)' = now(w) /\ task'[w] = task[w]
    BY <1>1 DEF WorkerStep, now
  <1>3. ASSUME task[w].n \in Passwords, verifiedAt[task[w].user][task[w].n] # Never
        PROVE  /\ verifiedAt'[task[w].user][task[w].n] \in Nat
               /\ verifiedAt[task[w].user][task[w].n] \in Nat
               /\ verifiedAt'[task[w].user][task[w].n] >= verifiedAt[task[w].user][task[w].n]
    BY <1>0, <1>3, VerifiedMonotone DEF Time
  <1>4. CASE pc[w] \in Accepting /\ (pc'[w] = "touch" <=> pc[w] = "touch")
    <2>1. CASE pc[w] = "touch"
      BY <1>0, <1>2, <1>3, <1>4, <2>1, AuthCacheAssumption
         DEF WorkerSound, InUpsert, Never
    <2>2. CASE pc[w] # "touch"
      BY <1>0, <1>2, <1>3, <1>4, <2>2 DEF WorkerSound, Verified, Accepting, Never
    <2>. QED  BY <2>1, <2>2
  <1>5. CASE TakenByCloud(w)
    <2>1. task[w].kind = "password" /\ task[w].n \in Passwords
      BY <1>0, <1>5 DEF TakenByCloud, CloudAccepts, IInv, TypeOK
    <2>2. verifiedAt'[task[w].user][task[w].n] = clock /\ pc'[w] = "begin"
      BY <1>0, <1>5, <2>1 DEF TakenByCloud, CloudAccepts
    <2>. QED  BY <1>0, <1>2, <2>1, <2>2 DEF WorkerSound, Verified, now, Never
  <1>6. CASE FoundInCache(w)
    <2>1. pc'[w] = "touch" /\ Candidate(w) /\ CheckPw(RowOf(w), w)
      BY <1>6 DEF FoundInCache
    <2>. QED  BY <1>0, <1>2, <1>3, <2>1, FoundSound, AuthCacheAssumption
              DEF WorkerSound, InUpsert, Never
  <1>. QED  BY <1>1, <1>4, <1>5, <1>6 DEF WorkerStep

LEMMA DInvInit == Init => DInv
  <1>. SUFFICES ASSUME Init PROVE DInv
    OBVIOUS
  <1>1. IInv
    BY IInvInit
  <1>2. TimesSound
    BY DEF Init, TimesSound, Never
  <1>3. RowsSound
    BY DEF Init, SqlInit, EmptyCache, RowsSound, RowSound
  <1>4. WorkersSound /\ CacheDecisionSound
    BY DEF Init, WorkersSound, CacheDecisionSound, InUpsert
  <1>. QED  BY <1>1, <1>2, <1>3, <1>4 DEF DInv

LEMMA DInvNext == DInv /\ [Next]_vars => DInv'
  <1>. SUFFICES ASSUME DInv, [Next]_vars PROVE DInv'
    OBVIOUS
  <1>1. IInv' /\ TimesSound'
    BY IInvNext, TimesStep DEF DInv
  <1>2. (\A w \in Workers : WorkerSound(w))'
    BY WorkerSoundStep
  <1>3. WorkersSound' /\ CacheDecisionSound'
    BY <1>2 DEF WorkersSound, CacheDecisionSound, WorkerSound
  <1>. QED  BY <1>1, <1>3, RowsStep DEF DInv

\* When the cache says yes, the cloud has accepted this very password for this
\* very user, and not longer than a TTL before the process was started: for
\* every number of processes and threads, whatever crashes between which steps.
THEOREM CacheDecisionsAreSound == Spec => []CacheDecisionSound
  <1>1. DInv => CacheDecisionSound
    BY DEF DInv
  <1>. QED  BY <1>1, DInvInit, DInvNext, PTL DEF Spec

-----------------------------------------------------------------------------
(* Authentication with its cache implements the service.                   *)

\* A request that has ended leaves nothing behind.
Clean == \A w \in Workers : pc[w] \in Resting => task[w].unreach = FALSE

SInv == DInv /\ Clean

LEMMA ReplyLemma ==
    ASSUME NEW phase \in Phases
    PROVE  /\ phase \notin Resting <=> ReplyIn(phase) = "awaited"
           /\ phase \in {"yes", "no"} => ReplyIn(phase) = phase
           /\ phase = "lost" => ReplyIn(phase) = "dropped"
           /\ phase = "idle" => ReplyIn(phase) = "none"
BY DEF ReplyIn, Phases, Resting

\* A step of one worker, as the service sees it.
LEMMA OneMoves ==
    ASSUME IInv, NEW w \in Workers, NEW phase, NEW t,
           pc' = [pc EXCEPT ![w] = phase], task' = [task EXCEPT ![w] = t]
    PROVE  /\ Replies' = [Replies EXCEPT ![w] = ReplyIn(phase)]
           /\ Asked' = [Asked EXCEPT ![w] = AskedBy(phase, t)]
           /\ Outages' = [Outages EXCEPT ![w] = t.unreach]
  <1>1. \A v \in Workers : /\ pc'[v] = IF v = w THEN phase ELSE pc[v]
                           /\ task'[v] = IF v = w THEN t ELSE task[v]
    BY DEF IInv, TypeOK
  <1>2. \A v \in Workers :
            /\ ReplyIn(pc'[v]) = IF v = w THEN ReplyIn(phase) ELSE ReplyIn(pc[v])
            /\ AskedBy(pc'[v], task'[v])
                = IF v = w THEN AskedBy(phase, t) ELSE AskedBy(pc[v], task[v])
            /\ task'[v].unreach = IF v = w THEN t.unreach ELSE task[v].unreach
    BY <1>1
  <1>3. Replies' = [v \in Workers |-> IF v = w THEN ReplyIn(phase) ELSE ReplyIn(pc[v])]
    BY <1>2 DEF Replies
  <1>4. Asked' = [v \in Workers |-> IF v = w THEN AskedBy(phase, t)
                                    ELSE AskedBy(pc[v], task[v])]
    BY <1>2 DEF Asked
  <1>5. Outages' = [v \in Workers |-> IF v = w THEN t.unreach ELSE task[v].unreach]
    BY <1>2 DEF Outages
  <1>. QED  BY <1>3, <1>4, <1>5 DEF Replies, Asked, Outages

LEMMA Pairs ==
    ASSUME IInv, NEW w \in Workers, pc[w] \notin Resting
    PROVE  /\ Replies[w] = "awaited" /\ Outages[w] = task[w].unreach
           /\ Asked[w].user = task[w].user /\ Asked[w].kind = task[w].kind
           /\ Asked[w].n = task[w].n
           /\ Service!Pair(w) = <<task[w].user, task[w].n>>
  <1>1. pc[w] \in Phases
    BY DEF IInv, TypeOK
  <1>2. /\ Replies[w] = "awaited" /\ Outages[w] = task[w].unreach
        /\ Asked[w] = [user |-> task[w].user, kind |-> task[w].kind, n |-> task[w].n]
    BY <1>1, ReplyLemma DEF Replies, Outages, Asked, AskedBy
  <1>. QED  BY <1>2 DEF Service!Pair

\* The request ends with an answer.
LEMMA FinishReplies ==
    ASSUME IInv, NEW w \in Workers, NEW how \in {"yes", "no"},
           Finish(w, how), cloudPw' = cloudPw, Accepted' = Accepted
    PROVE  Service!Reply(w, how)
  <1>1. ReplyIn(how) = how /\ AskedBy(how, NoTask) = NULL /\ NoTask.unreach = FALSE
    BY ReplyLemma DEF AskedBy, NoTask, Resting, Phases
  <1>2. /\ Replies' = [Replies EXCEPT ![w] = how]
        /\ Asked' = [Asked EXCEPT ![w] = NULL]
        /\ Outages' = [Outages EXCEPT ![w] = FALSE]
    <2>1. pc' = [pc EXCEPT ![w] = how] /\ task' = [task EXCEPT ![w] = NoTask]
      BY DEF Finish
    <2>2. /\ Replies' = [Replies EXCEPT ![w] = ReplyIn(how)]
          /\ Asked' = [Asked EXCEPT ![w] = AskedBy(how, NoTask)]
          /\ Outages' = [Outages EXCEPT ![w] = NoTask.unreach]
      BY <2>1, OneMoves
    <2>. QED  BY <1>1, <2>2
  <1>. QED  BY <1>2 DEF Service!Reply

\* A worker that moves on with its request is not seen to move.
LEMMA GotoUnseen ==
    ASSUME IInv, NEW w \in Workers, NEW phase \in Phases \ Resting, pc[w] \notin Resting,
           Goto(w, phase)
    PROVE  UNCHANGED <<Asked, Outages, Replies>>
  <1>1. \A v \in Workers : /\ ReplyIn(pc'[v]) = ReplyIn(pc[v])
                           /\ AskedBy(pc'[v], task'[v]) = AskedBy(pc[v], task[v])
                           /\ task'[v] = task[v]
    BY ReplyLemma DEF Goto, AskedBy, IInv, TypeOK
  <1>. QED  BY <1>1 DEF Replies, Asked, Outages

LEMMA GotoStutters ==
    ASSUME IInv, NEW w \in Workers, NEW phase \in Phases \ Resting, pc[w] \notin Resting,
           Goto(w, phase), cloudPw' = cloudPw, Accepted' = Accepted
    PROVE  UNCHANGED Service!svcVars
BY GotoUnseen DEF Service!svcVars

\* The requests of a set of workers are dropped.
LEMMA Drops ==
    ASSUME SInv, NEW S \in SUBSET Workers,
           \A w \in S : pc[w] \notin Resting /\ pc'[w] = "lost",
           \A w \in Workers \ S : pc'[w] = pc[w],
           \A w \in S : task'[w] = NoTask,
           \A w \in Workers \ S : task'[w] = task[w] \/ (pc[w] \in Resting /\ task'[w] = NoTask),
           cloudPw' = cloudPw, Accepted' = Accepted
    PROVE  Service!Drop(S)
  <1>1. NoTask.unreach = FALSE /\ \A w \in Workers : task[w].unreach \in BOOLEAN
    BY DEF NoTask, SInv, DInv, IInv, TypeOK, Task
  <1>2. \A w \in S : Replies[w] = "awaited"
    BY Pairs DEF SInv, DInv
  <1>3. \A w \in Workers : ReplyIn(pc'[w]) = IF w \in S THEN "dropped" ELSE ReplyIn(pc[w])
    BY ReplyLemma DEF Phases
  <1>4. \A w \in Workers : AskedBy(pc'[w], task'[w])
                            = IF w \in S THEN NULL ELSE AskedBy(pc[w], task[w])
    BY DEF AskedBy, Resting
  <1>5. \A w \in Workers : task'[w].unreach = (task[w].unreach /\ w \notin S)
    BY <1>1 DEF SInv, Clean
  <1>6. Replies' = [w \in Workers |-> IF w \in S THEN "dropped" ELSE Replies[w]]
    BY <1>3 DEF Replies
  <1>7. Asked' = [w \in Workers |-> IF w \in S THEN NULL ELSE Asked[w]]
    BY <1>4 DEF Asked
  <1>8. Outages' = [w \in Workers |-> Outages[w] /\ w \notin S]
    BY <1>5 DEF Outages
  <1>. QED  BY <1>2, <1>6, <1>7, <1>8 DEF Service!Drop

LEMMA RestartDrops ==
    ASSUME SInv, NEW p \in Procs, Restart(p)
    PROVE  \E S \in SUBSET Workers : Service!Drop(S)
  <1>. DEFINE S == {w \in Workers : ProcOf[w] = p /\ pc[w] \notin Resting}
  <1>1. /\ cloudPw' = cloudPw /\ verifiedAt' = verifiedAt
        /\ \A w \in Workers :
              /\ pc'[w] = IF ProcOf[w] = p /\ pc[w] \notin Resting THEN "lost" ELSE pc[w]
              /\ task'[w] = IF ProcOf[w] = p THEN NoTask ELSE task[w]
    BY DEF Restart
  <1>2. Accepted' = Accepted
    BY <1>1 DEF Accepted
  <1>3. \A w \in S : pc[w] \notin Resting /\ pc'[w] = "lost"
    BY <1>1
  <1>4. \A w \in S : task'[w] = NoTask
    BY <1>1
  <1>5. \A w \in Workers \ S : pc'[w] = pc[w]
    BY <1>1
  <1>6. \A w \in Workers \ S : task'[w] = task[w] \/ (pc[w] \in Resting /\ task'[w] = NoTask)
    <2>1. ASSUME NEW w \in Workers \ S
          PROVE  task'[w] = task[w] \/ (pc[w] \in Resting /\ task'[w] = NoTask)
      <3>1. ProcOf[w] # p \/ pc[w] \in Resting
        OBVIOUS
      <3>. QED  BY <1>1, <3>1
    <2>. QED  BY <2>1
  <1>7. S \in SUBSET Workers
    OBVIOUS
  <1>. HIDE DEF S
  <1>. QED  BY <1>1, <1>2, <1>3, <1>4, <1>5, <1>6, <1>7, Drops

\* An exception drops the request of one worker, or of all of its process.
LEMMA RaiseDrops ==
    ASSUME SInv, NEW w \in Workers, pc[w] \notin Resting, NEW effect, Raise(w, effect)
    PROVE  \E S \in SUBSET Workers : Service!Drop(S)
  <1>1. CASE Threaded
    <2>1. /\ cloudPw' = cloudPw /\ Accepted' = Accepted
          /\ pc' = [pc EXCEPT ![w] = "lost"] /\ task' = [task EXCEPT ![w] = NoTask]
      BY <1>1 DEF Raise, Finish, Accepted
    <2>2. /\ pc'[w] = "lost" /\ task'[w] = NoTask
          /\ \A v \in Workers \ {w} : pc'[v] = pc[v] /\ task'[v] = task[v]
      BY <2>1 DEF SInv, DInv, IInv, TypeOK
    <2>. DEFINE S == {w}
    <2>3. S \in SUBSET Workers
      OBVIOUS
    <2>4. \A v \in S : pc[v] \notin Resting /\ pc'[v] = "lost"
      BY <2>2
    <2>5. \A v \in S : task'[v] = NoTask
      BY <2>2
    <2>6. \A v \in Workers \ S : pc'[v] = pc[v]
      BY <2>2
    <2>7. \A v \in Workers \ S : task'[v] = task[v] \/ (pc[v] \in Resting /\ task'[v] = NoTask)
      BY <2>2
    <2>. HIDE DEF S
    <2>. QED  BY <2>1, <2>3, <2>4, <2>5, <2>6, <2>7, Drops
  <1>2. CASE ~Threaded
    BY <1>2, RestartDrops, RowOfType DEF Raise, SInv, DInv, IInv
  <1>. QED  BY <1>1, <1>2

LEMMA ArriveAsks ==
    ASSUME SInv, NEW w \in Workers, Arrive(w) PROVE Service!Ask(w)
  <1>1. PICK u \in Users, kind \in {"password", "token"}, n \in Passwords \cup Expiries :
            Request(w, u, kind, n)
    BY DEF Arrive
  <1>. DEFINE t == [user |-> u, kind |-> kind, n |-> n, unreach |-> FALSE,
                    arrived |-> clock, floor |-> newest[u]]
  <1>2. /\ pc[w] \in Resting /\ cloudPw' = cloudPw /\ Accepted' = Accepted
        /\ pc' = [pc EXCEPT ![w] = "per_domain"] /\ task' = [task EXCEPT ![w] = t]
    BY <1>1 DEF Request, Unchanged, Accepted
  <1>3. /\ Replies' = [Replies EXCEPT ![w] = ReplyIn("per_domain")]
        /\ Asked' = [Asked EXCEPT ![w] = AskedBy("per_domain", t)]
        /\ Outages' = [Outages EXCEPT ![w] = t.unreach]
    BY <1>2, OneMoves DEF SInv, DInv
  <1>4. /\ ReplyIn("per_domain") = "awaited" /\ Replies[w] # "awaited"
        /\ AskedBy("per_domain", t) = [user |-> u, kind |-> kind, n |-> n]
        /\ t.unreach = FALSE
    BY <1>2, ReplyLemma DEF AskedBy, Phases, Resting, Replies, SInv, DInv, IInv, TypeOK
  <1>5. Outages' = Outages
    BY <1>2, <1>3, <1>4 DEF SInv, Clean, Outages
  <1>. QED  BY <1>2, <1>3, <1>4, <1>5 DEF Service!Ask

\* The answers: a yes is for a token, or for a password the cloud has accepted;
\* a no to the current password follows an outage.
LEMMA YesRefines ==
    ASSUME SInv, NEW w \in Workers, pc[w] \notin Resting, Finish(w, "yes"),
           cloudPw' = cloudPw, Accepted' = Accepted,
           \/ task[w].kind = "token"
           \/ /\ task[w].n \in Passwords
              /\ verifiedAt[task[w].user][task[w].n] # Never
    PROVE  Service!Yes(w)
  <1>1. Service!Reply(w, "yes")
    BY FinishReplies DEF SInv, DInv
  <1>2. Asked[w].kind = "token" \/ Service!Pair(w) \in Accepted
    BY Pairs, RowOfType DEF Accepted, SInv, DInv, IInv
  <1>. QED  BY <1>1, <1>2, Pairs DEF Service!Yes, SInv, DInv

LEMMA NoRefines ==
    ASSUME SInv, NEW w \in Workers, pc[w] \notin Resting, Finish(w, "no"),
           cloudPw' = cloudPw, Accepted' = Accepted,
           \/ task[w].unreach
           \/ task[w].kind = "token"
           \/ task[w].n # cloudPw[task[w].user]
    PROVE  Service!No(w)
  <1>1. Service!Reply(w, "no")
    BY FinishReplies DEF SInv, DInv
  <1>. QED  BY <1>1, Pairs DEF Service!No, SInv, DInv

LEMMA ServeRefines ==
    ASSUME SInv, NEW w \in Workers, Serve(w) PROVE [Service!SvcNext]_(Service!svcVars)
  <1>0. /\ IInv /\ DInv /\ pc[w] \notin Resting
        /\ task[w].n \in Nat /\ cloudPw[task[w].user] \in Passwords
    <2>1. IInv /\ DInv
      BY DEF SInv, DInv
    <2>2. task[w] \in Task /\ cloudPw[task[w].user] \in Passwords
      BY <2>1, RowOfType DEF IInv, TypeOK
    <2>3. pc[w] \notin Resting
      BY DEF Serve, PerDomain, Lookup, LookupRaises, Touch, CloudAccepts, CloudRefuses,
             CloudUnreachable, CloudMisanswers, SkipUpdate, Begin, BeginRaises, Insert, Update, Commit,
             Busy, Resting
    <2>. QED  BY <2>1, <2>2, <2>3 DEF Task
  <1>1. ASSUME verifiedAt' = verifiedAt PROVE Accepted' = Accepted
    BY <1>1 DEF Accepted
  <1>2. ASSUME Service!Yes(w) \/ Service!No(w) \/ Service!Verify(w) \/ Service!Unreachable(w)
        PROVE  Service!SvcNext
    BY <1>2 DEF Service!SvcNext
  <1>3. pc[w] \in {"begin"} \cup InUpsert \cup {"touch"} =>
           task[w].n \in Passwords /\ verifiedAt[task[w].user][task[w].n] # Never
    BY <1>0 DEF DInv, WorkersSound, Verified, CacheDecisionSound
  <1>4. CASE PerDomain(w)
    <2>1. cloudPw' = cloudPw /\ Accepted' = Accepted
      BY <1>1, <1>4 DEF PerDomain, Unchanged
    <2>2. CASE TokenValid(w)
      <3>1. Finish(w, "yes") /\ task[w].kind = "token"
        BY <1>4, <2>2 DEF PerDomain, TokenValid
      <3>. QED  BY <1>0, <1>2, <2>1, <3>1, YesRefines
    <2>3. CASE ~TokenValid(w)
      <3>1. Goto(w, "lookup") /\ "lookup" \in Phases \ Resting
        BY <1>4, <2>3 DEF PerDomain, Phases, Resting
      <3>. QED  BY <1>0, <2>1, <3>1, GotoStutters
    <2>. QED  BY <2>2, <2>3
  <1>5. CASE Lookup(w)
    <2>1. cloudPw' = cloudPw /\ Accepted' = Accepted
      BY <1>1, <1>5 DEF Lookup, Unchanged
    <2>2. \/ Finish(w, "no") /\ task[w].unreach
          \/ Goto(w, "cloud") \/ Goto(w, "touch")
      BY <1>5 DEF Lookup, Miss
    <2>3. {"cloud", "touch"} \subseteq Phases \ Resting
      BY DEF Phases, Resting
    <2>4. CASE Finish(w, "no") /\ task[w].unreach
      BY <1>0, <1>2, <2>1, <2>4, NoRefines
    <2>5. CASE Goto(w, "cloud") \/ Goto(w, "touch")
      BY <1>0, <2>1, <2>3, <2>5, GotoStutters
    <2>. QED  BY <2>2, <2>4, <2>5
  <1>6. CASE Touch(w) \/ SkipUpdate(w) \/ Commit(w)
    <2>1. /\ cloudPw' = cloudPw /\ Accepted' = Accepted /\ Finish(w, "yes")
          /\ pc[w] \in {"begin"} \cup InUpsert \cup {"touch"}
      BY <1>1, <1>6 DEF Touch, SkipUpdate, Commit, AnswerVerified, Unchanged, InUpsert
    <2>. QED  BY <1>0, <1>2, <1>3, <2>1, YesRefines
  <1>7. CASE CloudRefuses(w)
    <2>1. /\ cloudPw' = cloudPw /\ Accepted' = Accepted /\ Finish(w, "no")
          /\ task[w].kind = "token" \/ task[w].n # cloudPw[task[w].user]
      <3>1. task[w].kind \in {"password", "token"}
        BY <1>0 DEF IInv, TypeOK, Task
      <3>. QED  BY <1>1, <1>7, <3>1 DEF CloudRefuses, Unchanged
    <2>. QED  BY <1>0, <1>2, <2>1, NoRefines
  <1>8. CASE CloudAccepts(w)
    <2>1. /\ task[w].kind = "password" /\ task[w].n = cloudPw[task[w].user]
          /\ verifiedAt' = [verifiedAt EXCEPT ![task[w].user][task[w].n] = clock]
          /\ Goto(w, "begin") /\ cloudPw' = cloudPw
      BY <1>8 DEF CloudAccepts
    <2>2. Accepted' = Accepted \cup {<<task[w].user, task[w].n>>}
      <3>1. /\ task[w].user \in Users /\ task[w].n \in Passwords /\ clock # Never
            /\ verifiedAt \in [Users -> [Passwords -> Time \cup {Never}]]
        BY <1>0, <2>1, RowOfType DEF IInv, TypeOK, Time, Never
      <3>2. \A u \in Users, n \in Passwords :
               verifiedAt'[u][n] = IF u = task[w].user /\ n = task[w].n THEN clock
                                   ELSE verifiedAt[u][n]
        BY <2>1, <3>1
      <3>3. \A x \in Users \X Passwords :
               verifiedAt'[x[1]][x[2]] # Never <=>
                  verifiedAt[x[1]][x[2]] # Never \/ x = <<task[w].user, task[w].n>>
        BY <3>1, <3>2
      <3>4. <<task[w].user, task[w].n>> \in Users \X Passwords
        BY <3>1
      <3>. QED  BY <3>3, <3>4 DEF Accepted
    <2>3. UNCHANGED <<Asked, Outages, Replies>>
      <3>1. "begin" \in Phases \ Resting
        BY DEF Phases, Resting
      <3>. QED  BY <1>0, <2>1, <3>1, GotoUnseen
    <2>4. Service!Verify(w)
      BY <1>0, <2>1, <2>2, <2>3, Pairs DEF Service!Verify
    <2>. QED  BY <1>2, <2>4
  <1>9. CASE CloudUnreachable(w)
    <2>1. /\ pc' = [pc EXCEPT ![w] = "lookup"] /\ cloudPw' = cloudPw /\ Accepted' = Accepted
          /\ task' = [task EXCEPT ![w] = [task[w] EXCEPT !.unreach = TRUE]]
      BY <1>1, <1>9 DEF CloudUnreachable, Unchanged
    <2>. DEFINE t == [task[w] EXCEPT !.unreach = TRUE]
    <2>2. /\ task[w] \in Task /\ t.unreach = TRUE /\ t.user = task[w].user
          /\ t.kind = task[w].kind /\ t.n = task[w].n
      BY <1>0 DEF IInv, TypeOK, Task
    <2>. HIDE DEF t
    <2>3. /\ Replies' = [Replies EXCEPT ![w] = ReplyIn("lookup")]
          /\ Asked' = [Asked EXCEPT ![w] = AskedBy("lookup", t)]
          /\ Outages' = [Outages EXCEPT ![w] = t.unreach]
      BY <1>0, <2>1, OneMoves DEF t
    <2>4. ReplyIn("lookup") = Replies[w] /\ AskedBy("lookup", t) = Asked[w]
      BY <1>0, <2>2, ReplyLemma DEF Replies, Asked, AskedBy, Phases, Resting, IInv, TypeOK
    <2>5. Replies' = Replies /\ Asked' = Asked
      BY <2>3, <2>4 DEF Replies, Asked
    <2>6. Service!Unreachable(w)
      BY <1>0, <2>1, <2>2, <2>3, <2>5, Pairs DEF Service!Unreachable
    <2>. QED  BY <1>2, <2>6
  <1>10. CASE Begin(w) \/ Insert(w) \/ Update(w)
    <2>1. /\ Goto(w, "insert") \/ Goto(w, "update") \/ Goto(w, "commit")
          /\ cloudPw' = cloudPw /\ Accepted' = Accepted
      BY <1>1, <1>10 DEF Begin, Insert, Update, Unchanged
    <2>2. {"insert", "update", "commit"} \subseteq Phases \ Resting
      BY DEF Phases, Resting
    <2>. QED  BY <1>0, <2>1, <2>2, GotoStutters
  <1>11. CASE Raising(w)
    <2>1. PICK effect : Raise(w, effect)
      BY <1>11 DEF Raising, LookupRaises, CloudMisanswers, BeginRaises, Busy
    <2>. QED  BY <1>0, <2>1, RaiseDrops DEF Service!SvcNext
  <1>. QED  BY <1>4, <1>5, <1>6, <1>7, <1>8, <1>9, <1>10, <1>11 DEF Serve, Raising

LEMMA StepRefines ==
    SInv /\ [Next]_vars => [Service!SvcNext]_(Service!svcVars)
  <1>. SUFFICES ASSUME SInv, [Next]_vars PROVE [Service!SvcNext]_(Service!svcVars)
    OBVIOUS
  <1>1. ASSUME NEW w \in Workers, Arrive(w) PROVE Service!SvcNext
    BY <1>1, ArriveAsks DEF Service!SvcNext
  <1>2. ASSUME NEW p \in Procs, Crash(p) PROVE Service!SvcNext
    BY <1>2, RestartDrops DEF Crash, Service!SvcNext
  <1>3. ASSUME UNCHANGED <<pc, task, verifiedAt>>
        PROVE  UNCHANGED <<Accepted, Asked, Outages, Replies>>
    BY <1>3 DEF Accepted, Asked, Outages, Replies
  <1>4. ASSUME NEW u \in Users, ChangePassword(u) PROVE Service!SvcNext
    <2>1. Service!Change(u)
      BY <1>3, <1>4 DEF ChangePassword, Service!Change
    <2>. QED  BY <2>1 DEF Service!SvcNext
  <1>5. ASSUME \/ \E u \in Users : XcDelUser(u)
               \/ Tick
               \/ UNCHANGED vars
        PROVE  UNCHANGED Service!svcVars
    <2>1. UNCHANGED <<pc, task, verifiedAt, cloudPw>>
      BY <1>5 DEF XcDelUser, Tick, vars, cacheVars
    <2>. QED  BY <1>3, <2>1 DEF Service!svcVars
  <1>. QED  BY <1>1, <1>2, <1>4, <1>5, ServeRefines DEF Next, Environment

LEMMA CleanStep == ASSUME SInv, [Next]_vars PROVE Clean'
  <1>. DEFINE Ends(w) == \/ pc'[w] \notin Resting
                         \/ task'[w] = NoTask
                         \/ pc'[w] = pc[w] /\ task'[w] = task[w]
  <1>0. TypeOK /\ IInv /\ NoTask.unreach = FALSE
    BY DEF SInv, DInv, IInv, NoTask
  <1>. SUFFICES ASSUME NEW w \in Workers PROVE Ends(w)
    BY <1>0 DEF SInv, Clean
  <1>1. ASSUME NEW v \in Workers, NEW how, Finish(v, how) PROVE Ends(w)
    BY <1>0, <1>1 DEF Finish, TypeOK
  <1>2. ASSUME NEW v \in Workers, NEW phase \in Phases \ Resting, Goto(v, phase)
        PROVE  Ends(w)
    BY <1>0, <1>2 DEF Goto, TypeOK
  <1>3. ASSUME NEW p \in Procs, Restart(p) PROVE Ends(w)
    BY <1>3 DEF Restart
  <1>4. {"lookup", "touch", "cloud", "begin", "insert", "update", "commit", "per_domain"}
            \subseteq Phases \ Resting
    BY DEF Phases, Resting
  <1>5. ASSUME NEW v \in Workers, Raising(v)
        PROVE  Ends(w)
    <2>1. Finish(v, "lost") \/ Restart(ProcOf[v])
      BY <1>5 DEF Raising, LookupRaises, CloudMisanswers, BeginRaises, Busy, Raise
    <2>. QED  BY <1>0, <1>1, <1>3, <2>1, RowOfType
  <1>6. ASSUME NEW v \in Workers, Arrive(v) \/ CloudUnreachable(v) PROVE Ends(w)
    <2>1. \E phase \in Phases \ Resting : \E t : /\ pc' = [pc EXCEPT ![v] = phase]
                                             /\ task' = [task EXCEPT ![v] = t]
      BY <1>4, <1>6 DEF Arrive, Request, CloudUnreachable
    <2>. QED  BY <1>0, <2>1 DEF TypeOK
  <1>7. ASSUME NEW v \in Workers,
               \/ PerDomain(v) \/ Lookup(v) \/ Touch(v) \/ CloudAccepts(v)
               \/ CloudRefuses(v) \/ SkipUpdate(v) \/ Begin(v) \/ Insert(v)
               \/ Update(v) \/ Commit(v)
        PROVE  Ends(w)
    <2>1. (\E how : Finish(v, how)) \/ (\E phase \in Phases \ Resting : Goto(v, phase))
      BY <1>4, <1>7 DEF PerDomain, Lookup, Miss, Touch, CloudAccepts, CloudRefuses,
                        SkipUpdate, AnswerVerified, Begin, Insert, Update, Commit
    <2>. QED  BY <1>1, <1>2, <2>1
  <1>8. ASSUME \/ \E u \in Users : ChangePassword(u) \/ XcDelUser(u)
               \/ Tick
               \/ UNCHANGED vars
        PROVE  Ends(w)
    <2>1. UNCHANGED <<pc, task>>
      BY <1>8 DEF ChangePassword, XcDelUser, Tick, vars, cacheVars
    <2>. QED  BY <2>1
  <1>. HIDE DEF Ends
  <1>. QED  BY <1>3, <1>5, <1>6, <1>7, <1>8 DEF Next, Serve, Raising, Environment, Crash

LEMMA SInvInit == Init => SInv
BY DInvInit DEF Init, SInv, Clean, NoTask

LEMMA SInvNext == SInv /\ [Next]_vars => SInv'
BY DInvNext, CleanStep DEF SInv

LEMMA InitRefines == Init => Service!SvcInit
  <1>. SUFFICES ASSUME Init PROVE Service!SvcInit
    OBVIOUS
  <1>1. ReplyIn("idle") = "none" /\ AskedBy("idle", NoTask) = NULL /\ NoTask.unreach = FALSE
    BY DEF ReplyIn, AskedBy, Resting, NoTask
  <1>2. Accepted = {}
    BY DEF Init, Accepted
  <1>. QED  BY <1>1, <1>2 DEF Init, Service!SvcInit, Replies, Asked, Outages

\* Authentication with its cache, its workers and its database implements the
\* service: every yes is for a token or for a password the cloud has accepted for
\* this user, every no to the current password follows an outage.
THEOREM CacheImplementsService == Spec => ImplementsService
BY SInvInit, SInvNext, InitRefines, StepRefines, PTL
   DEF Spec, ImplementsService, Service!SvcSpec

-----------------------------------------------------------------------------
(* The time of the first authentication.                                   *)

\* A row of the uncommitted content is the row of the file, written since.
SameFirst(row, later) ==
    row # NoRow => later # NoRow /\ later.firstauth = row.firstauth

FirstInv == \A u \in Users : SameFirst(disk[u], buf[u])

LEMMA PutKeepsFirst ==
    ASSUME IInv, NEW w \in Workers, PutsSome(w)
    PROVE  /\ \A u \in Users : SameFirst(buf[u], buf'[u])
           /\ disk' \in {disk, buf'}
  <1>1. buf \in Cache /\ task[w].user \in Users
    BY RowOfType DEF IInv, TypeOK, SqlTypeOK
  <1>2. PICK row : /\ row \in {Touched(buf[task[w].user], now(w)),
                               Inserted(buf[task[w].user], now(w)),
                               Updated(buf[task[w].user], task[w].n, now(w))}
                   /\ Puts(w, row)
    BY DEF PutsSome
  <1>3. SameFirst(buf[task[w].user], row)
    <2>1. ASSUME NEW old \in Row, NEW t \in Time, NEW n \in Nat
          PROVE  /\ SameFirst(old, Touched(old, t))
                 /\ SameFirst(old, Inserted(old, t))
                 /\ SameFirst(old, Updated(old, n, t))
      <3>1. /\ Touched(old, t) = [old EXCEPT !.anyauth = t]
            /\ Inserted(old, t) = old
            /\ Updated(old, n, t) = [old EXCEPT !.pwhash = n, !.remoteauth = t, !.anyauth = t]
        BY NoRowAssumption DEF Touched, Inserted, Updated
      <3>. QED  BY <3>1, NoRowAssumption DEF SameFirst, Row
    <2>2. CASE buf[task[w].user] = NoRow
      BY <2>2 DEF SameFirst
    <2>3. CASE buf[task[w].user] \in Row
      <3>1. now(w) \in Time /\ task[w].n \in Nat
        BY RowOfType DEF IInv, TypeOK, Task
      <3>. QED  BY <1>2, <2>1, <2>3, <3>1
    <2>. QED  BY <1>1, <2>2, <2>3 DEF Cache
  <1>4. \A u \in Users : buf'[u] = IF u = task[w].user THEN row ELSE buf[u]
    BY <1>1, <1>2 DEF Puts, Cache
  <1>. QED  BY <1>2, <1>3, <1>4 DEF SameFirst, Puts

LEMMA FirstStep ==
    ASSUME IInv, FirstInv, [Next]_vars
    PROVE  /\ FirstInv'
           /\ \A u \in Users : disk[u] # NoRow /\ disk'[u] # NoRow =>
                  disk'[u].firstauth = disk[u].firstauth
  <1>. DEFINE FirstKept == \A u \in Users : disk[u] # NoRow /\ disk'[u] # NoRow =>
                               disk'[u].firstauth = disk[u].firstauth
  <1>0. disk \in Cache /\ buf \in Cache
    BY DEF IInv, TypeOK, SqlTypeOK
  <1>1. ASSUME NEW w \in Workers, PutsSome(w) PROVE FirstInv' /\ FirstKept
    BY <1>1, PutKeepsFirst DEF FirstInv, SameFirst
  <1>2. CASE UNCHANGED <<disk, buf>> \/ (disk' = buf /\ buf' = buf)
    BY <1>2 DEF FirstInv, SameFirst
  <1>3. CASE Rolls
    BY <1>3 DEF Rolls, EmptyCache, FirstInv, SameFirst
  <1>4. ASSUME NEW u \in Users, disk' = [disk EXCEPT ![u] = NoRow], buf' = disk'
        PROVE  FirstInv' /\ FirstKept
    BY <1>0, <1>4 DEF FirstInv, SameFirst, Cache
  <1>. QED  BY <1>1, <1>2, <1>3, <1>4, NextDbStep DEF DbStep

\* No step of any worker or process changes the time of a row's first
\* authentication.
THEOREM FirstauthIsStable == Spec => FirstauthStable
  <1>1. Init => IInv /\ FirstInv
    BY IInvInit DEF Init, SqlInit, EmptyCache, FirstInv, SameFirst
  <1>2. (IInv /\ FirstInv) /\ [Next]_vars => (IInv /\ FirstInv)'
    BY IInvNext, FirstStep
  <1>3. (IInv /\ FirstInv) /\ [Next]_vars =>
            [\A u \in Users : disk[u] # NoRow /\ disk'[u] # NoRow =>
                disk'[u].firstauth = disk[u].firstauth]_vars
    BY FirstStep
  <1>. QED  BY <1>1, <1>2, <1>3, PTL DEF Spec, FirstauthStable
=============================================================================
