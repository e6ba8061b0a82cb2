------------------------------ MODULE AuthCache ------------------------------
(***************************************************************************)
(* Password authentication with the persistent user cache: auth() of       *)
(* src/xclib/auth.py, run by the workers of src/xclib/authops.py against   *)
(* the cloud (verbose_cloud_request of src/xclib/sigcloud.py) and the      *)
(* table authcache of src/xclib/db.py.                                     *)
(*                                                                         *)
(* One step is one SQL statement, one answer of the cloud or one event of  *)
(* the environment, so the workers interleave where the program lets them. *)
(* No ejabberdctl is configured here: try_roster() returns at once.        *)
(*                                                                         *)
(* Passwords are numbered in the order in which a user chooses them:       *)
(* cloudPw[u] is the one the cloud accepts now, a smaller number is an old *)
(* one.  The bcrypt hash of a password is the password's number.           *)
(***************************************************************************)
EXTENDS Sqlite

CONSTANTS
    Workers,            \* threads that serve one request at a time
    ProcOf,             \* the process of a worker
    Users,
    CacheStorages,      \* the values of --cache-storage to consider
    Threaded,           \* TRUE: socket activation, an exception ends one thread
                        \* FALSE: stdio, an exception ends the process
    QueryTTL, VerifyTTL, UnreachTTL,
    MaxTime,            \* bound of the clock
    MaxPassword,        \* bound of the passwords of a user
    Expiries,           \* the expiry times of the tokens users present
    Unhashable,         \* the passwords bcrypt refuses (a NUL character)
    NULL, NoRow         \* SQL NULL; the user has no row

ASSUME AuthCacheAssumption ==
    /\ Workers # {} /\ Procs # {} /\ Users # {}
    /\ ProcOf \in [Workers -> Procs]
    /\ CacheStorages \subseteq {"none", "memory", "db"}
    /\ "memory" \in CacheStorages => \A p, q \in Procs : p = q
    /\ Threaded \in BOOLEAN
    /\ ~Threaded => \A v, w \in Workers : ProcOf[v] = ProcOf[w] => v = w
    /\ {QueryTTL, VerifyTTL, UnreachTTL, MaxTime, MaxPassword} \subseteq Nat
    /\ Expiries \subseteq Nat /\ Unhashable \subseteq Nat
    /\ NULL \notin Nat

VARIABLES
    storage,            \* --cache-storage, the same in every process
    clock,              \* the real time
    started,            \* the value of sigcloud's "now" in each process
    cloudPw,            \* the password the cloud accepts
    pc,                 \* where each worker is
    task,               \* the request it serves
    verifiedAt,         \* history: when the cloud last accepted a password
    newest              \* history: the newest password answered after the cloud
                        \* accepted it

cacheVars == <<storage, clock, started, cloudPw, pc, task, verifiedAt, newest>>
vars == <<disk, buf, lock, open, storage, clock, started, cloudPw, pc, task,
          verifiedAt, newest>>

Time == 0 .. MaxTime
Passwords == 0 .. MaxPassword
Never == -1

Row == [pwhash : Nat \cup {NULL}, firstauth : Time, remoteauth : Time,
        anyauth : Time]
Cache == [Users -> Row \cup {NoRow}]
EmptyCache == [u \in Users |-> NoRow]

ASSUME NoRowAssumption == NoRow \notin Row

\* A request: the user and the credential it names, whether the cloud could not
\* be reached for it, and the time and the value of "newest" when it arrived.
Task == [user : Users, kind : {"password", "token"}, n : Nat,
         unreach : BOOLEAN, arrived : Time, floor : Nat]

\* The object of a request is dropped with it.
NoTask == [user |-> CHOOSE u \in Users : TRUE, kind |-> "password", n |-> 0,
           unreach |-> FALSE, arrived |-> 0, floor |-> 0]

Phases == {"idle", "per_domain", "lookup", "touch", "cloud", "begin", "insert",
           "update", "commit", "yes", "no", "lost"}

Resting == {"idle", "yes", "no", "lost"}
InUpsert == {"insert", "update", "commit"}

\* The request will be answered with yes unless the worker ends first.
Accepting == {"touch", "begin"} \cup InUpsert

TypeOK ==
    /\ SqlTypeOK(Cache)
    /\ storage \in CacheStorages
    /\ clock \in Time
    /\ started \in [Procs -> Time]
    /\ cloudPw \in [Users -> Passwords]
    /\ pc \in [Workers -> Phases]
    /\ task \in [Workers -> Task]
    /\ verifiedAt \in [Users -> [Passwords -> Time \cup {Never}]]
    /\ newest \in [Users -> Nat]

Init ==
    /\ SqlInit(EmptyCache)
    /\ storage \in CacheStorages
    /\ clock = 0
    /\ started = [p \in Procs |-> 0]
    /\ cloudPw = [u \in Users |-> 0]
    /\ pc = [w \in Workers |-> "idle"]
    /\ task = [w \in Workers |-> NoTask]
    /\ verifiedAt = [u \in Users |-> [n \in Passwords |-> Never]]
    /\ newest = [u \in Users |-> 0]
-----------------------------------------------------------------------------
(* The pure parts of auth().                                               *)

\* sigcloud(..., now=datetime.utcnow()): the default is evaluated once, when the
\* process imports the module.
now(w) == started[ProcOf[w]]

\* auth_token: a token with a valid signature is good until it expires.
TokenValid(w) == task[w].kind = "token" /\ task[w].n >= now(w)

\* Variant: the verification TTL is forgotten.
FreshWithoutVerifyTTL(row, t, unreach) ==
    \/ row.anyauth + QueryTTL > t
    \/ unreach /\ row.remoteauth + UnreachTTL > t

\* The TTL conditions of auth_with_cache.
Fresh(row, t, unreach) ==
    \/ row.anyauth + QueryTTL > t /\ row.remoteauth + VerifyTTL > t
    \/ unreach /\ row.remoteauth + UnreachTTL > t

\* checkpw: a token is never the password that was hashed.
CheckPw(row, w) == task[w].kind = "password" /\ row.pwhash = task[w].n

\* bcrypt raises ValueError for a password it cannot hash, in checkpw and in
\* hashpw; a token is plain base64.
Hashable(w) == ~(task[w].kind = "password" /\ task[w].n \in Unhashable)

Rows(w) == View(ProcOf[w])
RowOf(w) == Rows(w)[task[w].user]

Candidate(w) == RowOf(w) # NoRow /\ Fresh(RowOf(w), now(w), task[w].unreach)

-----------------------------------------------------------------------------
(* How a request ends.                                                     *)

Goto(w, phase) == pc' = [pc EXCEPT ![w] = phase] /\ UNCHANGED task

Finish(w, how) ==
    /\ pc' = [pc EXCEPT ![w] = how]
    /\ task' = [task EXCEPT ![w] = NoTask]

\* A process ends and is started again.
Restart(p) ==
    /\ SqlClose(p, IF storage = "memory" THEN EmptyCache ELSE disk)
    /\ started' = [started EXCEPT ![p] = clock]
    /\ pc' = [w \in Workers |-> IF ProcOf[w] = p /\ pc[w] \notin Resting
                                THEN "lost" ELSE pc[w]]
    /\ task' = [w \in Workers |-> IF ProcOf[w] = p THEN NoTask ELSE task[w]]
    /\ UNCHANGED <<storage, clock, cloudPw, verifiedAt, newest>>

\* An exception nobody catches, after "effect" on the database: the request is
\* never answered, and the thread or the process is gone.
Raise(w, effect) ==
    IF Threaded
    THEN /\ effect
         /\ Finish(w, "lost")
         /\ UNCHANGED <<storage, clock, started, cloudPw, verifiedAt, newest>>
    ELSE Restart(ProcOf[w])

Unchanged == UNCHANGED <<storage, clock, started, cloudPw, verifiedAt, newest>>

-----------------------------------------------------------------------------
(* The steps of a worker.                                                  *)

\* perform_from_fd reads a request and creates the sigcloud object.
Request(w, u, kind, n) ==
    /\ pc[w] \in Resting
    /\ pc' = [pc EXCEPT ![w] = "per_domain"]
    /\ task' = [task EXCEPT ![w] =
                  [user |-> u, kind |-> kind, n |-> n, unreach |-> FALSE,
                   arrived |-> clock, floor |-> newest[u]]]
    /\ UNCHANGED sqlVars /\ Unchanged

\* per_domain reads the table "domains"; with --cache-storage=db the cache is
\* on the same connection.  Then auth() looks at the token.
PerDomain(w) ==
    /\ pc[w] = "per_domain"
    /\ IF storage = "db" THEN SqlRead(ProcOf[w]) ELSE UNCHANGED sqlVars
    /\ IF TokenValid(w) THEN Finish(w, "yes") ELSE Goto(w, "lookup")
    /\ Unchanged

\* auth_with_cache returns False: ask the cloud, or give up if that was tried.
Miss(w) == IF task[w].unreach THEN Finish(w, "no") ELSE Goto(w, "cloud")

\* auth_with_cache up to the result of checkpw.
Lookup(w) ==
    /\ pc[w] = "lookup"
    /\ IF storage = "none"
       THEN UNCHANGED sqlVars /\ Miss(w)
       ELSE /\ Candidate(w) => RowOf(w).pwhash # NULL /\ Hashable(w)
            /\ SqlRead(ProcOf[w])
            /\ IF Candidate(w) /\ CheckPw(RowOf(w), w)
               THEN Goto(w, "touch")
               ELSE Miss(w)
    /\ Unchanged

\* The row another thread of the process has inserted and not yet filled has
\* no hash: checkpw(None) raises.  It raises for an unhashable password too.
LookupRaises(w) ==
    /\ pc[w] = "lookup"
    /\ storage # "none"
    /\ MayRead(ProcOf[w])
    /\ Candidate(w) /\ (RowOf(w).pwhash = NULL \/ ~Hashable(w))
    /\ Raise(w, SqlRead(ProcOf[w]))

\* Variant: the wrong column is updated.
TouchedRemoteauth(row, t) ==
    IF row = NoRow THEN NoRow ELSE [row EXCEPT !.remoteauth = t]

\* UPDATE authcache SET anyauth = now; it matches nothing if the row is gone.
Touched(row, t) == IF row = NoRow THEN NoRow ELSE [row EXCEPT !.anyauth = t]

Touch(w) ==
    /\ pc[w] = "touch"
    /\ SqlWrite(ProcOf[w], [Rows(w) EXCEPT ![task[w].user] = Touched(@, now(w))])
    /\ Finish(w, "yes")
    /\ Unchanged

\* auth_cloud: the cloud accepts the password that is the user's at that time.
CloudAccepts(w) ==
    /\ pc[w] = "cloud"
    /\ task[w].kind = "password" /\ task[w].n = cloudPw[task[w].user]
    /\ verifiedAt' = [verifiedAt EXCEPT ![task[w].user][task[w].n] = clock]
    /\ Goto(w, "begin")
    /\ UNCHANGED <<sqlVars, storage, clock, started, cloudPw, newest>>

CloudRefuses(w) ==
    /\ pc[w] = "cloud"
    /\ ~(task[w].kind = "password" /\ task[w].n = cloudPw[task[w].user])
    /\ Finish(w, "no")
    /\ UNCHANGED sqlVars /\ Unchanged

\* Variants: the cache is asked again as if for the first time; an unreachable
\* cloud is taken for a refusal.
CloudUnreachableForgotten(w) ==
    /\ pc[w] = "cloud"
    /\ Goto(w, "lookup")
    /\ UNCHANGED sqlVars /\ Unchanged

CloudUnreachableRefuses(w) ==
    /\ pc[w] = "cloud"
    /\ Finish(w, "no")
    /\ UNCHANGED sqlVars /\ Unchanged

\* No connection, an HTTP error, or 'error': a second look at the cache.
CloudUnreachable(w) ==
    /\ pc[w] = "cloud"
    /\ task' = [task EXCEPT ![w].unreach = TRUE]
    /\ pc' = [pc EXCEPT ![w] = "lookup"]
    /\ UNCHANGED sqlVars /\ Unchanged

\* A reply that is JSON but neither null nor an object (a number, true, a string
\* or list with "result" in it): the test for its 'result' raises TypeError.
CloudMisanswers(w) ==
    /\ pc[w] = "cloud"
    /\ Raise(w, UNCHANGED sqlVars)

-----------------------------------------------------------------------------
(* auth_update_cache, one action per statement.                            *)

\* The request is answered after the cloud accepted its password.
AnswerVerified(w) ==
    /\ Finish(w, "yes")
    /\ UNCHANGED <<storage, clock, started, cloudPw, verifiedAt>>
    /\ newest' = [newest EXCEPT ![task[w].user] = IF task[w].n > @ THEN task[w].n ELSE @]

SkipUpdate(w) ==
    /\ pc[w] = "begin"
    /\ storage = "none"
    /\ AnswerVerified(w)
    /\ UNCHANGED sqlVars

\* Variants: BEGIN is skipped if the connection is in a transaction already; it
\* is left out.
BeginJoins(w) ==
    /\ pc[w] = "begin"
    /\ storage # "none" /\ Hashable(w)
    /\ open' = [open EXCEPT ![ProcOf[w]] = TRUE]
    /\ UNCHANGED <<disk, buf, lock>>
    /\ Goto(w, "insert")
    /\ Unchanged

BeginLeftOut(w) ==
    /\ pc[w] = "begin"
    /\ storage # "none" /\ Hashable(w)
    /\ UNCHANGED sqlVars
    /\ Goto(w, "insert")
    /\ Unchanged

Begin(w) ==
    /\ pc[w] = "begin"
    /\ storage # "none" /\ Hashable(w)
    /\ SqlBegin(ProcOf[w])
    /\ Goto(w, "insert")
    /\ Unchanged

\* hashpw refuses the password, or another thread has a transaction open on the
\* connection they share.
BeginRaises(w) ==
    /\ pc[w] = "begin"
    /\ storage # "none"
    /\ open[ProcOf[w]] \/ ~Hashable(w)
    /\ Raise(w, UNCHANGED sqlVars)

\* Variants: INSERT OR REPLACE; no DEFAULT in CREATE TABLE.
InsertedOrReplaced(row, t) ==
    [pwhash |-> NULL, firstauth |-> t, remoteauth |-> clock, anyauth |-> clock]

InsertedWithoutDefaults(row, t) ==
    IF row = NoRow
    THEN [pwhash |-> NULL, firstauth |-> t, remoteauth |-> NULL, anyauth |-> NULL]
    ELSE row

\* INSERT OR IGNORE: a new row gets the defaults of CREATE TABLE authcache.
Inserted(row, t) ==
    IF row = NoRow
    THEN [pwhash |-> NULL, firstauth |-> t, remoteauth |-> clock, anyauth |-> clock]
    ELSE row

Insert(w) ==
    /\ pc[w] = "insert"
    /\ SqlWrite(ProcOf[w], [Rows(w) EXCEPT ![task[w].user] = Inserted(@, now(w))])
    /\ Goto(w, "update")
    /\ Unchanged

\* Variant: the hash is stored only the first time.
UpdatedOnce(row, n, t) ==
    IF row = NoRow
    THEN NoRow
    ELSE [row EXCEPT !.pwhash = IF @ = NULL THEN n ELSE @,
                     !.remoteauth = t, !.anyauth = t]

Updated(row, n, t) ==
    IF row = NoRow
    THEN NoRow
    ELSE [row EXCEPT !.pwhash = n, !.remoteauth = t, !.anyauth = t]

Update(w) ==
    /\ pc[w] = "update"
    /\ SqlWrite(ProcOf[w],
                [Rows(w) EXCEPT ![task[w].user] = Updated(@, task[w].n, now(w))])
    /\ Goto(w, "commit")
    /\ Unchanged

\* Variant: commit() is left out.
CommitLeftOut(w) ==
    /\ pc[w] = "commit"
    /\ UNCHANGED sqlVars
    /\ AnswerVerified(w)

Commit(w) ==
    /\ pc[w] = "commit"
    /\ SqlCommit(ProcOf[w])
    /\ AnswerVerified(w)

\* A statement that waits longer than the timeout of the connection for a lock
\* another process holds raises "database is locked".
Busy(w) ==
    \/ /\ \/ pc[w] = "per_domain" /\ storage = "db" /\ ~MayRead(ProcOf[w])
          \/ pc[w] = "lookup" /\ storage = "db" /\ ~MayRead(ProcOf[w])
          \/ pc[w] \in {"touch", "insert", "update"} /\ ~MayWrite(ProcOf[w])
       /\ Raise(w, UNCHANGED sqlVars)
    \/ /\ pc[w] = "commit"
       /\ Writer(ProcOf[w]) /\ ~MayExclude(ProcOf[w])
       /\ Raise(w, SqlCommitBusy(ProcOf[w]))

-----------------------------------------------------------------------------
(* The environment.                                                        *)

Crash(p) == Restart(p)

ChangePassword(u) ==
    /\ cloudPw[u] < MaxPassword
    /\ cloudPw' = [cloudPw EXCEPT ![u] = @ + 1]
    /\ UNCHANGED <<sqlVars, storage, clock, started, pc, task, verifiedAt, newest>>

\* tools/xcdeluser.sh, a process of its own, deletes the row of a user.
XcDelUser(u) ==
    /\ storage = "db"
    /\ \A p \in Procs : lock[p] = "none"
    /\ disk' = [disk EXCEPT ![u] = NoRow]
    /\ buf' = disk'
    /\ UNCHANGED <<lock, open, cacheVars>>

Tick ==
    /\ clock < MaxTime
    /\ clock' = clock + 1
    /\ UNCHANGED <<sqlVars, storage, started, cloudPw, pc, task, verifiedAt, newest>>

-----------------------------------------------------------------------------
Serve(w) ==
    \/ PerDomain(w)
    \/ Lookup(w) \/ LookupRaises(w) \/ Touch(w)
    \/ CloudAccepts(w) \/ CloudRefuses(w) \/ CloudUnreachable(w) \/ CloudMisanswers(w)
    \/ SkipUpdate(w) \/ Begin(w) \/ BeginRaises(w)
    \/ Insert(w) \/ Update(w) \/ Commit(w)
    \/ Busy(w)

Arrive(w) ==
    \E u \in Users :
        \/ \E n \in Passwords : Request(w, u, "password", n)
        \/ \E n \in Expiries : Request(w, u, "token", n)

Environment ==
    \/ \E p \in Procs : Crash(p)
    \/ \E u \in Users : ChangePassword(u) \/ XcDelUser(u)
    \/ Tick

Next ==
    \/ \E w \in Workers : Arrive(w) \/ Serve(w)
    \/ Environment

Spec == Init /\ [][Next]_vars

\* The operating system runs every thread, and the cloud request has a timeout.
FairSpec == Spec /\ \A w \in Workers : WF_vars(Serve(w))
-----------------------------------------------------------------------------
(* Safety.                                                                 *)

\* At most one thread of a process is between BEGIN and COMMIT (auth.py:107-116),
\* and while it is there the shared connection is in its transaction.
UpsertExclusive ==
    \A w \in Workers : pc[w] \in InUpsert =>
        /\ open[ProcOf[w]]
        /\ \A v \in Workers \ {w} : ProcOf[v] = ProcOf[w] => pc[v] \notin InUpsert

\* The half-filled row between INSERT OR IGNORE and UPDATE never becomes
\* durable: every committed row has a hash, whoever crashes when.
DurableRowsComplete ==
    \A u \in Users : disk[u] # NoRow => disk[u].pwhash # NULL

\* The connection leaves a transaction when the thread that began it is done
\* with it: "Reset back to SQLite default of 'autocommit'" (db.py:29-32).
BackToAutocommit ==
    \A p \in Procs : open[p] => \E w \in Workers : ProcOf[w] = p /\ pc[w] \in InUpsert

\* When the cache says yes, the cloud has accepted this very password for this
\* very user, and not longer than a TTL before the process was started.
CacheDecisionSound ==
    \A w \in Workers : pc[w] = "touch" =>
        LET at == verifiedAt[task[w].user][task[w].n] IN
        /\ task[w].kind = "password"
        /\ at # Never
        /\ \/ now(w) < at + VerifyTTL
           \/ task[w].unreach /\ now(w) < at + UnreachTTL

\* "The first login with the new password after changing passwords will thus
\* automatically invalidate the old password" (doc/Cache.md:9): no password is
\* accepted that is older than one answered before the request arrived.
OldPasswordInvalidated ==
    \A w \in Workers : pc[w] \in Accepting => task[w].n >= task[w].floor

\* The three timestamps of a row are in the order their names say
\* (doc/Database.md:52-56): first, last verification, last use.
TimestampsOrdered ==
    \A u \in Users : disk[u] # NoRow =>
        disk[u].firstauth <= disk[u].remoteauth /\ disk[u].remoteauth <= disk[u].anyauth

\* "the last verification against the backend was less than
\* cache-verification-ttl ago" (doc/Cache.md:15-17) when the cache says yes, seen
\* from the time the request arrived.
VerificationTTLRespected ==
    \A w \in Workers : pc[w] = "touch" /\ ~task[w].unreach
        => task[w].arrived < verifiedAt[task[w].user][task[w].n] + VerifyTTL

-----------------------------------------------------------------------------
(* What a step may never do.                                               *)

\* An update of the cache keeps the time of the first authentication: the
\* reason why the code does not use INSERT OR REPLACE (auth.py:105-106).
FirstauthStable ==
    [][\A u \in Users : disk[u] # NoRow /\ disk'[u] # NoRow =>
          disk'[u].firstauth = disk[u].firstauth]_vars

\* A request is lost without one of the responses of doc/Protocol.md:17-20 only
\* with its process or by what it brought itself: the reply of the cloud to it or
\* a password bcrypt refuses.  No row, transaction or lock of another request,
\* earlier or at the same time, ends it.
LostOnlyByItsInput ==
    [][\A w \in Workers : pc[w] \notin Resting /\ pc'[w] = "lost" =>
          \/ Crash(ProcOf[w])
          \/ pc[w] = "cloud"
          \/ pc[w] \in {"lookup", "begin"} /\ storage # "none" /\ ~Hashable(w)]_vars

(* Liveness.                                                               *)

\* Every request comes to an end, answered or lost, whatever is locked.
EveryRequestEnds ==
    \A w \in Workers : pc[w] \notin Resting ~> pc[w] \in Resting

-----------------------------------------------------------------------------
(* The service this implements.                                            *)

ReplyIn(phase) ==
    CASE phase = "idle" -> "none"
      [] phase = "lost" -> "dropped"
      [] phase \in {"yes", "no"} -> phase
      [] OTHER -> "awaited"

AskedBy(phase, t) ==
    IF phase \in Resting THEN NULL ELSE [user |-> t.user, kind |-> t.kind, n |-> t.n]

Accepted == {x \in Users \X Passwords : verifiedAt[x[1]][x[2]] # Never}
Asked == [w \in Workers |-> AskedBy(pc[w], task[w])]
Outages == [w \in Workers |-> task[w].unreach]
Replies == [w \in Workers |-> ReplyIn(pc[w])]

Service == INSTANCE AuthService WITH
    Clients     <- Workers,
    Credentials <- Passwords \cup Expiries,
    Nothing     <- NULL,
    verified    <- Accepted,
    asked       <- Asked,
    outage      <- Outages,
    reply       <- Replies

\* The workers, the cache and the database implement the service.
ImplementsService == Service!SvcSpec
=============================================================================
