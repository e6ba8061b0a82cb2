# A verification project for xmpp-cloud-auth

xcauth authenticates XMPP and mail users against a cloud (Nextcloud with JSXC).
An XMPP or mail server asks it over a pipe or a socket; xcauth answers from a
signed token, from its cache of password hashes, or after a signed HTTP request
to the cloud, and keeps ejabberd's shared roster groups in line with the groups
of the cloud.

The TLA+ modules here model the parts of it in which the order of events
matters. TLC checks them on small instances; TLAPS proves every safety property
of the passing runs, and the refinement, for every instance. Paths below are
relative to the repository; in `PROJECT.json`, which lists the runs, the
mutants, the hazards and the source lines of each definition, they start with
`src/`.

## Inventory

| Part | State | Operations | Talks to | Hard because of | Module |
|---|---|---|---|---|---|
| Worker dispatch, `xclib/authops.py`, `sockact.py` | threads, listening sockets | the main loop, one thread per connection (socket activation); or one stream on stdin | front ends, `sigcloud` | exceptions end a thread or the main loop, but neither the process nor always the connection | `Frontend` (socket activation) |
| Front ends, `xclib/*_io.py` | the stream | parse a request, format a response | the servers | pipelined, cut, illegal and undecodable input; requests carry no number | `Frontend` |
| isuser, `xclib/isuser.py` | none | one cloud request | cloud | three-valued result | `Frontend` |
| Authentication, `xclib/auth.py`, `sigcloud.py` | a request object | token, cache, cloud, cache again, update of the cache | database, cloud | check-then-act across a slow request; TTLs; a clock | `AuthCache`, `AuthService` |
| Database, `xclib/db.py` | tables `domains`, `authcache`, `rosterinfo`, `rostergroups` | one connection per process in autocommit mode with explicit transactions | SQLite | a connection shared by threads, locks between processes, crashes | `Sqlite` |
| First start, `xclib/db.py` | the same | creation of the tables, import of the old databases | SQLite, old files | several processes that start at once; no step is ever taken again | `DbInit` |
| Shared roster, `xclib/roster.py`, `roster_thread.py`, `ejabberdctl.py` | response hashes, names, user lists, group lists; ejabberd's groups and vCards | compare the response, compute and send commands, record | database, cloud, ejabberd | four caches of a state kept elsewhere, a background thread per login, silent failures | `Roster` |
| Prosody connector, `prosody-modules/*.lua` | a socket, the last connection error | send a query, wait for the line, reconnect | a socket of xcauth | late answers, half-dead connections | `PseudoLpty` |
| Administrator's scripts, `tools/*.sh` | none | delete users and groups, clear the roster cache | SQLite, ejabberd | run next to xcauth, in several steps | actions of `AuthCache` and `Roster` |
| Configuration, logging, packaging, systemd | files | - | - | - | - |

What makes them correct:

- dispatch and front ends: the n-th answer is that to the n-th request; an
  answer says what the cloud said; a client is answered or its connection ends;
- authentication: a yes is earned - the cloud has accepted this password of this
  user, recently enough for the TTLs; a no is not given to a good password; a
  password that was changed dies; every request gets an answer;
- database: transactions of threads do not mix, end, and leave no half-filled
  row, whatever crashes or times out; a first start leaves nothing out and
  overwrites nothing;
- shared roster: what the cache does not know cannot be removed from ejabberd,
  so it must know all of it; what counts as done was done;
- Prosody connector: a response belongs to its query; a failure is not for ever.

## Modules

| Module | Models | Relation |
|---|---|---|
| `Sqlite` | one database, one connection per process: autocommit or transaction, shared/reserved/pending locks, what "database is locked" leaves behind, what a crash undoes | external, but for BEGIN and the way the connection is opened (`db.py:14-15,33-37`) |
| `SqliteProofs` | what the statements of `Sqlite` keep, for any content | used by the proofs about `AuthCache` and `Roster` |
| `AuthCache` | `auth()` for any number of threads and processes (`auth.py`, `sigcloud.py`, the loop of `authops.py`), one action per SQL statement and per outcome of the cloud request | EXTENDS `Sqlite` |
| `AuthService` | what the service promises, without a cache | refined by `AuthCache` (`ImplementsService`) |
| `AuthCacheProofs` | types, transactions, complete rows | EXTENDS `AuthCache`, `SqliteProofs` |
| `AuthServiceProofs` | decisions of the cache, the refinement, action properties | EXTENDS `AuthCacheProofs` |
| `AuthAloneProofs` | what needs one process or one thread | EXTENDS `AuthServiceProofs` |
| `Roster` | `try_roster`, the background thread, ejabberd's groups, failing commands, the scripts `xcdeluser`, `xcdelgroup`, `xcrefreshroster` | EXTENDS `Sqlite` |
| `RosterProofs` | types, transactions, complete rows; what one job at a time keeps | EXTENDS `Roster`, `SqliteProofs` |
| `DbInit` | the first opening of the database by several processes | |
| `DbInitProofs` | proofs about `DbInit` | EXTENDS `DbInit` |
| `Frontend` | `perform_from_listeners`, `perform_from_fd`, the four `read_request` and `write_response`, `isuser` | calls of `auth()` are its step `Perform` |
| `FrontendProofs` | proofs about `Frontend` | EXTENDS `Frontend` |
| `PseudoLpty` | `send_query` of `mod_auth_external.lua` over `pseudolpty.lib.lua`, blocking | |
| `PseudoLptyProofs` | proofs about `PseudoLpty` | EXTENDS `PseudoLpty` |
| `MCAuthCache`, `MCRoster`, `MCDbInit`, `MCFrontend` | values of function-valued constants and state constraints for TLC | |

### How state and actions correspond to the code

*AuthCache.* `pc[w]` is the line a worker is at and `task[w]` its `sigcloud`
object. `storage` is `--cache-storage`; with `memory` the table lives in the
process, so a crash empties it. `now(w)` is the default argument of
`sigcloud.__init__`, which Python evaluates when the process imports the module:
hence `started[p]`, not `clock`. Reading a row and checking the password
(`Lookup`), and reading `domains` (`PerDomain`) are one step each, as a fetched
row is not read again; `UPDATE anyauth` is a step of its own (`Touch`), and so
are BEGIN, INSERT OR IGNORE, UPDATE and COMMIT. CURRENT_TIMESTAMP, the default
of the other columns, is the real `clock`. `Raise` is an exception that nothing
catches: the thread ends without an answer (socket activation), or the process
(stdio). Besides what other threads leave behind, two inputs of the request itself
raise: a password that bcrypt refuses (`Unhashable`: one with a NUL character),
in `LookupRaises` and `BeginRaises`, and a reply of the cloud that is JSON but
neither null nor an object, in `CloudMisanswers`. A reply of null, `{}` or `[]`
is false to Python and counts as no answer. Passwords are numbers in the order in which the user chose them, a hash
is the number it was made from. With no `ejabberdctl` configured `try_roster`
returns at once, so the roster is left to `Roster`, and no step of it runs in
`AuthCache`.

*Roster.* A job is one `try_roster`. The login thread hands over to the
background thread when the hash is committed and waits up to a second for it,
then answers; nothing it does afterwards is part of the job, so a job is one
sequence. A hash is the response it was made from (SHA-256 does not collide).
A message without `data.sharedRoster` is handed on whole; `Weird` is one in which
no user with groups or a name is found, such as `{"error": "..."}`. A response
may also be `Malformed`, its hash is committed and the background thread raises
on an entry of another type than expected, after some of the names
(`EntryRaises`); or it has a bad name, which raises at UPDATE and leaves the
transaction open, or at `set_vcard` (`NameRaises`). Groups go through `Sanitize`, which may map two to one key. `cmds` holds
the commands computed from one SELECT; `Execute` runs one of them, and may fail
unseen; a command that cannot be started, or whose output cannot be decoded,
raises (`CommandRaises`). The four upserts have the same statements and share `Begin`, `Insert`,
`Update` and `Commit`; `what` says which row and column. Dictionaries are
processed in any order.

*DbInit.* `phase[p]` and `cur[p]` say which of the statements of
`connection.__init__` a process is at, and `todo[p]` which rows of the old file
it has still to copy. The connection is in autocommit mode, so each CREATE TABLE
and each imported row is durable at once. `rosterinfo` and `rostergroups` are
created one after the other and filled after the second (`AfterCreate`,
`AfterImport`). An OperationalError means that somebody else has created the
table (`CreateRefused`) or that the database was locked too long
(`CreateLocked`): the code cannot tell them apart, and goes on. `failed` is a
history variable: some start was cut short, by its end or by an error that was
caught. `rows` remembers who wrote a row, as that is what the import must not
mix up.

*Frontend.* A stream is a sequence of units: a line (Prosody, Postfix), a
command with its length (ejabberd), or one of the four fields that make a
request of saslauthd. `thread[c]` holds the locals of `perform_from_fd` and
`read_request`; a request remembers the unit it was read from (`to`), and of
saslauthd's the units its fields were read from, so that a shifted stream shows.
Reading raises if the client is gone or has sent what cannot be decoded
(`ReadRaises`). `held` is the local variable `conn` of `perform_from_listeners`: an exception in
a worker passes by the loop over `closefds`, and the connection is closed when
Python drops the last reference to it - but the connection accepted last is
still referred to, and stays open ("hung") until the next `accept()`. When the
main thread has died the interpreter waits for the workers (`Exit`). `Activate`
is systemd, which starts the service when a connection waits on a socket.

*PseudoLpty.* One step per call of the socket library. `plpty:read` returns only
its first value, so `plpty:send` sees no error message, and its `read(0)` closes
every connection that has no line to read: `Probe`. `exitstr` is the error of
the last `connect`.

## Runs

| Run | Instance | Shows |
|---|---|---|
| `auth_shared` | two threads of a process and a third in another, two of the three at work; one user, cache in the database | `UpsertExclusive`, `DurableRowsComplete`; `EveryRequestEnds` when COMMITs time out and leave transactions open; `AuthCache` implements `AuthService` (`ImplementsService`) |
| `auth_one` | one worker; no cache, in memory or in the database; clock to 3, TTLs 2, 2, 3, three passwords of which bcrypt refuses one, tokens, misread replies | `OldPasswordInvalidated`, `TimestampsOrdered`, `CacheDecisionSound`, `BackToAutocommit`, `FirstauthStable`, `LostOnlyByItsInput` |
| `roster_one` | one job at a time, two users, two groups with one sanitized name, scripts, malformed responses, bad names; two changes in all | `MembersKnown`, `ThrownOutAtCommit`, `NameMeansVcard`, `HashMeansProcessed`, `GroupRowsComplete`, `LeftOpenOnlyByName` |
| `roster_shared` | two threads of a process and a third in another, two at a time; one failed command or crash | `OneTransaction`, `GroupRowsComplete`, `JobsEnd` |
| `lpty_blocking` | four queries, four failures | `ResponseMatches`, `OneQueryInConnection` |
| `db_init` | three processes, one key, all four tables with an old database | `CompleteUnlessFailed`, `OneImporter`, `ImportSparesLogins`, `FirstStartCompletes` |
| `frontend` | four sockets, a connection with two requests and one with none | `AnswersInOrder`, `AnswersTruthful`, `OnlyLastHangs`, `RequestSettled`, `AcceptedInTheEnd` |

and those in which TLC refutes what the documentation says:

| Run | Documentation | What happens |
|---|---|---|
| `auth_lost_update` | `doc/Cache.md:9`: the first login with a new password invalidates the old one | two logins overlap; the slower one, with the old password, stores its hash last |
| `auth_frozen_clock` | `doc/Cache.md:15-17`: a verification counts for `cache-verification-ttl` | the clock of a process stands still (`sigcloud.py:13`) |
| `roster_readd` | `roster_thread.py:97`: add the users we know about | a user whom her own login deleted from the group is still in the cached user list, and is not added again |
| `roster_aba` | `doc/Cache.md:67`: a removed user is thrown out when the first still-member logs in | the still-member's response is one she has seen before, and is skipped |
| `lpty_reconnect` | `pseudolpty.lib.lua:13-14`: it auto-reconnects transparently | a refused connection is remembered as the exit of a process, and there is no further attempt |

### What else goes wrong

The models contain these as well; the properties are stated so that they hold
with them, and no sentence of the documentation denies them outright.

- With several processes a COMMIT may time out. It raises and leaves the
  transaction open; later requests of the process join it, and their changes are
  lost if it ends (`BackToAutocommit` needs one process).
- With two threads and one connection, BEGIN inside the other's transaction
  raises, and reading the other's half-inserted row does too: the request is not
  answered (`LostOnlyByItsInput` needs one thread). With
  `--cache-storage=db` the transaction of a roster job that is still running
  does the same to the next login, whatever the number of workers.
- A password with a NUL character, or a reply of the cloud that is JSON but no
  object, raises in a thread that catches nothing: no answer, and the end of the
  connection (`auth.py:55-56,66,101`).
- The hash of a response on which the background thread raises is cached as if it
  had been processed: the next logins skip it, where `doc/Cache.md:44` has the
  hash of the last *processed* request. `HashMeansProcessed` is about the others.
- A name in a response that SQLite cannot store leaves the transaction of its
  upsert open, and from then on every BEGIN of the process raises: no roster is
  processed, and with `--cache-storage=db` no login that has to be stored is
  answered, until a restart
  (`LeftOpenOnlyByName`).
- What Postfix sends that is no request gets 500, "user does not exist", where
  `doc/Protocol.md:46` has 400 for a problem processing the request
  (`postfix_io.py:24`). `AnswersTruthful` names it as an exception, and so the 1
  that ejabberd gets for any request of a roster (`authops.py:186-187`).
- A first start that is cut short is never completed: the file exists. A row
  that a process in service stores before the import gets to it ends the
  importing process with an IntegrityError (`ImportCollides`).
- The client of the connection accepted last waits in vain if its thread raises
  (`OnlyLastHangs`: never more than one does), and if the main thread dies, new
  clients wait until the last worker is done.
- A last line without its newline is served as a request, truncated as it is
  (Prosody, Postfix).
- A request that is none of the known operations is answered with a failure, as
  `doc/Protocol.md` says, but for `quit` and `exit`, which get no answer, and
  `roster` under ejabberd's protocol, which gets a success.
- A command of ejabberdctl that fails is recorded as done (`Fault`).

### Bounds and why they are enough

One user is enough for the password cache: rows of different users meet only in
the database locks and in transactions, and both are per connection. Two workers
show every pairwise race; `auth_shared` has three, of which `OneUnused` keeps one
idle, so that a pair of threads and a pair of processes are in one run. Three
passwords let an old, a newer and the newest meet. The clock has to reach past
the longest TTL from a restart that is later than the last verification (3 with
TTLs of 2, 2, 3); in `auth_shared` time stands still, as its properties do not
speak of it. `Unhashable` is the newest of the three passwords, so that an
accepted one and a cached one are compared with it, and is empty in
`auth_shared`, where two threads raise for other reasons. `CacheDecisionSound` and the timestamps are left to `auth_one`, and
to the proofs for more workers.

In `Roster` two users are a login and a member who is not there; two groups with
one key are the collision; one name that changes once shows the vCard.
`MaxChanges` bounds the changes in the cloud, the uses of the scripts and the
responses that are malformed or have a bad name: two of them are one such response
and a change before or after it. Those responses are left to `roster_one`, and to
the proofs for the rest: the users of `roster_shared` have no names, and its
`MaxChanges` is 0. `MaxFaults` bounds failed commands and crashes; `TwoAtATime` does for jobs what
`OneUnused` does for workers. `MembersKnown`, `ThrownOutAtCommit`,
`NameMeansVcard` and `HashMeansProcessed` are checked, and proved, without
failures: with a failed command or a crash they do not hold, as the list of
hazards says.

In `DbInit` the keys of a table are treated alike and one of them is enough for
an import that is begun, finished, collided with or given up; three processes
are one that creates a table, one that is refused and one that serves already.

In `Frontend` two requests in a connection are enough for an answer to be
shifted, and a second connection for what becomes of `held`; each of the four
protocols has a socket, the last without a name. `OneThingAtATime` keeps apart
what needs two requests, what needs two connections, and what needs listeners
that are dropped one by one.

In `PseudoLpty` queries are numbered modulo 4; a connection holds one at most,
so no more can be mixed up. Deadlock is checked in every run.

### Fairness

`EveryRequestEnds`: each worker takes a step when it can. The operating system
schedules every thread, a cloud request has a timeout (`--timeout`), and a
statement that waits for a lock fails after the connection's timeout (the step
`Busy`). Nothing is assumed of requests, crashes or the cloud. `JobsEnd` is the
same for roster jobs; `ejabberdctl` is taken to end. `FirstStartCompletes`: a
process that is down is started again and takes its steps; crashes and locks are
not fair. `RequestSettled` and `AcceptedInTheEnd`: threads run (`Serve`),
`select()` reports what waits (`Accept`), the interpreter ends when its threads
have (`Exit`), and systemd starts the service for a connection that waits
(`Activate`). `AcceptedInTheEnd` also takes it that trouble ends - exceptions in
the main thread, dropped sockets, kills - and that clients close their
connections some day, without which a process whose main thread has died may
never end. `Recovers`: Prosody goes on asking, xcauth answers and is started
again when it is down; failures are bounded by `MaxFaults`.

## Proofs

All theorems hold for every value of the constants that satisfies the named
assumptions of the modules: any sets of workers, processes, users, groups, keys
and connections, any TTLs and any bounds. A safety theorem `Spec => []P` has an
invariant that implies `P`, holds initially and is kept by every step; there is a
lemma per action or group of actions.

### Authentication

`AuthCacheProofs` has

- `TypeCorrect`: `Spec => []TypeOK`;
- `UpsertIsExclusive`: `Spec => []UpsertExclusive`;
- `DurableRowsAreComplete`: `Spec => []DurableRowsComplete`;
- `OneProcessReturnsToAutocommit`: `Spec => []BackToAutocommit`, if there is one
  process.

`DurableRowsComplete` is not inductive: that a committed row has a hash depends
on what the connection would commit, which another thread may be changing. The
inductive invariant `IInv` adds

- `SqlInv` (of `SqliteProofs`): a connection that holds a lock is in a
  transaction, only one holds a write lock, and without a writer the buffer is
  what is on disk;
- `UpsertLocked`: a worker between INSERT and COMMIT holds the write lock;
- `BufRowsFilled`: a row without a hash in the buffer is that of a worker that
  has inserted it and not yet updated it.

A COMMIT then finds no such worker but the one that commits: `UpsertExclusive`
rules out the others of its process, the write lock those of other processes.
`BackToAutocommit` is kept by a step because with one process no statement has
to wait, so no request ends inside its transaction.

`AuthServiceProofs` has

- `CacheDecisionsAreSound`: `Spec => []CacheDecisionSound`;
- `CacheImplementsService`: `Spec => ImplementsService`, the refinement;
- `FirstauthIsStable`: `Spec => FirstauthStable`.

The invariant `DInv` relates the rows to the history: `RowsSound` says that a
row with a hash is of a password the cloud has accepted, at a time no earlier
than `remoteauth`, both in the buffer and on disk; `WorkersSound` that a worker
about to store a password has had it accepted since its process was started;
`TimesSound` that nothing has happened in the future. A step writes at most one
row of the buffer, and only a commit or a crash moves the buffer or the disk, so
one lemma about what is written and one about the move are enough. The
refinement goes step by step: each action of `AuthCache` is a step of
`AuthService` or leaves `Asked`, `Accepted`, `Outages` and `Replies` alone.
`FirstauthStable` needs that the buffer, too, has the time of the disk
(`FirstInv`).

`AuthAloneProofs` has what needs fewer actors:

- `OneProcessOrdersTimestamps`, with one process: every time a row has was that
  of a start of this process (`OrderInv`); the times of two processes' starts
  would mix in one row;
- `OneThreadLosesOnlyByItsInput`, with one worker in one process (`Alone`): by
  `BackToAutocommit` and complete rows no exception is possible but those that
  the request brings itself (`LostOnlyByItsInput`);
- `OneThreadInvalidatesOldPasswords`, for the same: `NewInv` says that what is
  stored, or about to be, is no older than the newest password that was
  answered. The run `auth_lost_update` is the counterexample with two.

They are about processes that have no roster jobs: see above.

### Shared roster

`RosterProofs` has `TypeCorrect`, `TransactionsAreExclusive`
(`OneTransaction`), `GroupRowsAreComplete` (`GroupRowsComplete`) and, for one
process, `OneProcessLeavesOpenOnlyByName` (`LeftOpenOnlyByName`): no statement
waits there, so the only way out of a transaction but COMMIT is the UPDATE that
cannot bind a name. The type invariant alone is not
inductive, as a job indexes the response it works on: `Aim` says that the group
or user it is at is one of that response. The others go along `SqlInv` and
`FillInv` (`UpsertLocked` and `BufFilled`, as in the cache), with the deletions
of the scripts as one more writer.

Four theorems are about one job at a time in one process, without failures
(`Alone`), but with any changes in the cloud and any use of the scripts between
the steps of the job: `OneJobKnowsMembers` (`MembersKnown`), `OneJobThrowsOut`
(`ThrownOutAtCommit`), `OneJobNameMeansVcard` (`NameMeansVcard`) and
`OneJobHashMeansProcessed` (`HashMeansProcessed`). What they say of the state
between jobs is no invariant while a job works: ejabberd runs ahead of the cache
when members are added, the cache ahead of the vCard when a name is committed,
and the hash ahead of the work. So the invariant `AloneInv` adds to `IInv`

- `KnownInv`: each group but the one the job is at is `Known` as between jobs;
  of that one, whoever is in ejabberd's group but not in the response has her
  deletion among the commands that are left (`Expelled`), and what the open
  transaction has written is that user list and nothing else (`Written`);
- `HashInv`: a cached hash is that of the last finished job of its user, or of
  the job that is `Working` for her;
- `NameInv`: a cached name that a command can carry is that of the vCard, or the
  one the job is about to set;
- `Usable`: the connection is in no transaction while a job does its work. One
  that a name has left open stops each later job at its first BEGIN, before its
  hash is stored.

Malformed responses and bad names are among the responses of these theorems; a job
that raises on one leaves the four properties as they are, as `HashMeansProcessed`
speaks of well-formed responses and `NameMeansVcard` of names that a command can
carry. No statement waits and nothing else raises (`NothingRaises`), by `Usable`
and `GroupRowsComplete`. Then there is a lemma per action;
those that have nothing to do with groups, hashes or names go by `GroupsAside`,
`HashAside` and `NameAside`. The conditions are needed: with a second job, or
with one failure, TLC finds each of the four violated on a small instance. Jobs
that overlap read the same rows before either has written them, and finish in
either order. TLC checked `KnownInv`, `HashInv`, `NameInv` and `Usable` on the instance of
`roster_one` before they were proved.

### First start

`DbInitProofs` has `TypeCorrect`, `ImporterIsAlone` (`OneImporter`),
`InitializationCompletes` (`CompleteUnlessFailed`) and `LoginsSurvive`
(`ImportSparesLogins`). The invariant `IInv` adds `ImportsWhatExists` - an
importer works on a table that exists - and, as long as nothing was cut short,
`NothingSkipped`, that no process is past a table that does not exist, and
`Provided`, that for each table and each old row that is missing there is a
process still on its way to it. `Pos` puts the steps of a start in order.

### Front ends

`FrontendProofs` has `TypeCorrect`, `AnswersKeepOrder` (`AnswersInOrder`),
`AnswersAreTruthful` (`AnswersTruthful`) and `HungConnectionIsLast`
(`OnlyLastHangs`). The order of the answers rests on `InStep`: between two
requests a thread has given as many answers as it has read requests, with the
fields of saslauthd counted and each remembered with the request it is of.
`AnswersTruthful` is proved with its two exceptions, which are the code's.

### Prosody connector

`PseudoLptyProofs` has `TypeCorrect`, `ResponsesMatch` (`ResponseMatches`) and
`OneQuery` (`OneQueryInConnection`). That the line which is read answers the
query which waits depends on what the connection holds: `LInv` adds `Contents`,
the connection is empty but during `read`, where it holds at most the query that
is waited for, on its way or answered. It rests on `plpty:read()` disconnecting
after a timeout and on `plpty:send()` starting over with an empty connection.

### Only model-checked

Liveness (`EveryRequestEnds`, `JobsEnd`, `FirstStartCompletes`,
`RequestSettled`, `AcceptedInTheEnd`): it rests on fairness and on which actions
are enabled, which is beyond the provers.

## Not modelled

- The stdio modes of xcauth (one stream, as ejabberd's and Prosody's pipes
  have it): the same loop over requests, with one connection and no main loop.
  In `AuthCache` the difference is the constant `Threaded`. One-shot commands.
- The database `:memory:`, and in `DbInit` the cache in memory: private to a
  process, and created in full at every start.
- Values of `domains`, HTTP status codes and JSON beyond the four outcomes of an
  `auth` request and the three of `isuser`; HMAC and token formats; bcrypt and
  its cost.
- The timeouts themselves: a lock timeout may come whenever the lock is held.
- Python's own handling of concurrent use of a connection object (the library
  serializes statements).
- The content of a request but for what makes it illegal, cut or undecodable.
- Groups ending in U+200B (ignored by the code); `last_update`.
- Malformed data beyond what raises at an entry of a response: names that are
  numbers or null, which SQLite stores and no command carries; user names with a NUL
  character; a result of an `auth` request other than the documented values;
  a roster response of null or false, upon which `try_roster` does nothing.
- A roster under Prosody's protocol whose body has several lines, which a client
  that reads by lines would take for several answers: the request is an extension
  for tests, and `Frontend` takes the body for one line.
- ejabberd's own limits. Adding to or deleting from a group that does not exist
  is taken to have no effect.
- `xcdelhost`, which makes the deletions of the other scripts for a whole domain.
- Non-blocking mode of the Prosody modules, which never gets past its first
  query; `mod_auth_socket.lua` is `mod_auth_external.lua` with other option names.
- Configuration, logging, signals, packaging.

## Plan

Done: all modules above and their proofs. Left: `Xcauth`, the composition of
authentication and roster over the one connection that they share with
`--cache-storage=db`, so that a background job meets a worker's upsert; which of
the properties of either survive.
