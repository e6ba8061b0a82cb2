------------------------------- MODULE DbInit -------------------------------
(***************************************************************************)
(* The first opening of the database: connection.__init__ of               *)
(* src/xclib/db.py by several processes at a time (the pool of ejabberd,   *)
(* or one service per protocol), with crashes, restarts and the requests   *)
(* of processes that serve already.                                        *)
(*                                                                         *)
(* The connection is in autocommit mode, so every CREATE TABLE and every   *)
(* imported row is durable at once, and nothing is ever rolled back.  The  *)
(* cache in memory and the database ":memory:" are private to a process    *)
(* and need no more than its own steps; they are left out.                 *)
(***************************************************************************)
CONSTANTS
    Procs,              \* the processes that open the database
    Keys,               \* domains, users and groups
    Legacy              \* per table, the keys of the old database file

Tables == {"domains", "authcache", "rosterinfo", "rostergroups"}

ASSUME DbInitAssumption == Legacy \in [Tables -> SUBSET Keys]

VARIABLES
    there,              \* the database file exists
    tables,             \* the tables in it
    rows,               \* who wrote the row of a key
    phase,              \* what each process does
    cur,                \* the table it is at
    todo,               \* the rows it has still to import into it
    failed              \* history: an initialization was cut short

vars == <<there, tables, rows, phase, cur, todo, failed>>

Phases == {"down", "connect", "create", "import", "serving"}
Origins == {"absent", "legacy", "login"}

TypeOK ==
    /\ there \in BOOLEAN /\ failed \in BOOLEAN
    /\ tables \subseteq Tables
    /\ rows \in [Tables -> [Keys -> Origins]]
    /\ phase \in [Procs -> Phases]
    /\ cur \in [Procs -> Tables]
    /\ todo \in [Procs -> SUBSET Keys]
    /\ \A p \in Procs :
          /\ phase[p] \in {"create", "import", "serving"} => there
          /\ todo[p] \subseteq (IF phase[p] = "import" THEN Legacy[cur[p]] ELSE {})

Init ==
    /\ there = FALSE /\ failed = FALSE
    /\ tables = {}
    /\ rows = [t \in Tables |-> [k \in Keys |-> "absent"]]
    /\ phase = [p \in Procs |-> "down"]
    /\ cur = [p \in Procs |-> "domains"]
    /\ todo = [p \in Procs |-> {}]

Unchanged == UNCHANGED <<there, tables, rows, failed>>

-----------------------------------------------------------------------------
(* The order of things in connection.__init__ and db_upgrade_*.            *)

At(p, ph, t) ==
    /\ phase' = [phase EXCEPT ![p] = ph]
    /\ cur' = [cur EXCEPT ![p] = t]
    /\ todo' = [todo EXCEPT ![p] = IF ph = "import" THEN Legacy[t] ELSE {}]

\* Variant: rosterinfo is filled as soon as it is created.
AfterCreateImports(p) == At(p, "import", cur[p])

\* rosterinfo is created before rostergroups, and filled after it.
AfterCreate(p) ==
    \/ cur[p] # "rosterinfo" /\ At(p, "import", cur[p])
    \/ cur[p] = "rosterinfo" /\ At(p, "create", "rostergroups")

\* Variant: whoever finds "domains" there imports it nevertheless.
AfterRefusalImports(p) ==
    \/ cur[p] = "domains" /\ At(p, "import", "domains")
    \/ cur[p] = "authcache" /\ At(p, "create", "rosterinfo")
    \/ cur[p] = "rosterinfo" /\ At(p, "create", "rostergroups")
    \/ cur[p] = "rostergroups" /\ At(p, "serving", "rostergroups")

\* "Someone else already created the table; he probably also migrated it".
AfterRefusal(p) ==
    \/ cur[p] = "domains" /\ At(p, "create", "authcache")
    \/ cur[p] = "authcache" /\ At(p, "create", "rosterinfo")
    \/ cur[p] = "rosterinfo" /\ At(p, "create", "rostergroups")
    \/ cur[p] = "rostergroups" /\ At(p, "serving", "rostergroups")

\* Variant: the initialization ends with the import of the user lists.
AfterImportTooSoon(p) ==
    \/ cur[p] = "domains" /\ At(p, "create", "authcache")
    \/ cur[p] = "authcache" /\ At(p, "create", "rosterinfo")
    \/ cur[p] = "rostergroups" /\ At(p, "serving", "rostergroups")

AfterImport(p) ==
    \/ cur[p] = "domains" /\ At(p, "create", "authcache")
    \/ cur[p] = "authcache" /\ At(p, "create", "rosterinfo")
    \/ cur[p] = "rostergroups" /\ At(p, "import", "rosterinfo")
    \/ cur[p] = "rosterinfo" /\ At(p, "serving", "rosterinfo")

-----------------------------------------------------------------------------
(* The steps of a start.                                                   *)

\* db_was_there
Look(p) ==
    /\ phase[p] = "down"
    /\ At(p, IF there THEN "serving" ELSE "connect", "domains")
    /\ Unchanged

\* Variant: the file comes with the first table.
ConnectLazily(p) ==
    /\ phase[p] = "connect"
    /\ At(p, "create", "domains")
    /\ Unchanged

\* sqlite3.connect creates the file.
Connect(p) ==
    /\ phase[p] = "connect"
    /\ there' = TRUE
    /\ At(p, "create", "domains")
    /\ UNCHANGED <<tables, rows, failed>>

Create(p) ==
    /\ phase[p] = "create"
    /\ cur[p] \notin tables
    /\ tables' = tables \cup {cur[p]}
    /\ AfterCreate(p)
    /\ UNCHANGED <<there, rows, failed>>

\* OperationalError: the table exists.
CreateRefused(p) ==
    /\ phase[p] = "create"
    /\ cur[p] \in tables
    /\ AfterRefusal(p)
    /\ Unchanged

\* OperationalError as well: the database is locked for longer than the timeout.
CreateLocked(p) ==
    /\ phase[p] = "create"
    /\ cur[p] \notin tables
    /\ AfterRefusal(p)
    /\ failed' = TRUE
    /\ UNCHANGED <<there, tables, rows>>

\* Variant: INSERT OR REPLACE.
ImportRowReplacing(p, k) ==
    /\ phase[p] = "import"
    /\ k \in todo[p]
    /\ rows' = [rows EXCEPT ![cur[p]][k] = "legacy"]
    /\ todo' = [todo EXCEPT ![p] = @ \ {k}]
    /\ UNCHANGED <<there, tables, phase, cur, failed>>

ImportRow(p, k) ==
    /\ phase[p] = "import"
    /\ k \in todo[p]
    /\ rows[cur[p]][k] = "absent"
    /\ rows' = [rows EXCEPT ![cur[p]][k] = "legacy"]
    /\ todo' = [todo EXCEPT ![p] = @ \ {k}]
    /\ UNCHANGED <<there, tables, phase, cur, failed>>

ImportDone(p) ==
    /\ phase[p] = "import"
    /\ todo[p] = {}
    /\ AfterImport(p)
    /\ Unchanged

\* The process ends; in the middle of the initialization that cuts it short.
End(p) ==
    /\ At(p, "down", "domains")
    /\ failed' = (failed \/ phase[p] \in {"create", "import"})
    /\ UNCHANGED <<there, tables, rows>>

\* IntegrityError, which nothing catches: a serving process has written the row.
ImportCollides(p) ==
    /\ phase[p] = "import"
    /\ \E k \in todo[p] : rows[cur[p]][k] # "absent"
    /\ End(p)

\* bsddb3.db.DBError is caught: the rest of the file is given up.
LegacyUnreadable(p) ==
    /\ phase[p] = "import"
    /\ todo' = [todo EXCEPT ![p] = {}]
    /\ failed' = TRUE
    /\ UNCHANGED <<there, tables, rows, phase, cur>>

-----------------------------------------------------------------------------
(* The environment.                                                        *)

\* Killed, or an exception: a line of the old database that cannot be split, an
\* INSERT that waited for a lock in vain.
Crash(p) == phase[p] # "down" /\ End(p)

\* A request that is served by p writes a row of the cache or the roster.
\* Without the table of its domain it fails (per_domain).
Store(p, t, k) ==
    /\ phase[p] = "serving"
    /\ t # "domains"
    /\ {"domains", t} \subseteq tables
    /\ rows' = [rows EXCEPT ![t][k] = "login"]
    /\ UNCHANGED <<there, tables, phase, cur, todo, failed>>

-----------------------------------------------------------------------------
Start(p) ==
    \/ Look(p) \/ Connect(p)
    \/ Create(p) \/ CreateRefused(p)
    \/ \E k \in Keys : ImportRow(p, k)
    \/ ImportDone(p) \/ ImportCollides(p)

Environment ==
    \E p \in Procs :
        \/ CreateLocked(p) \/ LegacyUnreadable(p) \/ Crash(p)
        \/ \E t \in Tables, k \in Keys : Store(p, t, k)

Next == (\E p \in Procs : Start(p)) \/ Environment

Spec == Init /\ [][Next]_vars

\* A process that is down is started again, and goes on.
FairSpec == Spec /\ \A p \in Procs : WF_vars(Start(p))

-----------------------------------------------------------------------------
\* All four tables are there, and every row of the old databases was imported
\* or has been written by a request since.
Complete ==
    /\ tables = Tables
    /\ \A t \in Tables : \A k \in Legacy[t] : rows[t][k] # "absent"

\* "When ... the database file does not exist, the database is created and the
\* current values of the legacy files ... are imported" (doc/Database.md:84-88):
\* however the processes race, when none is on its way any more nothing is left
\* out, unless an initialization was cut short - which no later start makes good,
\* as the file is there (db.py:27,55).
CompleteUnlessFailed ==
    there /\ ~failed /\ (\A p \in Procs : phase[p] \notin {"create", "import"}) => Complete

\* The one whose CREATE TABLE succeeds imports, and nobody else: two of them
\* would collide, and both would end (db.py:83-85,170-172).  Both tables of the
\* roster are imported by the one that created the second.
File(t) == IF t = "rosterinfo" THEN "rostergroups" ELSE t

OneImporter ==
    \A p, q \in Procs :
        phase[p] = "import" /\ phase[q] = "import" /\ File(cur[p]) = File(cur[q]) => p = q

\* The import never undoes what a request has stored since.
ImportSparesLogins ==
    [][\A t \in Tables, k \in Keys : rows[t][k] = "login" => rows'[t][k] = "login"]_vars

\* A first start that is not cut short ends with a complete database.
FirstStartCompletes == there ~> Complete \/ failed
=============================================================================
