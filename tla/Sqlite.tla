------------------------------- MODULE Sqlite -------------------------------
(***************************************************************************)
(* One SQLite database in rollback-journal mode and the connections to it, *)
(* one per process of xcauth (src/xclib/db.py opens exactly one connection *)
(* per process and shares it between the threads).  The library is not     *)
(* part of the repository: the operators below are what the code relies on *)
(* - which statements wait for which locks, what a connection sees, and    *)
(* what a statement that ends with "database is locked" leaves behind.     *)
(*                                                                         *)
(* The content of the database is a parameter of the write operators, so   *)
(* a module with tables of its own gives "disk" its type.                  *)
(***************************************************************************)
EXTENDS Integers

CONSTANT Procs          \* the processes that have the database open

VARIABLES disk,         \* what is committed
          buf,          \* what the connection that holds the write lock sees
          lock,         \* the file lock of each connection
          open          \* TRUE: the connection is out of autocommit mode

sqlVars == <<disk, buf, lock, open>>

Locks == {"none", "shared", "reserved", "pending"}

SqlTypeOK(Content) ==
    /\ disk \in Content
    /\ buf \in Content
    /\ lock \in [Procs -> Locks]
    /\ open \in [Procs -> BOOLEAN]

SqlInit(content) ==
    /\ disk = content
    /\ buf = content
    /\ lock = [p \in Procs |-> "none"]
    /\ open = [p \in Procs |-> FALSE]

Writer(p) == lock[p] \in {"reserved", "pending"}

\* The uncommitted content is seen by every statement of the same connection,
\* whichever thread issues it, and by nobody else.
View(p) == IF Writer(p) THEN buf ELSE disk

-----------------------------------------------------------------------------
(* Which locks can be had.  A pending lock keeps new readers out, a        *)
(* reserved one other writers, and the exclusive lock of a commit needs    *)
(* every other connection to hold nothing.                                 *)

MayRead(p) == lock[p] # "none" \/ \A q \in Procs \ {p} : lock[q] # "pending"

MayReserve(p) == MayRead(p) /\ \A q \in Procs \ {p} : ~Writer(q)

MayExclude(p) == \A q \in Procs \ {p} : lock[q] = "none"

MayWrite(p) == MayReserve(p) /\ (open[p] \/ MayExclude(p))

-----------------------------------------------------------------------------
(* Statements.  In a transaction a SELECT keeps its shared lock and the    *)
(* first write takes the reserved lock; both stay until the transaction    *)
(* ends.  In autocommit mode a write commits by itself.                    *)

SqlRead(p) ==
    /\ MayRead(p)
    /\ lock' = [lock EXCEPT ![p] = IF open[p] /\ @ = "none" THEN "shared" ELSE @]
    /\ UNCHANGED <<disk, buf, open>>

SqlWrite(p, content) ==
    /\ MayWrite(p)
    /\ buf' = content
    /\ disk' = IF open[p] THEN disk ELSE content
    /\ lock' = [lock EXCEPT ![p] = IF open[p] /\ ~Writer(p) THEN "reserved" ELSE @]
    /\ UNCHANGED open

\* BEGIN inside a transaction is refused by the library.
SqlBegin(p) ==
    /\ ~open[p]
    /\ open' = [open EXCEPT ![p] = TRUE]
    /\ UNCHANGED <<disk, buf, lock>>

\* sqlite3.Connection.commit() does nothing if there is no transaction.
SqlCommit(p) ==
    /\ Writer(p) => MayExclude(p)
    /\ disk' = View(p)
    /\ lock' = [lock EXCEPT ![p] = "none"]
    /\ open' = [open EXCEPT ![p] = FALSE]
    /\ UNCHANGED buf

\* A COMMIT that cannot get the exclusive lock fails, but keeps the pending
\* lock, the transaction and its changes.
SqlCommitBusy(p) ==
    /\ Writer(p)
    /\ ~MayExclude(p)
    /\ lock' = [lock EXCEPT ![p] = "pending"]
    /\ UNCHANGED <<disk, buf, open>>

\* The end of the process closes the connection and rolls back; "content" is
\* what its successor finds: disk for a file, the empty database for ":memory:".
SqlClose(p, content) ==
    /\ disk' = content
    /\ buf' = IF \E q \in Procs \ {p} : Writer(q) THEN buf ELSE content
    /\ lock' = [lock EXCEPT ![p] = "none"]
    /\ open' = [open EXCEPT ![p] = FALSE]
=============================================================================
