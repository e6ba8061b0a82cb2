---------------------------- MODULE SqliteProofs ----------------------------
(***************************************************************************)
(* Lemmas about the statements of Sqlite, whatever the database contains.  *)
(***************************************************************************)
EXTENDS Sqlite, TLAPS

USE DEF Writer, View

\* The statements keep the type of the database.
LEMMA SqlReadType ==
    ASSUME NEW Content, SqlTypeOK(Content), NEW p \in Procs, SqlRead(p) PROVE SqlTypeOK(Content)'
BY DEF SqlTypeOK, SqlRead, Locks

LEMMA SqlWriteType ==
    ASSUME NEW Content, SqlTypeOK(Content), NEW p \in Procs, NEW c \in Content, SqlWrite(p, c)
    PROVE  SqlTypeOK(Content)'
BY DEF SqlTypeOK, SqlWrite, Locks

LEMMA SqlBeginType ==
    ASSUME NEW Content, SqlTypeOK(Content), NEW p \in Procs, SqlBegin(p) PROVE SqlTypeOK(Content)'
BY DEF SqlTypeOK, SqlBegin, Locks

LEMMA SqlCommitType ==
    ASSUME NEW Content, SqlTypeOK(Content), NEW p \in Procs, SqlCommit(p) PROVE SqlTypeOK(Content)'
BY DEF SqlTypeOK, SqlCommit, Locks

LEMMA SqlCommitBusyType ==
    ASSUME NEW Content, SqlTypeOK(Content), NEW p \in Procs, SqlCommitBusy(p)
    PROVE  SqlTypeOK(Content)'
BY DEF SqlTypeOK, SqlCommitBusy, Locks

LEMMA SqlCloseType ==
    ASSUME NEW Content, SqlTypeOK(Content), NEW p \in Procs, NEW c \in Content, SqlClose(p, c)
    PROVE  SqlTypeOK(Content)'
BY DEF SqlTypeOK, SqlClose, Locks

-----------------------------------------------------------------------------
\* What the statements keep: locks are held in transactions only, one connection
\* writes, and the uncommitted content differs from the file only if one does.
SqlInv ==
    /\ \A p \in Procs : lock[p] # "none" => open[p]
    /\ \A p, q \in Procs : Writer(p) /\ Writer(q) => p = q
    /\ (\A p \in Procs : ~Writer(p)) => buf = disk

LEMMA SqlInvStep ==
    ASSUME NEW Content, SqlTypeOK(Content), SqlInv, NEW p \in Procs, NEW c,
           \/ SqlRead(p) \/ SqlWrite(p, c) \/ SqlBegin(p) \/ SqlCommit(p)
           \/ SqlCommitBusy(p) \/ SqlClose(p, c)
    PROVE  SqlInv'
  <1>1. CASE SqlRead(p)
    BY <1>1 DEF SqlInv, SqlRead, SqlTypeOK
  <1>2. CASE SqlWrite(p, c)
    BY <1>2 DEF SqlInv, SqlWrite, SqlTypeOK, MayWrite, MayReserve
  <1>3. CASE SqlBegin(p)
    BY <1>3 DEF SqlInv, SqlBegin, SqlTypeOK
  <1>4. CASE SqlCommit(p)
    BY <1>4 DEF SqlInv, SqlCommit, SqlTypeOK
  <1>5. CASE SqlCommitBusy(p)
    BY <1>5 DEF SqlInv, SqlCommitBusy, SqlTypeOK
  <1>6. CASE SqlClose(p, c)
    BY <1>6 DEF SqlInv, SqlClose, SqlTypeOK
  <1>. QED  BY <1>1, <1>2, <1>3, <1>4, <1>5, <1>6

LEMMA ReadKeepsWriters ==
    ASSUME NEW Content, SqlTypeOK(Content), NEW p \in Procs, SqlRead(p)
    PROVE  \A q \in Procs : Writer(q)' <=> Writer(q)
BY DEF SqlTypeOK, SqlRead
=============================================================================
