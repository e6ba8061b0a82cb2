---------------------------- MODULE DbInitProofs ----------------------------
(***************************************************************************)
(* What DbInit guarantees for any number of processes and any old          *)
(* databases, whatever the processes do to each other.                     *)
(***************************************************************************)
EXTENDS DbInit, Integers, TLAPS

\* How far a process is: creation and import of the tables in the order of the
\* code.
CreatePos(t) == CASE t = "domains" -> 1 [] t = "authcache" -> 3
                  [] t = "rosterinfo" -> 5 [] t = "rostergroups" -> 6

ImportPos(t) == CASE t = "domains" -> 2 [] t = "authcache" -> 4
                  [] t = "rostergroups" -> 7 [] t = "rosterinfo" -> 8

Starting(p) == phase[p] \in {"create", "import"}

Pos(p) == IF phase[p] = "create" THEN CreatePos(cur[p]) ELSE ImportPos(cur[p])

\* An importer works on a table that exists.
ImportsWhatExists ==
    \A p \in Procs : phase[p] = "import" => File(cur[p]) \in tables

\* Nobody is past a table that does not exist.
NothingSkipped ==
    /\ \A p \in Procs, t \in Tables : Starting(p) /\ CreatePos(t) < Pos(p) => t \in tables
    /\ "rostergroups" \in tables => "rosterinfo" \in tables

\* What is missing, somebody will provide.
WillCreate(t) == \E p \in Procs : Starting(p) /\ Pos(p) <= CreatePos(t)

WillImport(t, k) ==
    \/ \E p \in Procs : phase[p] = "import" /\ cur[p] = t /\ k \in todo[p]
    \/ t = "rosterinfo" /\ "rostergroups" \notin tables
    \/ t = "rosterinfo" /\ \E p \in Procs : phase[p] = "import" /\ cur[p] = "rostergroups"

Provided ==
    /\ \A t \in Tables \ tables : WillCreate(t)
    /\ \A t \in tables : \A k \in Legacy[t] : rows[t][k] = "absent" => WillImport(t, k)

IInv ==
    /\ TypeOK
    /\ tables # {} => there
    /\ ImportsWhatExists
    /\ OneImporter
    /\ ~failed => NothingSkipped
    /\ there /\ ~failed => Provided

-----------------------------------------------------------------------------
(* Types.                                                                  *)

LEMMA InitTyped == Init => TypeOK
<1> SUFFICES ASSUME Init PROVE TypeOK
    OBVIOUS
<1>1. \A p \in Procs : phase[p] = "down" /\ todo[p] = {}
    BY DEF Init
<1>2. /\ rows \in [Tables -> [Keys -> Origins]]
      /\ tables \subseteq Tables /\ there \in BOOLEAN /\ failed \in BOOLEAN
    BY DEF Init, Origins
<1>3. /\ phase \in [Procs -> Phases] /\ cur \in [Procs -> Tables]
      /\ todo \in [Procs -> SUBSET Keys]
    BY DEF Init, Phases, Tables
<1> QED
    BY <1>1, <1>2, <1>3 DEF TypeOK

LEMMA AtTyped ==
    ASSUME TypeOK, NEW p \in Procs, NEW ph \in Phases, NEW t \in Tables, At(p, ph, t),
           there' \in BOOLEAN, ph \in {"create", "import", "serving"} => there',
           there => there'
    PROVE  /\ phase' \in [Procs -> Phases]
           /\ cur' \in [Procs -> Tables]
           /\ todo' \in [Procs -> SUBSET Keys]
           /\ \A q \in Procs :
                 /\ phase'[q] \in {"create", "import", "serving"} => there'
                 /\ todo'[q] \subseteq (IF phase'[q] = "import" THEN Legacy[cur'[q]] ELSE {})
BY DbInitAssumption DEF TypeOK, At

LEMMA StepTyped == TypeOK /\ [Next]_vars => TypeOK'
<1> SUFFICES ASSUME TypeOK, [Next]_vars PROVE TypeOK'
    OBVIOUS
<1>a. ASSUME NEW p \in Procs, Look(p) PROVE TypeOK'
    <2>1. there' = there /\ tables' = tables /\ rows' = rows /\ failed' = failed
        BY <1>a DEF Look, Unchanged
    <2>2. At(p, IF there THEN "serving" ELSE "connect", "domains")
        BY <1>a DEF Look
    <2> QED
        BY <2>1, <2>2, AtTyped DEF TypeOK, Phases, Tables
<1>b. ASSUME NEW p \in Procs, Connect(p) PROVE TypeOK'
    BY <1>b, AtTyped DEF Connect, TypeOK, Phases, Tables
<1>c. ASSUME NEW p \in Procs, Create(p) PROVE TypeOK'
    <2>1. PICK ph \in {"import", "create"}, t \in Tables : At(p, ph, t)
        BY <1>c DEF Create, AfterCreate, TypeOK, Tables
    <2> QED
        BY <1>c, <2>1, AtTyped DEF Create, TypeOK, Phases
<1>d. ASSUME NEW p \in Procs, CreateRefused(p) \/ CreateLocked(p) PROVE TypeOK'
    <2>1. PICK ph \in {"create", "serving"}, t \in Tables : At(p, ph, t)
        BY <1>d DEF CreateRefused, CreateLocked, AfterRefusal, Tables
    <2> QED
        BY <1>d, <2>1, AtTyped DEF CreateRefused, CreateLocked, Unchanged, TypeOK, Phases
<1>e. ASSUME NEW p \in Procs, NEW k \in Keys, ImportRow(p, k) PROVE TypeOK'
    BY <1>e DEF ImportRow, TypeOK, Origins
<1>f. ASSUME NEW p \in Procs, ImportDone(p) PROVE TypeOK'
    <2>1. PICK ph \in {"create", "import", "serving"}, t \in Tables : At(p, ph, t)
        BY <1>f DEF ImportDone, AfterImport, Tables
    <2> QED
        BY <1>f, <2>1, AtTyped DEF ImportDone, Unchanged, TypeOK, Phases
<1>g. ASSUME NEW p \in Procs, ImportCollides(p) \/ Crash(p) PROVE TypeOK'
    BY <1>g, AtTyped DEF ImportCollides, Crash, End, TypeOK, Phases, Tables
<1>h. ASSUME NEW p \in Procs, LegacyUnreadable(p) PROVE TypeOK'
    BY <1>h DEF LegacyUnreadable, TypeOK
<1>i. ASSUME NEW p \in Procs, NEW t \in Tables, NEW k \in Keys, Store(p, t, k) PROVE TypeOK'
    BY <1>i DEF Store, TypeOK, Origins
<1>j. CASE UNCHANGED vars
    BY <1>j DEF vars, TypeOK
<1> QED
    BY <1>a, <1>b, <1>c, <1>d, <1>e, <1>f, <1>g, <1>h, <1>i, <1>j
    DEF Next, Start, Environment

\* Every reachable state is well typed; a process that creates, imports or serves
\* has a database file.
THEOREM TypeCorrect == Spec => []TypeOK
<1>1. TypeOK /\ [Next]_vars => TypeOK'
    BY StepTyped
<1> QED
    BY InitTyped, <1>1, PTL DEF Spec

-----------------------------------------------------------------------------
(* Where a step leaves the processes.                                      *)

LEMMA AtMoves ==
    ASSUME TypeOK, NEW p \in Procs, NEW ph, NEW t, At(p, ph, t)
    PROVE  /\ phase'[p] = ph /\ cur'[p] = t
           /\ todo'[p] = IF ph = "import" THEN Legacy[t] ELSE {}
           /\ \A q \in Procs \ {p} :
                 phase'[q] = phase[q] /\ cur'[q] = cur[q] /\ todo'[q] = todo[q]
BY DEF TypeOK, At

\* Only these three leave an import, or a file, to the same process.
LEMMA CreateMoves ==
    ASSUME TypeOK, NEW p \in Procs, Create(p)
    PROVE  /\ phase[p] = "create" /\ cur[p] \notin tables
           /\ tables' = tables \cup {cur[p]}
           /\ IF cur[p] = "rosterinfo" THEN At(p, "create", "rostergroups")
                                       ELSE At(p, "import", cur[p])
BY DEF Create, AfterCreate

LEMMA ImportDoneMoves ==
    ASSUME TypeOK, NEW p \in Procs, ImportDone(p)
    PROVE  /\ phase[p] = "import" /\ todo[p] = {}
           /\ tables' = tables /\ rows' = rows
           /\ \/ cur[p] = "domains" /\ At(p, "create", "authcache")
              \/ cur[p] = "authcache" /\ At(p, "create", "rosterinfo")
              \/ cur[p] = "rostergroups" /\ At(p, "import", "rosterinfo")
              \/ cur[p] = "rosterinfo" /\ At(p, "serving", "rosterinfo")
BY DEF ImportDone, AfterImport, Unchanged

\* A step that starts no import.
LEMMA NoNewImporter ==
    ASSUME TypeOK, ImportsWhatExists, OneImporter, tables \subseteq tables',
           \A q \in Procs : phase'[q] = "import" => phase[q] = "import" /\ cur'[q] = cur[q]
    PROVE  (ImportsWhatExists /\ OneImporter)'
BY DEF ImportsWhatExists, OneImporter

LEMMA StepImporter ==
    ASSUME TypeOK, ImportsWhatExists, OneImporter, [Next]_vars
    PROVE  (ImportsWhatExists /\ OneImporter)'
<1>a. ASSUME NEW p \in Procs, Create(p) PROVE (ImportsWhatExists /\ OneImporter)'
    <2>1. CASE cur[p] = "rosterinfo"
        <3>1. At(p, "create", "rostergroups") /\ tables \subseteq tables'
            BY <1>a, <2>1, CreateMoves
        <3> QED
            BY <3>1, AtMoves, NoNewImporter
    <2>2. CASE cur[p] # "rosterinfo"
        <3>1. At(p, "import", cur[p]) /\ cur[p] \notin tables /\ tables' = tables \cup {cur[p]}
            BY <1>a, <2>2, CreateMoves
        <3>2. \A q \in Procs \ {p} : phase'[q] = "import"
                 => phase[q] = "import" /\ cur'[q] = cur[q] /\ File(cur[q]) \in tables
            BY <3>1, AtMoves DEF ImportsWhatExists
        <3>3. phase'[p] = "import" /\ cur'[p] = cur[p] /\ File(cur[p]) = cur[p]
            BY <2>2, <3>1, AtMoves DEF File
        <3> QED
            BY <3>1, <3>2, <3>3 DEF ImportsWhatExists, OneImporter
    <2> QED
        BY <2>1, <2>2
<1>b. ASSUME NEW p \in Procs, ImportDone(p) PROVE (ImportsWhatExists /\ OneImporter)'
    <2>1. phase[p] = "import" /\ tables' = tables
        BY <1>b, ImportDoneMoves
    <2>2. CASE cur[p] = "rostergroups" /\ At(p, "import", "rosterinfo")
        <3>1. \A q \in Procs : phase'[q] = "import"
                 => phase[q] = "import" /\ File(cur'[q]) = File(cur[q])
            BY <2>1, <2>2, AtMoves DEF File
        <3> QED
            BY <2>1, <3>1 DEF ImportsWhatExists, OneImporter
    <2>3. CASE \E ph \in {"create", "serving"}, t \in Tables : At(p, ph, t)
        BY <2>1, <2>3, AtMoves, NoNewImporter
    <2> QED
        BY <1>b, <2>2, <2>3, ImportDoneMoves DEF Tables
<1>c. ASSUME NEW p \in Procs, NEW ph \in {"down", "connect", "create", "serving"},
             NEW t \in Tables, At(p, ph, t), tables' = tables
      PROVE  (ImportsWhatExists /\ OneImporter)'
    BY <1>c, AtMoves, NoNewImporter
<1>d. ASSUME NEW p \in Procs, Look(p) \/ Connect(p) PROVE (ImportsWhatExists /\ OneImporter)'
    BY <1>c, <1>d DEF Look, Connect, Unchanged, Tables
<1>e. ASSUME NEW p \in Procs, CreateRefused(p) \/ CreateLocked(p)
      PROVE  (ImportsWhatExists /\ OneImporter)'
    BY <1>c, <1>e DEF CreateRefused, CreateLocked, AfterRefusal, Unchanged, Tables
<1>f. ASSUME NEW p \in Procs, ImportCollides(p) \/ Crash(p)
      PROVE  (ImportsWhatExists /\ OneImporter)'
    BY <1>c, <1>f DEF ImportCollides, Crash, End, Tables
<1>g. CASE UNCHANGED <<phase, cur, tables>>
    BY <1>g, NoNewImporter
<1> QED
    BY <1>a, <1>b, <1>d, <1>e, <1>f, <1>g
    DEF Next, Start, Environment, ImportRow, LegacyUnreadable, Store, vars

-----------------------------------------------------------------------------
(* Nobody skips a table.                                                   *)

LEMMA Positions ==
    /\ \A t \in Tables : CreatePos(t) \in 1..6 /\ ImportPos(t) \in 2..8
    /\ \A s, t \in Tables : CreatePos(s) = CreatePos(t) => s = t
    /\ CreatePos("domains") = 1 /\ ImportPos("domains") = 2
    /\ CreatePos("authcache") = 3 /\ ImportPos("authcache") = 4
    /\ CreatePos("rosterinfo") = 5 /\ CreatePos("rostergroups") = 6
    /\ ImportPos("rostergroups") = 7 /\ ImportPos("rosterinfo") = 8
<1>1. /\ CreatePos("domains") = 1 /\ CreatePos("authcache") = 3
      /\ CreatePos("rosterinfo") = 5 /\ CreatePos("rostergroups") = 6
    BY DEF CreatePos
<1>2. /\ ImportPos("domains") = 2 /\ ImportPos("authcache") = 4
      /\ ImportPos("rostergroups") = 7 /\ ImportPos("rosterinfo") = 8
    BY DEF ImportPos
<1> QED
    BY <1>1, <1>2 DEF Tables

LEMMA StepSkips ==
    ASSUME TypeOK, ~failed => NothingSkipped, [Next]_vars
    PROVE  (~failed => NothingSkipped)'
<1> SUFFICES ASSUME ~failed' PROVE NothingSkipped'
    OBVIOUS
<1>0. ~failed /\ NothingSkipped
    BY DEF Next, Start, Environment, Look, Connect, Create, CreateRefused, CreateLocked,
       ImportRow, ImportDone, ImportCollides, LegacyUnreadable, Crash, End, Store,
       Unchanged, vars, TypeOK
<1>a. ASSUME NEW p \in Procs, Create(p) PROVE NothingSkipped'
    <2>1. cur[p] \in Tables /\ phase[p] = "create" /\ tables' = tables \cup {cur[p]}
        BY <1>a DEF Create, TypeOK
    <2>2. /\ \A t \in Tables : CreatePos(t) <= CreatePos(cur[p]) => t \in tables'
          /\ "rostergroups" \in tables' => "rosterinfo" \in tables'
        BY <1>0, <2>1, Positions DEF NothingSkipped, Starting, Pos, Tables
    <2>3. \A t \in Tables : Starting(p)' /\ CreatePos(t) < Pos(p)'
              => CreatePos(t) <= CreatePos(cur[p])
        <3>1. CASE cur[p] = "rosterinfo" /\ At(p, "create", "rostergroups")
            BY <3>1, AtMoves, Positions DEF Pos
        <3>2. CASE cur[p] # "rosterinfo" /\ At(p, "import", cur[p])
            BY <2>1, <3>2, AtMoves, Positions DEF Pos, Tables
        <3> QED
            BY <1>a, <3>1, <3>2, CreateMoves
    <2>4. \A q \in Procs \ {p} : phase'[q] = phase[q] /\ cur'[q] = cur[q]
        BY <1>a, CreateMoves, AtMoves
    <2> QED
        BY <1>0, <2>1, <2>2, <2>3, <2>4 DEF NothingSkipped, Starting, Pos
<1>b. ASSUME NEW p \in Procs, NEW ph, NEW t \in Tables, At(p, ph, t), tables' = tables,
             \/ ph \notin {"create", "import"}
             \/ ph = "create" /\ \A s \in Tables : CreatePos(s) < CreatePos(t) => s \in tables
             \/ ph = "import" /\ \A s \in Tables : CreatePos(s) < ImportPos(t) => s \in tables
      PROVE  NothingSkipped'
    <2>1. \A q \in Procs \ {p} : phase'[q] = phase[q] /\ cur'[q] = cur[q]
        BY <1>b, AtMoves
    <2>2. phase'[p] = ph /\ cur'[p] = t
        BY <1>b, AtMoves
    <2> QED
        BY <1>0, <1>b, <2>1, <2>2 DEF NothingSkipped, Starting, Pos
<1>c. ASSUME NEW p \in Procs, Look(p) \/ Connect(p) \/ Crash(p) \/ ImportCollides(p)
      PROVE  NothingSkipped'
    BY <1>b, <1>c, Positions
    DEF Look, Connect, Crash, ImportCollides, End, Unchanged, Tables
<1>d. ASSUME NEW p \in Procs, CreateRefused(p) PROVE NothingSkipped'
    <2>1. \A s \in Tables : CreatePos(s) <= CreatePos(cur[p]) => s \in tables
        BY <1>0, <1>d, Positions DEF CreateRefused, NothingSkipped, Starting, Pos, TypeOK
    <2> QED
        BY <1>b, <1>d, <2>1, Positions DEF CreateRefused, AfterRefusal, Unchanged, Tables
<1>e. ASSUME NEW p \in Procs, ImportDone(p) PROVE NothingSkipped'
    <2>1. \A s \in Tables : CreatePos(s) < ImportPos(cur[p]) => s \in tables
        BY <1>0, <1>e, Positions DEF ImportDone, NothingSkipped, Starting, Pos
    <2> QED
        BY <1>b, <1>e, <2>1, Positions, ImportDoneMoves DEF Tables
<1>f. CASE UNCHANGED <<phase, cur, tables>>
    BY <1>0, <1>f DEF NothingSkipped, Starting, Pos
<1> QED
    BY <1>a, <1>c, <1>d, <1>e, <1>f
    DEF Next, Start, Environment, ImportRow, CreateLocked, LegacyUnreadable, Store, vars

-----------------------------------------------------------------------------
(* What is missing remains somebody's to do.                               *)

\* What a process had to do it still has to do.
KeepsCreating(q) ==
    \A t \in Tables \ tables :
        Starting(q) /\ Pos(q) <= CreatePos(t) => Starting(q)' /\ Pos(q)' <= CreatePos(t)

KeepsImporting(q) ==
    phase[q] = "import" =>
        /\ \A k \in todo[q] : rows'[cur[q]][k] = "absent"
               => phase'[q] = "import" /\ cur'[q] = cur[q] /\ k \in todo'[q]
        /\ cur[q] = "rostergroups" => /\ phase'[q] = "import"
                                      /\ \/ cur'[q] = "rostergroups"
                                         \/ cur'[q] = "rosterinfo" /\ todo'[q] = Legacy["rosterinfo"]

Keeps(q) == KeepsCreating(q) /\ KeepsImporting(q)

LEMMA Unmoved ==
    ASSUME NEW q \in Procs, phase'[q] = phase[q], cur'[q] = cur[q], todo'[q] = todo[q]
    PROVE  Keeps(q)
BY DEF Keeps, KeepsCreating, KeepsImporting, Starting, Pos

LEMMA MovedKeeps ==
    ASSUME TypeOK, NEW p \in Procs, NEW ph, NEW t, At(p, ph, t), Keeps(p)
    PROVE  \A q \in Procs : Keeps(q)
BY AtMoves, Unmoved

LEMMA AllKeep ==
    ASSUME TypeOK, Provided, \A q \in Procs : Keeps(q), tables' = tables,
           \A t \in Tables : \A k \in Keys : rows'[t][k] = "absent" => rows[t][k] = "absent"
    PROVE  Provided'
<1>1. ASSUME NEW t \in Tables \ tables PROVE WillCreate(t)'
    BY <1>1 DEF Provided, WillCreate, Keeps, KeepsCreating
<1>2. ASSUME NEW t \in tables, NEW k \in Legacy[t], rows'[t][k] = "absent"
      PROVE  WillImport(t, k)'
    <2>0. t \in Tables /\ k \in Keys
        BY <1>2, DbInitAssumption DEF TypeOK
    <2>1. WillImport(t, k)
        BY <1>2, <2>0 DEF Provided
    <2>2. CASE \E p \in Procs : phase[p] = "import" /\ cur[p] = t /\ k \in todo[p]
        BY <1>2, <2>2 DEF WillImport, Keeps, KeepsImporting
    <2>3. CASE t = "rosterinfo" /\ "rostergroups" \notin tables
        BY <2>3 DEF WillImport
    <2>4. CASE t = "rosterinfo" /\ \E p \in Procs : phase[p] = "import" /\ cur[p] = "rostergroups"
        BY <1>2, <2>4 DEF WillImport, Keeps, KeepsImporting
    <2> QED
        BY <2>1, <2>2, <2>3, <2>4 DEF WillImport
<1> QED
    BY <1>1, <1>2 DEF Provided

LEMMA CreateProvides ==
    ASSUME TypeOK, Provided, NothingSkipped, NEW p \in Procs, Create(p)
    PROVE  Provided'
<1>0. /\ cur[p] \in Tables /\ cur[p] \notin tables /\ tables' = tables \cup {cur[p]}
      /\ phase[p] = "create" /\ rows' = rows
    BY DEF Create, TypeOK
<1>1. \A q \in Procs \ {p} :
         phase'[q] = phase[q] /\ cur'[q] = cur[q] /\ todo'[q] = todo[q]
    BY CreateMoves, AtMoves
<1>2. \/ /\ cur[p] = "rosterinfo" /\ phase'[p] = "create" /\ cur'[p] = "rostergroups"
      \/ /\ cur[p] # "rosterinfo" /\ phase'[p] = "import" /\ cur'[p] = cur[p]
         /\ todo'[p] = Legacy[cur[p]]
    BY CreateMoves, AtMoves
<1>3. ASSUME NEW t \in Tables \ tables' PROVE WillCreate(t)'
    <2>1. t # cur[p] /\ t \in Tables \ tables
        BY <1>0
    <2>2. PICK q \in Procs : Starting(q) /\ Pos(q) <= CreatePos(t)
        BY <2>1 DEF Provided, WillCreate
    <2>3. CASE q # p
        BY <1>1, <2>2, <2>3 DEF WillCreate, Starting, Pos
    <2>4. CASE q = p
        <3>1. CreatePos(cur[p]) <= CreatePos(t)
            BY <1>0, <2>2, <2>4 DEF Pos
        <3>2. Starting(p)' /\ Pos(p)' <= CreatePos(t)
            BY <1>0, <1>2, <2>1, <3>1, Positions DEF Starting, Pos, Tables
        <3> QED
            BY <3>2 DEF WillCreate
    <2> QED
        BY <2>3, <2>4
<1>4. ASSUME NEW t \in tables', NEW k \in Legacy[t], rows'[t][k] = "absent"
      PROVE  WillImport(t, k)'
    <2>1. CASE t = cur[p] /\ cur[p] # "rosterinfo"
        BY <1>2, <1>4, <2>1 DEF WillImport
    <2>2. CASE t = "rosterinfo" /\ cur[p] = "rosterinfo"
        BY <1>0, <2>2 DEF NothingSkipped, WillImport
    <2>3. CASE t # cur[p]
        <3>1. WillImport(t, k)
            BY <1>0, <1>4, <2>3 DEF Provided
        <3>2. CASE \E q \in Procs : phase[q] = "import" /\ cur[q] = t /\ k \in todo[q]
            BY <1>0, <1>1, <3>2 DEF WillImport
        <3>3. CASE t = "rosterinfo" /\ "rostergroups" \notin tables
            BY <1>0, <1>2, <3>3 DEF WillImport
        <3>4. CASE t = "rosterinfo" /\ \E q \in Procs : phase[q] = "import" /\ cur[q] = "rostergroups"
            BY <1>0, <1>1, <3>4 DEF WillImport
        <3> QED
            BY <3>1, <3>2, <3>3, <3>4 DEF WillImport
    <2> QED
        BY <2>1, <2>2, <2>3
<1> QED
    BY <1>3, <1>4 DEF Provided

LEMMA ConnectProvides ==
    ASSUME TypeOK, tables # {} => there, there => Provided, NEW p \in Procs, Connect(p)
    PROVE  Provided'
<1>1. /\ phase'[p] = "create" /\ cur'[p] = "domains"
      /\ tables' = tables /\ rows' = rows
    BY AtMoves DEF Connect
<1>2. CASE there
    <2>1. Keeps(p)
        BY DEF Connect, Keeps, KeepsCreating, KeepsImporting, Starting
    <2> QED
        BY <1>1, <1>2, <2>1, MovedKeeps, AllKeep DEF Connect
<1>3. CASE ~there
    <2>1. \A t \in Tables : WillCreate(t)'
        BY <1>1, Positions DEF WillCreate, Starting, Pos
    <2> QED
        BY <1>1, <1>3, <2>1 DEF Provided
<1> QED
    BY <1>2, <1>3

LEMMA StepProvides ==
    ASSUME TypeOK, tables # {} => there, ~failed => NothingSkipped,
           there /\ ~failed => Provided, [Next]_vars
    PROVE  (there /\ ~failed => Provided)'
<1> SUFFICES ASSUME there', ~failed' PROVE Provided'
    OBVIOUS
<1>0. ~failed /\ NothingSkipped
    BY DEF Next, Start, Environment, Look, Connect, Create, CreateRefused, CreateLocked,
       ImportRow, ImportDone, ImportCollides, LegacyUnreadable, Crash, End, Store,
       Unchanged, vars, TypeOK
<1>1. ASSUME NEW p \in Procs, NEW ph, NEW t, At(p, ph, t), Keeps(p), tables' = tables,
             rows' = rows, there' = there
      PROVE  Provided'
    BY <1>0, <1>1, MovedKeeps, AllKeep
<1>2. ASSUME \A q \in Procs : Keeps(q), tables' = tables, there' = there,
             \A t \in Tables : \A k \in Keys : rows'[t][k] = "absent" => rows[t][k] = "absent"
      PROVE  Provided'
    BY <1>0, <1>2, AllKeep
<1>a. ASSUME NEW p \in Procs, Connect(p) PROVE Provided'
    BY <1>0, <1>a, ConnectProvides
<1>b. ASSUME NEW p \in Procs, Create(p) PROVE Provided'
    <2>1. there
        BY <1>b DEF Create, TypeOK
    <2> QED
        BY <1>0, <1>b, <2>1, CreateProvides
<1>c. ASSUME NEW p \in Procs, Look(p) \/ Crash(p) PROVE Provided'
    <2>1. Keeps(p)
        BY <1>c DEF Look, Crash, End, TypeOK, Keeps, KeepsCreating, KeepsImporting, Starting
    <2> QED
        BY <1>1, <1>c, <2>1 DEF Look, Crash, End, Unchanged
<1>d. ASSUME NEW p \in Procs, CreateRefused(p) PROVE Provided'
    <2>1. PICK ph, t : At(p, ph, t)
        BY <1>d DEF CreateRefused, AfterRefusal
    <2>2. KeepsCreating(p)
        <3>1. ASSUME NEW t2 \in Tables \ tables, Pos(p) <= CreatePos(t2)
              PROVE  Starting(p)' /\ Pos(p)' <= CreatePos(t2)
            <4>1. t2 # cur[p] /\ CreatePos(cur[p]) <= CreatePos(t2)
                BY <1>d, <3>1 DEF CreateRefused, Pos
            <4>2. \/ cur[p] = "domains" /\ phase'[p] = "create" /\ cur'[p] = "authcache"
                  \/ cur[p] = "authcache" /\ phase'[p] = "create" /\ cur'[p] = "rosterinfo"
                  \/ cur[p] = "rosterinfo" /\ phase'[p] = "create" /\ cur'[p] = "rostergroups"
                  \/ cur[p] = "rostergroups"
                BY <1>d, AtMoves DEF CreateRefused, AfterRefusal
            <4> QED
                BY <4>1, <4>2, Positions DEF Starting, Pos, Tables
        <3> QED
            BY <3>1 DEF KeepsCreating
    <2>3. KeepsImporting(p)
        BY <1>d DEF CreateRefused, KeepsImporting
    <2> QED
        BY <1>1, <1>d, <2>1, <2>2, <2>3 DEF CreateRefused, Unchanged, Keeps
<1>e. ASSUME NEW p \in Procs, NEW k \in Keys, ImportRow(p, k) PROVE Provided'
    <2>1. Keeps(p)
        BY <1>e DEF ImportRow, TypeOK, Keeps, KeepsCreating, KeepsImporting, Starting, Pos
    <2>2. \A q \in Procs \ {p} : Keeps(q)
        BY <1>e, Unmoved DEF ImportRow, TypeOK
    <2>3. \A t \in Tables : \A k2 \in Keys : rows'[t][k2] = "absent" => rows[t][k2] = "absent"
        BY <1>e DEF ImportRow, TypeOK
    <2> QED
        BY <1>2, <1>e, <2>1, <2>2, <2>3 DEF ImportRow
<1>f. ASSUME NEW p \in Procs, ImportDone(p) PROVE Provided'
    <2>1. PICK ph, t : At(p, ph, t)
        BY <1>f DEF ImportDone, AfterImport
    <2>2. /\ phase[p] = "import" /\ todo[p] = {}
          /\ \/ cur[p] = "domains" /\ phase'[p] = "create" /\ cur'[p] = "authcache"
             \/ cur[p] = "authcache" /\ phase'[p] = "create" /\ cur'[p] = "rosterinfo"
             \/ /\ cur[p] = "rostergroups" /\ phase'[p] = "import" /\ cur'[p] = "rosterinfo"
                /\ todo'[p] = Legacy["rosterinfo"]
             \/ cur[p] = "rosterinfo"
        BY <1>f, ImportDoneMoves, AtMoves
    <2>3. KeepsCreating(p)
        BY <2>2, Positions DEF KeepsCreating, Starting, Pos, Tables
    <2>4. KeepsImporting(p)
        BY <2>2 DEF KeepsImporting
    <2> QED
        BY <1>1, <1>f, <2>1, <2>3, <2>4 DEF ImportDone, Unchanged, Keeps
<1>g. ASSUME NEW p \in Procs, NEW t \in Tables, NEW k \in Keys, Store(p, t, k) PROVE Provided'
    <2>1. \A t2 \in Tables : \A k2 \in Keys : rows'[t2][k2] = "absent" => rows[t2][k2] = "absent"
        BY <1>g DEF Store, TypeOK
    <2> QED
        BY <1>2, <1>g, <2>1, Unmoved DEF Store
<1>h. ASSUME NEW p \in Procs, CreateLocked(p) \/ LegacyUnreadable(p) \/ ImportCollides(p)
      PROVE  FALSE
    BY <1>0, <1>h DEF CreateLocked, LegacyUnreadable, ImportCollides, End
<1>i. CASE UNCHANGED vars
    BY <1>2, <1>i, Unmoved DEF vars
<1> QED
    BY <1>a, <1>b, <1>c, <1>d, <1>e, <1>f, <1>g, <1>h, <1>i DEF Next, Start, Environment

-----------------------------------------------------------------------------
(* The theorems.                                                           *)

LEMMA StepThere ==
    ASSUME TypeOK, tables # {} => there, [Next]_vars
    PROVE  (tables # {} => there)'
BY DEF TypeOK, Next, Start, Environment, Look, Connect, Create, CreateRefused, CreateLocked,
   ImportRow, ImportDone, ImportCollides, LegacyUnreadable, Crash, End, Store, Unchanged, vars

LEMMA Inductive == Spec => []IInv
<1>1. Init => IInv
    <2> SUFFICES ASSUME Init PROVE IInv
        OBVIOUS
    <2>1. ImportsWhatExists /\ OneImporter /\ NothingSkipped
        BY DEF Init, ImportsWhatExists, OneImporter, NothingSkipped, Starting
    <2> QED
        BY <2>1, InitTyped DEF IInv, Init
<1>2. IInv /\ [Next]_vars => IInv'
    BY StepTyped, StepThere, StepImporter, StepSkips, StepProvides DEF IInv
<1> QED
    BY <1>1, <1>2, PTL DEF Spec

\* Each table is imported by one process, the one that created it, however many
\* start at the same time.
THEOREM ImporterIsAlone == Spec => []OneImporter
<1>1. IInv => OneImporter
    BY DEF IInv
<1> QED
    BY <1>1, Inductive, PTL

\* When all have passed, refused or not, everything is there, unless an
\* initialization was cut short.
THEOREM InitializationCompletes == Spec => []CompleteUnlessFailed
<1>1. IInv => CompleteUnlessFailed
    <2> SUFFICES ASSUME IInv, there, ~failed,
                        \A p \in Procs : phase[p] \notin {"create", "import"}
                 PROVE  Complete
        BY DEF CompleteUnlessFailed
    <2>1. Provided /\ TypeOK
        BY DEF IInv
    <2>2. tables = Tables
        BY <2>1 DEF Provided, WillCreate, Starting, TypeOK
    <2>3. ASSUME NEW t \in Tables, NEW k \in Legacy[t] PROVE rows[t][k] # "absent"
        BY <2>1, <2>2, <2>3 DEF Provided, WillImport, Tables
    <2> QED
        BY <2>2, <2>3 DEF Complete
<1> QED
    BY <1>1, Inductive, PTL

\* No row that a request has stored is overwritten with one of an old database.
THEOREM LoginsSurvive == Spec => ImportSparesLogins
<1> DEFINE Spared(t, k) == rows[t][k] = "login" => rows'[t][k] = "login"
<1>1. ASSUME TypeOK, [Next]_vars PROVE \A t \in Tables, k \in Keys : Spared(t, k)
    <2>a. ASSUME NEW p \in Procs, NEW j \in Keys, ImportRow(p, j)
          PROVE  \A t \in Tables, k \in Keys : Spared(t, k)
        BY <1>1, <2>a DEF TypeOK, ImportRow
    <2>b. ASSUME NEW p \in Procs, NEW s \in Tables, NEW j \in Keys, Store(p, s, j)
          PROVE  \A t \in Tables, k \in Keys : Spared(t, k)
        BY <1>1, <2>b DEF TypeOK, Store
    <2>c. CASE UNCHANGED rows
        BY <2>c
    <2> QED
        BY <1>1, <2>a, <2>b, <2>c
        DEF Next, Start, Environment, Look, Connect, Create, CreateRefused, CreateLocked,
            ImportDone, ImportCollides, LegacyUnreadable, Crash, End, Unchanged, vars
<1>2. TypeOK /\ [Next]_vars => [\A t \in Tables, k \in Keys : Spared(t, k)]_vars
    BY <1>1
<1> QED
    BY <1>2, TypeCorrect, PTL DEF Spec, ImportSparesLogins
=============================================================================
