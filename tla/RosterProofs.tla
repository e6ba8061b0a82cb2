---------------------------- MODULE RosterProofs ----------------------------
(***************************************************************************)
(* Theorems about Roster, for every set of users, groups, jobs and         *)
(* processes and any number of changes and failures.                       *)
(***************************************************************************)
EXTENDS Roster, SqliteProofs

\* What a job is about at a place in the code: the group or the name it has to do
\* with is one of its response.
Aim(ph, j) ==
    /\ ph \in {"create", "members"} => j.item \in DOMAIN j.resp.groups
    /\ ph = "vcard" => j.item \in DOMAIN j.resp.names
    /\ ph = "vcard" \/ (ph = "commit" /\ j.what = "name") =>
          j.resp.names[j.item] # Unstorable
    /\ ph \in {"commands", "begin", "insert", "update", "commit"} =>
          \/ j.what = "hash"
          \/ j.what = "name" /\ j.item \in DOMAIN j.resp.names
          \/ j.what = "group" /\ j.item \in DOMAIN j.resp.groups
          \/ j.what = "list" /\ j.item \in SUBSET Keys

Fit(ph, j) ==
    /\ ph \in Phases /\ j \in Jobs
    /\ ph # "idle" => /\ j.user \in Users /\ j.resp \in Responses
                      /\ j.names \subseteq DOMAIN j.resp.names
                      /\ j.groups \subseteq DOMAIN j.resp.groups
    /\ Aim(ph, j)

JobsOK ==
    /\ phase \in [Threads -> Phases]
    /\ job \in [Threads -> Jobs]
    /\ \A t \in Threads : Fit(phase[t], job[t])

\* The cloud, ejabberd, the administrator and the counters.
WorldOK ==
    /\ member \in [Groups -> SUBSET Users]
    /\ cloudName \in [Users -> Names]
    /\ srg \in [Keys -> (SUBSET Users) \cup {NoGroup}]
    /\ vcard \in [Users -> Names \cup {NULL}]
    /\ deleting \subseteq Keys
    /\ changes \in 0 .. MaxChanges /\ faults \in 0 .. MaxFaults
    /\ done \in [Users -> Responses \cup {NULL}]

TypeInv == SqlTypeOK(Tables) /\ JobsOK /\ WorldOK

LEMMA TypeInvIsTypeOK == TypeInv => TypeOK
BY DEF TypeInv, JobsOK, WorldOK, TypeOK, Fit

-----------------------------------------------------------------------------
(* Data.                                                                   *)

\* A response has groups with users, and names of users that have one.
LEMMA ResponseFields ==
    ASSUME NEW r \in Responses
    PROVE  /\ DOMAIN r.groups \subseteq Groups /\ DOMAIN r.names \subseteq Named
           /\ \A g \in DOMAIN r.groups : r.groups[g] \in SUBSET Users
           /\ \A v \in DOMAIN r.names : r.names[v] \in Names \cup BadNames
  <1>1. r.groups \in UNION {[G -> SUBSET Users] : G \in SUBSET Groups}
    BY DEF Responses
  <1>2. r.names \in UNION {[U -> Names \cup BadNames] : U \in SUBSET Named}
    BY DEF Responses
  <1>3. PICK G \in SUBSET Groups : r.groups \in [G -> SUBSET Users]
    BY <1>1
  <1>4. PICK U \in SUBSET Named : r.names \in [U -> Names \cup BadNames]
    BY <1>2
  <1>. QED  BY <1>3, <1>4

LEMMA WeirdType == Weird \in Responses
  <1>. DEFINE f == [x \in {} |-> x]
  <1>1. f \in [{} -> SUBSET Users] /\ f \in [{} -> Names \cup BadNames]
    OBVIOUS
  <1>2. {} \in SUBSET Groups /\ {} \in SUBSET Named
    OBVIOUS
  <1>3. f \in UNION {[G -> SUBSET Users] : G \in SUBSET Groups}
    BY <1>1, <1>2
  <1>4. f \in UNION {[U -> Names \cup BadNames] : U \in SUBSET Named}
    BY <1>1, <1>2
  <1>5. Weird = [form |-> "other", groups |-> f, names |-> f]
    BY DEF Weird, NoFunction
  <1>. HIDE DEF f
  <1>. QED  BY <1>3, <1>4, <1>5 DEF Responses

LEMMA SnapshotType == ASSUME WorldOK, NEW u \in Users PROVE Snapshot(u) \in Responses
  <1>. DEFINE G == {h \in Groups : u \in member[h]}
  <1>. DEFINE U == Visible(u) \cap Named
  <1>. DEFINE gs == [g \in G |-> member[g]]
  <1>. DEFINE ns == [v \in U |-> cloudName[v]]
  <1>1. G \in SUBSET Groups /\ U \in SUBSET Named
    OBVIOUS
  <1>2. gs \in [G -> SUBSET Users]
    BY DEF WorldOK
  <1>3. ns \in [U -> Names \cup BadNames]
    BY RosterAssumption DEF WorldOK
  <1>4. gs \in UNION {[H -> SUBSET Users] : H \in SUBSET Groups}
    BY <1>1, <1>2
  <1>5. ns \in UNION {[V -> Names \cup BadNames] : V \in SUBSET Named}
    BY <1>1, <1>3
  <1>6. Snapshot(u) = [form |-> "roster", groups |-> gs, names |-> ns]
    BY DEF Snapshot
  <1>. HIDE DEF gs, ns
  <1>. QED  BY <1>4, <1>5, <1>6 DEF Responses

\* Whatever the cloud answers, the parts of it that are read are of these types.
LEMMA AnswersType ==
    ASSUME WorldOK, NEW u \in Users, NEW r \in Answers(u) PROVE r \in Responses
  <1>. DEFINE s == Snapshot(u)
  <1>1. s \in Responses /\ Weird \in Responses
    BY SnapshotType, WeirdType
  <1>2. Malformed(s) \in Responses
    BY <1>1 DEF Malformed, Responses
  <1>3. ASSUME NEW v \in DOMAIN s.names, NEW name \in BadNames
        PROVE  [s EXCEPT !.names[v] = name] \in Responses
    <2>1. PICK U \in SUBSET Named : s.names \in [U -> Names \cup BadNames]
      <3>1. s.names \in UNION {[U -> Names \cup BadNames] : U \in SUBSET Named}
        BY <1>1 DEF Responses
      <3>. QED  BY <3>1
    <2>. DEFINE ns == [s.names EXCEPT ![v] = name]
    <2>2. ns \in [U -> Names \cup BadNames]
      BY <1>3, <2>1
    <2>3. ns \in UNION {[V -> Names \cup BadNames] : V \in SUBSET Named}
      BY <2>1, <2>2
    <2>4. [s EXCEPT !.names[v] = name] = [s EXCEPT !.names = ns]
      BY <1>1 DEF Responses
    <2>. HIDE DEF ns, s
    <2>. QED  BY <1>1, <2>3, <2>4 DEF Responses
  <1>. QED  BY <1>1, <1>2, <1>3 DEF Answers

LEMMA NoJobFits == Fit("idle", NoJob)
BY DEF Fit, Aim, NoJob, Jobs, Phases

\* What a job that is under way works with.
LEMMA OfJob ==
    ASSUME TypeInv, NEW t \in Threads, phase[t] # "idle"
    PROVE  /\ job[t] \in Jobs /\ Fit(phase[t], job[t])
           /\ ProcOf[t] \in Procs
           /\ job[t].user \in Users /\ job[t].resp \in Responses
           /\ T(t) \in Tables
           /\ T(t).info \in [Users -> InfoRow \cup {NoRow}]
           /\ T(t).groups \in [Keys -> (SUBSET Users) \cup {NULL, NoRow}]
  <1>1. job[t] \in Jobs /\ Fit(phase[t], job[t])
    BY DEF TypeInv, JobsOK
  <1>2. T(t) \in Tables
    BY DEF TypeInv, SqlTypeOK, T, View
  <1>. QED  BY <1>1, <1>2, RosterAssumption DEF Fit, Tables

LEMMA CommandsOfGroup ==
    ASSUME TypeInv, NEW t \in Threads, phase[t] # "idle",
           NEW g \in DOMAIN job[t].resp.groups, NEW previous \in SUBSET Users
    PROVE  GroupCommands(t, g, previous) \in SUBSET Commands
  <1>1. g \in Groups /\ job[t].resp.groups[g] \in SUBSET Users /\ Sanitize[g] \in Keys
    BY OfJob, ResponseFields, RosterAssumption
  <1>. QED  BY <1>1 DEF GroupCommands, Commands

\* The name of a user that has been stored, and one that is told to ejabberd.
LEMMA NameType ==
    ASSUME TypeInv, NEW t \in Threads, phase[t] # "idle",
           job[t].item \in DOMAIN job[t].resp.names, NameOf(t) # Unstorable
    PROVE  NameOf(t) \in Names \cup {Untellable}
BY OfJob, ResponseFields, BadNamesAssumption DEF NameOf

-----------------------------------------------------------------------------
(* Type correctness.                                                       *)

LEMMA JobMoves ==
    ASSUME JobsOK, NEW t \in Threads, NEW ph, NEW j, Fit(ph, j),
           phase' = [phase EXCEPT ![t] = ph], job' = [job EXCEPT ![t] = j]
    PROVE  JobsOK'
  <1>1. phase' \in [Threads -> Phases] /\ job' \in [Threads -> Jobs]
    BY DEF JobsOK, Fit
  <1>2. phase'[t] = ph /\ job'[t] = j
    BY DEF JobsOK
  <1>3. \A s \in Threads \ {t} : phase'[s] = phase[s] /\ job'[s] = job[s]
    BY DEF JobsOK
  <1>4. \A s \in Threads : Fit(phase'[s], job'[s])
    BY <1>2, <1>3 DEF JobsOK
  <1>. QED  BY <1>1, <1>4 DEF JobsOK, Fit, Aim

LEMMA JobGoes ==
    ASSUME JobsOK, NEW t \in Threads, NEW ph, Fit(ph, job[t]), Goto(t, ph), job' = job
    PROVE  JobsOK'
  <1>1. job' = [job EXCEPT ![t] = job[t]]
    BY DEF JobsOK
  <1>. QED  BY <1>1, JobMoves DEF Goto

LEMMA JobEnds == ASSUME JobsOK, NEW t \in Threads, End(t) PROVE JobsOK'
BY JobMoves, NoJobFits DEF End, Goto

LEMMA WorldStays ==
    ASSUME WorldOK, Same, NoEjabberd, UNCHANGED done PROVE WorldOK'
BY DEF WorldOK, Same, NoEjabberd

LEMMA SqlStays == ASSUME SqlTypeOK(Tables), UNCHANGED sqlVars PROVE SqlTypeOK(Tables)'
BY DEF SqlTypeOK, sqlVars

LEMMA LoginType ==
    ASSUME TypeInv, NEW t \in Threads, NEW u \in Users, NEW r \in Responses, Login(t, u, r)
    PROVE  TypeInv'
  <1>. DEFINE j == [NoJob EXCEPT !.user = u, !.resp = r]
  <1>1. Fit("hash", j)
    BY DEF Fit, Aim, NoJob, Jobs, Phases
  <1>2. phase' = [phase EXCEPT ![t] = "hash"] /\ job' = [job EXCEPT ![t] = j]
    BY DEF Login, Goto
  <1>3. JobsOK'
    BY <1>1, <1>2, JobMoves DEF TypeInv
  <1>4. WorldOK'
    <2>1. changes' \in 0 .. MaxChanges
      BY RosterAssumption DEF TypeInv, WorldOK, Login, Change
    <2>. QED  BY <2>1 DEF TypeInv, WorldOK, Login, NoEjabberd
  <1>. QED  BY <1>3, <1>4, SqlStays DEF TypeInv, Login

LEMMA ReadHashType ==
    ASSUME TypeInv, NEW t \in Threads, ReadHash(t) PROVE TypeInv'
  <1>0. phase[t] = "hash" /\ ProcOf[t] \in Procs /\ Fit("hash", job[t])
    BY OfJob DEF ReadHash
  <1>. DEFINE j == [job[t] EXCEPT !.what = "hash", !.item = job[t].user]
  <1>1. Fit("begin", j)
    BY <1>0 DEF Fit, Aim, Jobs, Phases
  <1>2. JobsOK'
    <2>1. CASE End(t)
      BY <2>1, JobEnds DEF TypeInv
    <2>2. CASE ~End(t)
      <3>1. /\ job' = [job EXCEPT ![t].what = "hash", ![t].item = job[t].user]
            /\ phase' = [phase EXCEPT ![t] = "begin"]
        BY <2>2 DEF ReadHash, Goto
      <3>2. job' = [job EXCEPT ![t] = j]
        BY <3>1 DEF TypeInv, JobsOK
      <3>. QED  BY <1>1, <3>1, <3>2, JobMoves DEF TypeInv
    <2>. QED  BY <2>1, <2>2
  <1>. QED  BY <1>0, <1>2, WorldStays, SqlReadType DEF TypeInv, ReadHash

LEMMA ReadNameType ==
    ASSUME TypeInv, NEW t \in Threads, NEW v \in Named, ReadName(t, v) PROVE TypeInv'
  <1>0. phase[t] = "work" /\ ProcOf[t] \in Procs /\ Fit("work", job[t]) /\ v \in job[t].names
    BY OfJob DEF ReadName
  <1>. DEFINE j == [job[t] EXCEPT !.names = @ \ {v}]
  <1>. DEFINE k == [job[t] EXCEPT !.names = @ \ {v}, !.what = "name", !.item = v]
  <1>1. Fit("work", j) /\ Fit("begin", k)
    BY <1>0, RosterAssumption DEF Fit, Aim, Jobs, Phases
  <1>2. JobsOK'
    <2>1. CASE job' = [job EXCEPT ![t].names = @ \ {v}] /\ UNCHANGED phase
      <3>1. job' = [job EXCEPT ![t] = j]
        BY <2>1 DEF TypeInv, JobsOK
      <3>2. phase' = [phase EXCEPT ![t] = "work"]
        BY <1>0, <2>1 DEF TypeInv, JobsOK
      <3>. QED  BY <1>1, <3>1, <3>2, JobMoves DEF TypeInv
    <2>2. CASE /\ job' = [job EXCEPT ![t].names = @ \ {v}, ![t].what = "name", ![t].item = v]
               /\ Goto(t, "begin")
      <3>1. job' = [job EXCEPT ![t] = k]
        BY <2>2 DEF TypeInv, JobsOK
      <3>. QED  BY <1>1, <2>2, <3>1, JobMoves DEF TypeInv, Goto
    <2>. QED  BY <2>1, <2>2 DEF ReadName
  <1>. QED  BY <1>0, <1>2, WorldStays, SqlReadType DEF TypeInv, ReadName

LEMMA ReadGroupType ==
    ASSUME TypeInv, NEW t \in Threads, NEW g \in Groups, ReadGroup(t, g) PROVE TypeInv'
  <1>0. /\ phase[t] = "work" /\ ProcOf[t] \in Procs /\ Fit("work", job[t])
        /\ g \in job[t].groups /\ g \in DOMAIN job[t].resp.groups /\ Sanitize[g] \in Keys
    BY OfJob, RosterAssumption DEF ReadGroup, NextGroup, Fit
  <1>. DEFINE userlist == T(t).groups[Sanitize[g]]
  <1>. DEFINE cs == GroupCommands(t, g, userlist)
  <1>. DEFINE j == [job[t] EXCEPT !.item = g]
  <1>. DEFINE k == [job[t] EXCEPT !.what = "group", !.item = g, !.cmds = cs]
  <1>1. Fit("create", j)
    BY <1>0 DEF Fit, Aim, Jobs, Phases
  <1>2. JobsOK'
    <2>1. CASE job' = [job EXCEPT ![t].item = g] /\ Goto(t, "create")
      <3>1. job' = [job EXCEPT ![t] = j]
        BY <2>1 DEF TypeInv, JobsOK
      <3>. QED  BY <1>1, <2>1, <3>1, JobMoves DEF TypeInv, Goto
    <2>2. CASE /\ job' = [job EXCEPT ![t].what = "group", ![t].item = g, ![t].cmds = cs]
               /\ Goto(t, "commands") /\ userlist # NoRow
      <3>1. userlist \in SUBSET Users
        BY <1>0, <2>2, OfJob DEF ReadGroup
      <3>2. cs \in SUBSET Commands
        BY <1>0, <3>1, CommandsOfGroup
      <3>. HIDE DEF cs
      <3>3. Fit("commands", k)
        BY <1>0, <3>2 DEF Fit, Aim, Jobs, Phases
      <3>4. job' = [job EXCEPT ![t] = k]
        BY <2>2 DEF TypeInv, JobsOK
      <3>. QED  BY <2>2, <3>3, <3>4, JobMoves DEF TypeInv, Goto
    <2>. QED  BY <2>1, <2>2 DEF ReadGroup
  <1>. QED  BY <1>0, <1>2, WorldStays, SqlReadType DEF TypeInv, ReadGroup

LEMMA ReadGrouplistType ==
    ASSUME TypeInv, NEW t \in Threads, ReadGrouplist(t) PROVE TypeInv'
  <1>0. phase[t] = "work" /\ ProcOf[t] \in Procs /\ Fit("work", job[t])
    BY OfJob DEF ReadGrouplist
  <1>. DEFINE u == job[t].user
  <1>. DEFINE row == T(t).info[u]
  <1>. DEFINE previous == IF row = NoRow THEN {} ELSE row.groups
  <1>. DEFINE now == {Sanitize[g] : g \in {h \in DOMAIN job[t].resp.groups :
                                              u \in job[t].resp.groups[h]}}
  <1>. DEFINE cs == {<<"del", u, k>> : k \in previous \ now}
  <1>. DEFINE j == [job[t] EXCEPT !.what = "list", !.item = now, !.cmds = cs]
  <1>1. u \in Users /\ row \in InfoRow \cup {NoRow} /\ DOMAIN job[t].resp.groups \subseteq Groups
    BY <1>0, OfJob, ResponseFields
  <1>2. previous \in SUBSET Keys
    BY <1>1 DEF InfoRow
  <1>3. now \in SUBSET Keys
    BY <1>1, RosterAssumption
  <1>4. cs \in SUBSET Commands
    BY <1>1, <1>2 DEF Commands
  <1>5. job' = [job EXCEPT ![t].what = "list", ![t].item = now, ![t].cmds = cs]
    BY DEF ReadGrouplist
  <1>. HIDE DEF now, cs
  <1>6. Fit("commands", j)
    BY <1>0, <1>3, <1>4 DEF Fit, Aim, Jobs, Phases
  <1>7. job' = [job EXCEPT ![t] = j]
    BY <1>5 DEF TypeInv, JobsOK
  <1>8. JobsOK'
    BY <1>6, <1>7, JobMoves DEF TypeInv, ReadGrouplist, Goto
  <1>. QED  BY <1>0, <1>8, WorldStays, SqlReadType DEF TypeInv, ReadGrouplist

\* What the commands make of the groups are groups.
LEMMA CreatedType ==
    ASSUME WorldOK, NEW t PROVE Created(t) \in [Keys -> (SUBSET Users) \cup {NoGroup}]
BY DEF Created, WorldOK

LEMMA ObeyedType ==
    ASSUME WorldOK, NEW cmd \in Commands
    PROVE  Obeyed(cmd) \in [Keys -> (SUBSET Users) \cup {NoGroup}]
  <1>1. cmd[1] \in {"add", "del"} /\ cmd[2] \in Users /\ cmd[3] \in Keys
    BY DEF Commands
  <1>. QED  BY <1>1 DEF Obeyed, WorldOK

LEMMA CreateType ==
    ASSUME TypeInv, NEW t \in Threads, Create(t) PROVE TypeInv'
  <1>0. phase[t] = "create" /\ Fit("create", job[t])
    BY OfJob DEF Create
  <1>1. Fit("members", job[t])
    BY <1>0 DEF Fit, Aim, Phases
  <1>2. JobsOK'
    BY <1>1, JobGoes DEF TypeInv, Create
  <1>3. WorldOK'
    <2>1. srg' \in [Keys -> (SUBSET Users) \cup {NoGroup}]
      BY CreatedType DEF TypeInv, WorldOK, Create
    <2>2. faults' \in 0 .. MaxFaults
      BY RosterAssumption DEF TypeInv, WorldOK, Create, Fault
    <2>. QED  BY <2>1, <2>2 DEF TypeInv, WorldOK, Create, Same
  <1>. QED  BY <1>2, <1>3, SqlStays DEF TypeInv, Create

LEMMA MembersType ==
    ASSUME TypeInv, NEW t \in Threads, Members(t) PROVE TypeInv'
  <1>0. phase[t] = "members" /\ Fit("members", job[t]) /\ job[t].item \in DOMAIN job[t].resp.groups
    BY OfJob DEF Members, Fit, Aim
  <1>1. Sanitize[job[t].item] \in Keys
    BY <1>0, OfJob, ResponseFields, RosterAssumption
  <1>2. PICK users \in SUBSET Users :
            job' = [job EXCEPT ![t].what = "group",
                               ![t].cmds = GroupCommands(t, job[t].item, users)]
    <2>1. srg[Sanitize[job[t].item]] \in (SUBSET Users) \cup {NoGroup}
      BY <1>1 DEF TypeInv, WorldOK
    <2>2. {} \in SUBSET Users
      OBVIOUS
    <2>. QED  BY <2>1, <2>2 DEF Members
  <1>. DEFINE cs == GroupCommands(t, job[t].item, users)
  <1>. DEFINE j == [job[t] EXCEPT !.what = "group", !.cmds = cs]
  <1>3. cs \in SUBSET Commands
    BY <1>0, CommandsOfGroup
  <1>4. job' = [job EXCEPT ![t].what = "group", ![t].cmds = cs]
    BY <1>2
  <1>. HIDE DEF cs
  <1>5. Fit("commands", j)
    BY <1>0, <1>3 DEF Fit, Aim, Jobs, Phases
  <1>6. job' = [job EXCEPT ![t] = j]
    BY <1>4 DEF TypeInv, JobsOK
  <1>7. JobsOK'
    BY <1>5, <1>6, JobMoves DEF TypeInv, Members, Goto
  <1>8. WorldOK'
    BY RosterAssumption DEF TypeInv, WorldOK, Members, Same, Fault
  <1>. QED  BY <1>7, <1>8, SqlStays DEF TypeInv, Members

LEMMA ExecuteType ==
    ASSUME TypeInv, NEW t \in Threads, NEW cmd \in Commands, Execute(t, cmd) PROVE TypeInv'
  <1>0. phase[t] = "commands" /\ Fit("commands", job[t])
    BY OfJob DEF Execute, Due
  <1>. DEFINE j == [job[t] EXCEPT !.cmds = @ \ {cmd}]
  <1>1. Fit("commands", j)
    BY <1>0 DEF Fit, Aim, Jobs
  <1>2. job' = [job EXCEPT ![t] = j]
    BY DEF TypeInv, JobsOK, Execute
  <1>3. phase' = [phase EXCEPT ![t] = "commands"]
    BY <1>0 DEF TypeInv, JobsOK, Execute
  <1>4. JobsOK'
    BY <1>1, <1>2, <1>3, JobMoves DEF TypeInv
  <1>5. Obeyed(cmd) \in [Keys -> (SUBSET Users) \cup {NoGroup}]
    BY ObeyedType DEF TypeInv
  <1>6. WorldOK'
    BY <1>5, RosterAssumption DEF TypeInv, WorldOK, Execute, Same, Fault
  <1>. QED  BY <1>4, <1>6, SqlStays DEF TypeInv, Execute

LEMMA SetVcardType ==
    ASSUME TypeInv, NEW t \in Threads, SetVcard(t) PROVE TypeInv'
  <1>0. phase[t] = "vcard" /\ Fit("vcard", job[t]) /\ job[t].item \in DOMAIN job[t].resp.names
    BY OfJob DEF SetVcard, Fit, Aim
  <1>1. Fit("work", job[t])
    BY <1>0 DEF Fit, Aim, Phases
  <1>2. JobsOK'
    BY <1>1, JobGoes DEF TypeInv, SetVcard
  <1>3. NameOf(t) \in Names
    BY <1>0, NameType DEF SetVcard, Fit, Aim, NameOf
  <1>4. WorldOK'
    BY <1>3, RosterAssumption DEF TypeInv, WorldOK, SetVcard, Same, Fault
  <1>. QED  BY <1>2, <1>4, SqlStays DEF TypeInv, SetVcard

LEMMA BeginType ==
    ASSUME TypeInv, NEW t \in Threads, Begin(t) PROVE TypeInv'
  <1>0. phase[t] \in {"begin", "commands"} /\ Fit(phase[t], job[t]) /\ ProcOf[t] \in Procs
    BY OfJob DEF Begin, ReadyToWrite
  <1>1. Fit("insert", job[t])
    BY <1>0 DEF Fit, Aim, Phases
  <1>2. JobsOK'
    BY <1>1, JobGoes DEF TypeInv, Begin
  <1>. QED  BY <1>0, <1>2, WorldStays, SqlBeginType DEF TypeInv, Begin

\* What an upsert writes is a table again.
LEMMA WritesTables ==
    ASSUME TypeInv, NEW t \in Threads, phase[t] \in InUpsert
    PROVE  Inserted(t) \in Tables /\ (Storable(t) => Updated(t) \in Tables)
  <1>. DEFINE j == job[t]
  <1>. DEFINE k == Sanitize[j.item]
  <1>0. /\ Fit(phase[t], j) /\ phase[t] \in {"insert", "update", "commit"}
        /\ phase[t] # "idle"
    BY OfJob DEF InUpsert
  <1>1. /\ j.user \in Users /\ j.resp \in Responses /\ j \in Jobs
        /\ T(t) = [info |-> T(t).info, groups |-> T(t).groups]
        /\ T(t).info \in [Users -> InfoRow \cup {NoRow}]
        /\ T(t).groups \in [Keys -> (SUBSET Users) \cup {NULL, NoRow}]
    BY <1>0, OfJob DEF Tables
  <1>2. NewInfo \in InfoRow
    BY DEF NewInfo, InfoRow
  <1>3. CASE j.what = "group"
    <2>1. j.item \in DOMAIN j.resp.groups
      BY <1>0, <1>3 DEF Fit, Aim
    <2>2. k \in Keys /\ j.resp.groups[j.item] \in SUBSET Users
      BY <1>1, <2>1, ResponseFields, RosterAssumption
    <2>. DEFINE a == IF T(t).groups[k] = NoRow THEN NULL ELSE T(t).groups[k]
    <2>. DEFINE b == IF T(t).groups[k] = NoRow THEN NoRow ELSE j.resp.groups[j.item]
    <2>3. a \in (SUBSET Users) \cup {NULL, NoRow} /\ b \in (SUBSET Users) \cup {NULL, NoRow}
      BY <1>1, <2>2
    <2>4. /\ Inserted(t) = [T(t) EXCEPT !.groups = [T(t).groups EXCEPT ![k] = a]]
          /\ Updated(t) = [T(t) EXCEPT !.groups = [T(t).groups EXCEPT ![k] = b]]
      BY <1>1, <1>3 DEF Inserted, Updated
    <2>. HIDE DEF a, b
    <2>. QED  BY <1>1, <2>2, <2>3, <2>4 DEF Tables
  <1>4. CASE j.what # "group"
    <2>1. Subject(t) \in Users
      BY <1>0, <1>1, <1>4, ResponseFields, RosterAssumption DEF Fit, Aim, Subject
    <2>. DEFINE row == T(t).info[Subject(t)]
    <2>. DEFINE a == IF row = NoRow THEN NewInfo ELSE row
    <2>. DEFINE b == IF row = NoRow THEN NoRow ELSE Assigned(t, row)
    <2>2. row \in InfoRow \cup {NoRow}
      BY <1>1, <2>1
    <2>3. a \in InfoRow \cup {NoRow}
      BY <1>2, <2>2
    <2>4. Storable(t) => b \in InfoRow \cup {NoRow}
      <3>. SUFFICES ASSUME Storable(t) PROVE b \in InfoRow \cup {NoRow}
        OBVIOUS
      <3>1. CASE row = NoRow
        BY <3>1
      <3>2. CASE row # NoRow /\ j.what = "hash"
        BY <1>1, <2>2, <3>2 DEF Assigned, InfoRow
      <3>3. CASE row # NoRow /\ j.what = "name"
        <4>1. NameOf(t) \in Names \cup {Untellable}
          BY <1>0, <3>3, NameType DEF Fit, Aim, Storable
        <4>. QED  BY <2>2, <3>3, <4>1 DEF Assigned, InfoRow
      <3>4. CASE row # NoRow /\ j.what = "list"
        <4>1. j.item \in SUBSET Keys
          BY <1>0, <3>4 DEF Fit, Aim
        <4>. QED  BY <2>2, <3>4, <4>1 DEF Assigned, InfoRow
      <3>. QED  BY <1>0, <1>4, <3>1, <3>2, <3>3, <3>4 DEF Fit, Aim
    <2>5. /\ Inserted(t) = [T(t) EXCEPT !.info = [T(t).info EXCEPT ![Subject(t)] = a]]
          /\ Updated(t) = [T(t) EXCEPT !.info = [T(t).info EXCEPT ![Subject(t)] = b]]
      BY <1>1, <1>4 DEF Inserted, Updated
    <2>. HIDE DEF a, b
    <2>. QED  BY <1>1, <2>1, <2>3, <2>4, <2>5 DEF Tables
  <1>. QED  BY <1>3, <1>4

LEMMA InsertType ==
    ASSUME TypeInv, NEW t \in Threads, Insert(t) PROVE TypeInv'
  <1>0. phase[t] = "insert" /\ Fit("insert", job[t]) /\ ProcOf[t] \in Procs
    BY OfJob DEF Insert
  <1>1. Fit("update", job[t])
    BY <1>0 DEF Fit, Aim, Phases
  <1>2. JobsOK'
    BY <1>1, JobGoes DEF TypeInv, Insert
  <1>3. Inserted(t) \in Tables
    BY <1>0, WritesTables DEF InUpsert
  <1>. QED  BY <1>0, <1>2, <1>3, WorldStays, SqlWriteType DEF TypeInv, Insert

LEMMA UpdateType ==
    ASSUME TypeInv, NEW t \in Threads, Update(t) PROVE TypeInv'
  <1>0. phase[t] = "update" /\ Fit("update", job[t]) /\ ProcOf[t] \in Procs
    BY OfJob DEF Update
  <1>1. Fit("commit", job[t])
    BY <1>0 DEF Fit, Aim, Phases, Update, Storable, NameOf
  <1>2. JobsOK'
    BY <1>1, JobGoes DEF TypeInv, Update
  <1>3. Updated(t) \in Tables
    BY <1>0, WritesTables DEF InUpsert, Update
  <1>. QED  BY <1>0, <1>2, <1>3, WorldStays, SqlWriteType DEF TypeInv, Update

LEMMA CommitType ==
    ASSUME TypeInv, NEW t \in Threads, Commit(t) PROVE TypeInv'
  <1>0. phase[t] = "commit" /\ Fit("commit", job[t]) /\ ProcOf[t] \in Procs
    BY OfJob DEF Commit
  <1>1. /\ DOMAIN job[t].resp.names \subseteq Named
        /\ DOMAIN job[t].resp.groups \subseteq Groups
    BY <1>0, OfJob, ResponseFields
  <1>2. JobsOK'
    <2>1. CASE /\ job[t].what = "hash"
               /\ job' = [job EXCEPT ![t].names = DOMAIN job[t].resp.names,
                                     ![t].groups = DOMAIN job[t].resp.groups]
               /\ Goto(t, "work")
      <3>. DEFINE j == [job[t] EXCEPT !.names = DOMAIN job[t].resp.names,
                                      !.groups = DOMAIN job[t].resp.groups]
      <3>1. Fit("work", j)
        BY <1>0, <1>1 DEF Fit, Aim, Jobs, Phases
      <3>2. job' = [job EXCEPT ![t] = j]
        BY <2>1 DEF TypeInv, JobsOK
      <3>. QED  BY <2>1, <3>1, <3>2, JobMoves DEF TypeInv, Goto
    <2>2. CASE job[t].what = "name" /\ Goto(t, "vcard") /\ job' = job
      <3>1. Fit("vcard", job[t])
        BY <1>0, <2>2 DEF Fit, Aim, Phases
      <3>. QED  BY <2>2, <3>1, JobGoes DEF TypeInv
    <2>3. CASE /\ job[t].what = "group" /\ Goto(t, "work")
               /\ job' = [job EXCEPT ![t].groups = @ \ {job[t].item}]
      <3>. DEFINE j == [job[t] EXCEPT !.groups = @ \ {job[t].item}]
      <3>1. Fit("work", j)
        BY <1>0, <1>1 DEF Fit, Aim, Jobs, Phases
      <3>2. job' = [job EXCEPT ![t] = j]
        BY <2>3 DEF TypeInv, JobsOK
      <3>. QED  BY <2>3, <3>1, <3>2, JobMoves DEF TypeInv, Goto
    <2>4. CASE End(t)
      BY <2>4, JobEnds DEF TypeInv
    <2>. QED  BY <2>1, <2>2, <2>3, <2>4 DEF Commit, WithName
  <1>3. WorldOK'
    <2>1. job[t].user \in Users /\ job[t].resp \in Responses
      BY <1>0, OfJob
    <2>2. done' \in [Users -> Responses \cup {NULL}]
      BY <2>1 DEF TypeInv, WorldOK, Commit
    <2>. QED  BY <2>2 DEF TypeInv, WorldOK, Commit, Same, NoEjabberd
  <1>. QED  BY <1>0, <1>2, <1>3, SqlCommitType DEF TypeInv, Commit

\* The ways to end by an exception.
LEMMA RaisesType ==
    ASSUME TypeInv, NEW t \in Threads,
           \/ \E g \in Groups : ReadGroupRaises(t, g)
           \/ EntryRaises(t) \/ NameRaises(t) \/ BeginRaises(t) \/ Busy(t)
    PROVE  TypeInv'
  <1>0. ProcOf[t] \in Procs
    BY RosterAssumption
  <1>1. /\ End(t) /\ UNCHANGED done /\ Same /\ NoEjabberd
        /\ SqlRead(ProcOf[t]) \/ UNCHANGED sqlVars \/ SqlCommitBusy(ProcOf[t])
    BY DEF ReadGroupRaises, EntryRaises, NameRaises, BeginRaises, Busy
  <1>2. SqlTypeOK(Tables)'
    BY <1>0, <1>1, SqlReadType, SqlStays, SqlCommitBusyType DEF TypeInv
  <1>. QED  BY <1>1, <1>2, JobEnds, WorldStays DEF TypeInv

LEMMA CommandRaisesType ==
    ASSUME TypeInv, NEW t \in Threads, CommandRaises(t) PROVE TypeInv'
  <1>1. srg' \in [Keys -> (SUBSET Users) \cup {NoGroup}]
    <2>1. job[t].cmds \in SUBSET Commands
      BY DEF TypeInv, JobsOK, Jobs
    <2>2. \/ srg' \in {srg, Created(t)}
          \/ \E cmd \in Commands : srg' = Obeyed(cmd)
      BY <2>1 DEF CommandRaises
    <2>. QED  BY <2>2, CreatedType, ObeyedType DEF TypeInv, WorldOK
  <1>2. vcard' \in [Users -> Names \cup {NULL}]
    <2>1. CASE UNCHANGED vcard
      BY <2>1 DEF TypeInv, WorldOK
    <2>2. CASE phase[t] = "vcard" /\ NameOf(t) # Untellable
      <3>1. NameOf(t) \in Names
        BY <2>2, OfJob, NameType DEF Fit, Aim, NameOf
      <3>. QED  BY <3>1 DEF CommandRaises, TypeInv, WorldOK
    <2>. QED  BY <2>1, <2>2 DEF CommandRaises
  <1>3. faults' \in 0 .. MaxFaults
    BY RosterAssumption DEF TypeInv, WorldOK, CommandRaises, Fault
  <1>4. WorldOK'
    BY <1>1, <1>2, <1>3 DEF TypeInv, WorldOK, CommandRaises, Same
  <1>. QED  BY <1>4, JobEnds, SqlStays DEF TypeInv, CommandRaises

LEMMA WorkType == ASSUME TypeInv, NEW t \in Threads, Work(t) PROVE TypeInv'
BY ReadHashType, ReadNameType, ReadGroupType, ReadGrouplistType, CreateType,
   MembersType, ExecuteType, SetVcardType, BeginType, InsertType, UpdateType,
   CommitType, RaisesType, CommandRaisesType DEF Work

LEMMA CrashType == ASSUME TypeInv, NEW p \in Procs, Crash(p) PROVE TypeInv'
  <1>1. SqlTypeOK(Tables)'
    BY SqlCloseType DEF TypeInv, Crash, SqlTypeOK
  <1>2. /\ phase' = [t \in Threads |-> IF ProcOf[t] = p THEN "idle" ELSE phase[t]]
        /\ job' = [t \in Threads |-> IF ProcOf[t] = p THEN NoJob ELSE job[t]]
    BY DEF Crash
  <1>3. \A t \in Threads : Fit(phase'[t], job'[t])
    BY <1>2, NoJobFits DEF TypeInv, JobsOK
  <1>4. phase' \in [Threads -> Phases] /\ job' \in [Threads -> Jobs]
    BY <1>2, NoJobFits DEF TypeInv, JobsOK, Fit
  <1>5. WorldOK'
    BY RosterAssumption DEF TypeInv, WorldOK, Crash, Same, Fault
  <1>. QED  BY <1>1, <1>3, <1>4, <1>5 DEF TypeInv, JobsOK, Fit, Aim

\* A step that has nothing to do with jobs.
LEMMA JobsStay == ASSUME JobsOK, UNCHANGED <<phase, job>> PROVE JobsOK'
BY DEF JobsOK, Fit, Aim

LEMMA ChangeType ==
    ASSUME TypeInv, NEW u \in Users,
           NameChange(u) \/ (\E g \in Groups : MemberChange(u, g))
    PROVE  TypeInv'
  <1>1. changes' \in 0 .. MaxChanges
    BY RosterAssumption DEF TypeInv, WorldOK, NameChange, MemberChange, Change
  <1>2. cloudName' \in [Users -> Names]
    BY RosterAssumption DEF TypeInv, WorldOK, NameChange, MemberChange, Names
  <1>3. member' \in [Groups -> SUBSET Users]
    BY DEF TypeInv, WorldOK, NameChange, MemberChange
  <1>. QED  BY <1>1, <1>2, <1>3, SqlStays, JobsStay
            DEF TypeInv, WorldOK, NameChange, MemberChange, Apart

\* What the scripts write is a table again.
LEMMA EditType ==
    ASSUME SqlTypeOK(Tables), NEW c \in Tables, Edit(c) PROVE SqlTypeOK(Tables)'
BY DEF SqlTypeOK, Edit

LEMMA ScriptType ==
    ASSUME TypeInv,
           \/ XcRefreshRoster
           \/ \E u \in Users : XcDelUser(u)
           \/ \E k \in Keys : XcDelGroupRow(k)
    PROVE  TypeInv'
  <1>0. /\ disk \in Tables
        /\ disk = [info |-> disk.info, groups |-> disk.groups]
        /\ disk.info \in [Users -> InfoRow \cup {NoRow}]
        /\ disk.groups \in [Keys -> (SUBSET Users) \cup {NULL, NoRow}]
    BY DEF TypeInv, SqlTypeOK, Tables
  <1>1. SqlTypeOK(Tables)'
    <2>1. CASE XcRefreshRoster
      <3>. DEFINE i == [u \in Users |-> IF disk.info[u] = NoRow THEN NoRow ELSE NewInfo]
      <3>1. i \in [Users -> InfoRow \cup {NoRow}]
        BY DEF NewInfo, InfoRow
      <3>. HIDE DEF i
      <3>2. [disk EXCEPT !.info = i] \in Tables
        BY <1>0, <3>1 DEF Tables
      <3>3. Edit([disk EXCEPT !.info = i])
        BY <2>1 DEF XcRefreshRoster, i
      <3>. QED  BY <3>2, <3>3, EditType DEF TypeInv
    <2>2. ASSUME NEW u \in Users, XcDelUser(u) PROVE SqlTypeOK(Tables)'
      <3>1. [disk EXCEPT !.info[u] = NoRow] \in Tables
        BY <1>0 DEF Tables
      <3>. QED  BY <2>2, <3>1, EditType DEF TypeInv, XcDelUser
    <2>3. ASSUME NEW k \in Keys, XcDelGroupRow(k) PROVE SqlTypeOK(Tables)'
      <3>1. [disk EXCEPT !.groups[k] = NoRow] \in Tables
        BY <1>0 DEF Tables
      <3>. QED  BY <2>3, <3>1, EditType, SqlStays DEF TypeInv, XcDelGroupRow
    <2>. QED  BY <2>1, <2>2, <2>3
  <1>2. deleting' \subseteq Keys
    BY DEF TypeInv, WorldOK, XcRefreshRoster, XcDelUser, XcDelGroupRow
  <1>3. changes' \in 0 .. MaxChanges
    <2>1. changes < MaxChanges /\ changes' = changes + 1
      BY DEF XcRefreshRoster, XcDelUser, XcDelGroupRow, Script, Change
    <2>. QED  BY <2>1, RosterAssumption DEF TypeInv, WorldOK
  <1>4. UNCHANGED <<member, cloudName, srg, vcard, phase, job, faults, done>>
    BY DEF XcRefreshRoster, XcDelUser, XcDelGroupRow, Script, Apart
  <1>. QED  BY <1>1, <1>2, <1>3, <1>4, JobsStay DEF TypeInv, WorldOK

LEMMA XcDelGroupType == ASSUME TypeInv, NEW k \in Keys, XcDelGroup(k) PROVE TypeInv'
  <1>1. srg' \in [Keys -> (SUBSET Users) \cup {NoGroup}] /\ deleting' \subseteq Keys
    BY DEF TypeInv, WorldOK, XcDelGroup
  <1>. QED  BY <1>1, SqlStays, JobsStay DEF TypeInv, WorldOK, XcDelGroup

LEMMA EnvironmentType == ASSUME TypeInv, Environment PROVE TypeInv'
  <1>1. ASSUME NEW t \in Threads, NEW u \in Users, NEW r \in Answers(u), Login(t, u, r)
        PROVE  TypeInv'
    BY <1>1, AnswersType, LoginType DEF TypeInv
  <1>. QED  BY <1>1, CrashType, ChangeType, ScriptType, XcDelGroupType DEF Environment

LEMMA TypeInit == Init => TypeInv
  <1>. SUFFICES ASSUME Init PROVE TypeInv
    OBVIOUS
  <1>1. EmptyTables \in Tables
    BY DEF EmptyTables, Tables
  <1>2. SqlTypeOK(Tables)
    BY <1>1 DEF Init, SqlInit, SqlTypeOK, Locks
  <1>3. JobsOK
    BY NoJobFits DEF Init, JobsOK, Fit
  <1>4. WorldOK
    BY RosterAssumption DEF Init, WorldOK, Names
  <1>. QED  BY <1>2, <1>3, <1>4 DEF TypeInv

LEMMA TypeNext == TypeInv /\ [Next]_vars => TypeInv'
  <1>. SUFFICES ASSUME TypeInv, [Next]_vars PROVE TypeInv'
    OBVIOUS
  <1>1. CASE UNCHANGED vars
    BY <1>1, SqlStays, JobsStay DEF vars, sqlVars, TypeInv, WorldOK
  <1>. QED  BY <1>1, WorkType, EnvironmentType DEF Next

\* Every reachable state is well typed: whatever is in a table, in a job or in
\* ejabberd is there in one of the forms the code can put it in.
THEOREM TypeCorrect == Spec => []TypeOK
  <1>. QED  BY TypeInit, TypeNext, TypeInvIsTypeOK, PTL DEF Spec

-----------------------------------------------------------------------------
(* Transactions.                                                           *)

\* Who has inserted a row and not committed it holds the write lock.
UpsertLocked ==
    \A t \in Threads : phase[t] \in {"update", "commit"} => Writer(ProcOf[t])

\* A row without its userlist is that of a job between INSERT and UPDATE.
BufFilled ==
    \A k \in Keys : buf.groups[k] = NULL =>
        \E t \in Threads : /\ phase[t] = "update" /\ job[t].what = "group"
                           /\ Sanitize[job[t].item] = k

FillInv == OneTransaction /\ UpsertLocked /\ BufFilled /\ GroupRowsComplete

IInv == TypeInv /\ SqlInv /\ FillInv

\* A step of a job that is not at the UPDATE of a group to a place outside of the
\* transaction, or of no job at all, which leaves the database alone.
LEMMA QuietStep ==
    ASSUME IInv, UNCHANGED <<disk, buf, open>>,
           \A q \in Procs : Writer(q)' <=> Writer(q),
           \A s \in Threads : \/ phase'[s] = phase[s] /\ job'[s] = job[s]
                              \/ /\ phase[s] # "update" \/ job[s].what # "group"
                                 /\ phase'[s] \notin InUpsert
    PROVE  FillInv'
  <1>1. \A s \in Threads : phase'[s] \in InUpsert => phase'[s] = phase[s] /\ job'[s] = job[s]
    OBVIOUS
  <1>2. OneTransaction'
    BY <1>1 DEF IInv, FillInv, OneTransaction
  <1>3. UpsertLocked'
    BY <1>1, RosterAssumption DEF IInv, FillInv, UpsertLocked, InUpsert
  <1>4. BufFilled'
    BY DEF IInv, FillInv, BufFilled
  <1>5. GroupRowsComplete'
    BY DEF IInv, FillInv, GroupRowsComplete
  <1>. QED  BY <1>2, <1>3, <1>4, <1>5 DEF FillInv

\* A job that is at UPDATE or COMMIT is the only one that is, and sees the only
\* row that may lack its userlist.
LEMMA OnlyOwnRow ==
    ASSUME IInv, NEW t \in Threads, phase[t] \in {"update", "commit"}
    PROVE  /\ open[ProcOf[t]] /\ Writer(ProcOf[t]) /\ MayWrite(ProcOf[t])
           /\ T(t) = buf
           /\ \A s \in Threads \ {t} : phase[s] \notin {"update", "commit"}
           /\ \A k \in Keys : buf.groups[k] = NULL =>
                 /\ phase[t] = "update" /\ job[t].what = "group"
                 /\ Sanitize[job[t].item] = k
  <1>1. ProcOf[t] \in Procs /\ open[ProcOf[t]] /\ Writer(ProcOf[t])
    BY RosterAssumption DEF IInv, FillInv, OneTransaction, UpsertLocked, InUpsert
  <1>2. \A s \in Threads \ {t} : phase[s] \notin {"update", "commit"}
    BY <1>1, RosterAssumption
       DEF IInv, SqlInv, FillInv, OneTransaction, UpsertLocked, InUpsert
  <1>3. MayWrite(ProcOf[t])
    BY <1>1 DEF MayWrite, MayReserve, MayRead, IInv, SqlInv, Writer
  <1>. QED  BY <1>1, <1>2, <1>3 DEF IInv, FillInv, BufFilled, T, View

LEMMA BeginFill == ASSUME IInv, NEW t \in Threads, Begin(t) PROVE FillInv'
  <1>1. /\ ProcOf[t] \in Procs /\ SqlBegin(ProcOf[t]) /\ job' = job
        /\ phase[t] \notin InUpsert /\ phase' = [phase EXCEPT ![t] = "insert"]
    BY RosterAssumption DEF Begin, ReadyToWrite, Goto, InUpsert
  <1>2. \A s \in Threads : ProcOf[s] = ProcOf[t] => phase[s] \notin InUpsert
    BY <1>1 DEF SqlBegin, IInv, FillInv, OneTransaction
  <1>3. /\ phase'[t] = "insert" /\ open'[ProcOf[t]] /\ UNCHANGED <<disk, buf, lock>>
        /\ \A s \in Threads \ {t} : phase'[s] = phase[s]
        /\ \A p \in Procs : open[p] => open'[p]
    BY <1>1 DEF SqlBegin, IInv, TypeInv, JobsOK, SqlTypeOK
  <1>4. OneTransaction'
    BY <1>1, <1>2, <1>3, RosterAssumption DEF IInv, FillInv, OneTransaction
  <1>5. UpsertLocked' /\ BufFilled' /\ GroupRowsComplete'
    BY <1>1, <1>3
       DEF IInv, FillInv, UpsertLocked, Writer, BufFilled, GroupRowsComplete, InUpsert
  <1>. QED  BY <1>4, <1>5 DEF FillInv

\* A write inside of a transaction stays with its connection, which holds the
\* write lock from then on.
LEMMA WriteInside ==
    ASSUME IInv, NEW t \in Threads, NEW ph \in InUpsert, NEW c,
           phase[t] \in InUpsert, SqlWrite(ProcOf[t], c), Goto(t, ph), UNCHANGED job
    PROVE  /\ buf' = c /\ disk' = disk /\ open' = open /\ Writer(ProcOf[t])'
           /\ T(t) = buf
           /\ phase'[t] = ph /\ \A s \in Threads \ {t} : phase'[s] = phase[s]
           /\ OneTransaction' /\ UpsertLocked' /\ GroupRowsComplete'
  <1>1. ProcOf[t] \in Procs /\ open[ProcOf[t]]
    BY RosterAssumption DEF IInv, FillInv, OneTransaction
  <1>2. buf' = c /\ disk' = disk /\ open' = open
    BY <1>1 DEF SqlWrite
  <1>3. phase'[t] = ph /\ \A s \in Threads \ {t} : phase'[s] = phase[s]
    BY DEF Goto, IInv, TypeInv, JobsOK
  <1>4. Writer(ProcOf[t])' /\ \A q \in Procs : Writer(q) => Writer(q)'
    BY <1>1 DEF SqlWrite, Writer, IInv, TypeInv, SqlTypeOK
  <1>5. T(t) = buf
    BY <1>1 DEF SqlWrite, MayWrite, MayReserve, T, View, IInv, SqlInv
  <1>6. OneTransaction'
    BY <1>2, <1>3 DEF IInv, FillInv, OneTransaction
  <1>7. UpsertLocked'
    BY <1>3, <1>4, RosterAssumption DEF IInv, FillInv, UpsertLocked
  <1>8. GroupRowsComplete'
    BY <1>2 DEF IInv, FillInv, GroupRowsComplete
  <1>. QED  BY <1>2, <1>3, <1>4, <1>5, <1>6, <1>7, <1>8

\* The two writes, as far as the userlists are concerned.
LEMMA UserlistsWritten ==
    ASSUME IInv, NEW t \in Threads, phase[t] \in InUpsert
    PROVE  LET k == Sanitize[job[t].item] IN
           /\ \A x \in Keys : Inserted(t).groups[x] # T(t).groups[x] =>
                 job[t].what = "group" /\ x = k
           /\ \A x \in Keys : Updated(t).groups[x] = NULL =>
                 T(t).groups[x] = NULL /\ ~(job[t].what = "group" /\ x = k)
  <1>. DEFINE k == Sanitize[job[t].item]
  <1>0. /\ T(t) = [info |-> T(t).info, groups |-> T(t).groups]
        /\ T(t).groups \in [Keys -> (SUBSET Users) \cup {NULL, NoRow}]
        /\ Fit(phase[t], job[t]) /\ job[t].resp \in Responses
    BY OfJob DEF IInv, InUpsert, Tables
  <1>1. CASE job[t].what = "group"
    <2>1. k \in Keys /\ job[t].resp.groups[job[t].item] \in SUBSET Users
      BY <1>0, <1>1, ResponseFields, RosterAssumption DEF Fit, Aim, InUpsert
    <2>2. \A x \in Keys \ {k} : /\ Inserted(t).groups[x] = T(t).groups[x]
                              /\ Updated(t).groups[x] = T(t).groups[x]
      BY <1>0, <1>1, <2>1 DEF Inserted, Updated
    <2>3. Updated(t).groups[k] = IF T(t).groups[k] = NoRow THEN NoRow
                                 ELSE job[t].resp.groups[job[t].item]
      BY <1>0, <1>1, <2>1 DEF Updated
    <2>4. Updated(t).groups[k] # NULL
      BY <2>1, <2>3, NullAssumption
    <2>. QED  BY <1>1, <2>2, <2>4
  <1>2. CASE job[t].what # "group"
    BY <1>0, <1>2 DEF Inserted, Updated
  <1>. QED  BY <1>1, <1>2

LEMMA InsertFill == ASSUME IInv, NEW t \in Threads, Insert(t) PROVE FillInv'
  <1>1. /\ phase[t] = "insert" /\ phase[t] \in InUpsert /\ "update" \in InUpsert
        /\ SqlWrite(ProcOf[t], Inserted(t)) /\ Goto(t, "update") /\ job' = job
    BY DEF Insert, InUpsert
  <1>2. /\ buf' = Inserted(t) /\ T(t) = buf
        /\ phase'[t] = "update" /\ \A s \in Threads \ {t} : phase'[s] = phase[s]
        /\ OneTransaction' /\ UpsertLocked' /\ GroupRowsComplete'
    BY <1>1, WriteInside
  <1>3. \A x \in Keys : Inserted(t).groups[x] # buf.groups[x] =>
            job[t].what = "group" /\ x = Sanitize[job[t].item]
    BY <1>1, <1>2, UserlistsWritten
  <1>4. BufFilled'
    <2>. SUFFICES ASSUME NEW x \in Keys, buf'.groups[x] = NULL
                  PROVE  \E s \in Threads : /\ phase'[s] = "update" /\ job'[s].what = "group"
                                            /\ Sanitize[job'[s].item] = x
      BY DEF BufFilled
    <2>1. CASE buf.groups[x] = NULL
      BY <1>1, <1>2, <2>1 DEF IInv, FillInv, BufFilled
    <2>2. CASE buf.groups[x] # NULL
      BY <1>1, <1>2, <1>3, <2>2
    <2>. QED  BY <2>1, <2>2
  <1>. QED  BY <1>2, <1>4 DEF FillInv

LEMMA UpdateFill == ASSUME IInv, NEW t \in Threads, Update(t) PROVE FillInv'
  <1>1. /\ phase[t] = "update" /\ phase[t] \in InUpsert /\ "commit" \in InUpsert
        /\ SqlWrite(ProcOf[t], Updated(t)) /\ Goto(t, "commit") /\ job' = job
    BY DEF Update, InUpsert
  <1>2. /\ buf' = Updated(t) /\ T(t) = buf
        /\ OneTransaction' /\ UpsertLocked' /\ GroupRowsComplete'
    BY <1>1, WriteInside
  <1>3. \A x \in Keys : Updated(t).groups[x] # NULL
    BY <1>1, <1>2, UserlistsWritten, OnlyOwnRow
  <1>4. BufFilled'
    BY <1>2, <1>3 DEF BufFilled
  <1>. QED  BY <1>2, <1>4 DEF FillInv

LEMMA CommitFill == ASSUME IInv, NEW t \in Threads, Commit(t) PROVE FillInv'
  <1>. DEFINE p == ProcOf[t]
  <1>1. phase[t] = "commit" /\ p \in Procs /\ SqlCommit(p)
    BY RosterAssumption DEF Commit
  <1>2. /\ phase'[t] \notin InUpsert
        /\ \A s \in Threads \ {t} : phase'[s] = phase[s] /\ job'[s] = job[s]
    BY DEF Commit, End, Goto, InUpsert, IInv, TypeInv, JobsOK
  <1>3. /\ Writer(p) /\ T(t) = buf /\ \A k \in Keys : buf.groups[k] # NULL
        /\ \A s \in Threads \ {t} : phase[s] \notin {"update", "commit"}
    BY <1>1, OnlyOwnRow
  <1>4. /\ disk' = buf /\ buf' = buf
        /\ \A q \in Procs \ {p} : open'[q] = open[q] /\ (Writer(q)' <=> Writer(q))
    BY <1>1, <1>3 DEF SqlCommit, View, Writer, IInv, TypeInv, SqlTypeOK
  <1>5. \A s \in Threads \ {t} : ProcOf[s] = p => phase[s] \notin InUpsert
    BY <1>1 DEF IInv, FillInv, OneTransaction, InUpsert
  <1>6. OneTransaction'
    BY <1>2, <1>4, <1>5, RosterAssumption DEF IInv, FillInv, OneTransaction
  <1>7. UpsertLocked'
    BY <1>2, <1>3 DEF UpsertLocked, InUpsert
  <1>8. BufFilled' /\ GroupRowsComplete'
    BY <1>3, <1>4 DEF BufFilled, GroupRowsComplete
  <1>. QED  BY <1>6, <1>7, <1>8 DEF FillInv

LEMMA CrashFill == ASSUME IInv, NEW p \in Procs, Crash(p) PROVE FillInv'
  <1>1. /\ SqlClose(p, disk)
        /\ \A s \in Threads : /\ ProcOf[s] = p => phase'[s] = "idle"
                              /\ ProcOf[s] # p => phase'[s] = phase[s] /\ job'[s] = job[s]
    BY DEF Crash
  <1>2. /\ disk' = disk
        /\ \A q \in Procs \ {p} : open'[q] = open[q] /\ (Writer(q)' <=> Writer(q))
    BY <1>1 DEF SqlClose, Writer, IInv, TypeInv, SqlTypeOK
  <1>3. OneTransaction'
    BY <1>1, <1>2, RosterAssumption DEF IInv, FillInv, OneTransaction, InUpsert
  <1>4. UpsertLocked'
    BY <1>1, <1>2, RosterAssumption DEF IInv, FillInv, UpsertLocked
  <1>5. BufFilled'
    <2>1. CASE \E q \in Procs \ {p} : Writer(q)
      <3>1. buf' = buf /\ ~Writer(p)
        BY <1>1, <2>1 DEF SqlClose, IInv, SqlInv
      <3>2. \A s \in Threads : phase[s] = "update" => ProcOf[s] # p
        BY <3>1 DEF IInv, FillInv, UpsertLocked
      <3>. QED  BY <1>1, <3>1, <3>2 DEF IInv, FillInv, BufFilled
    <2>2. CASE ~ \E q \in Procs \ {p} : Writer(q)
      BY <1>1, <2>2 DEF SqlClose, BufFilled, IInv, FillInv, GroupRowsComplete
    <2>. QED  BY <2>1, <2>2
  <1>6. GroupRowsComplete'
    BY <1>2 DEF IInv, FillInv, GroupRowsComplete
  <1>. QED  BY <1>3, <1>4, <1>5, <1>6 DEF FillInv

\* The scripts write when nobody else does, and no userlist but whole ones.
LEMMA EditFill ==
    ASSUME IInv, NEW c, Edit(c), \A k \in Keys : c.groups[k] # NULL,
           UNCHANGED <<phase, job>>
    PROVE  SqlInv' /\ FillInv'
  <1>1. disk' = c /\ buf' = c /\ UNCHANGED <<lock, open>>
    BY DEF Edit
  <1>2. SqlInv'
    BY <1>1 DEF IInv, SqlInv, Writer
  <1>3. OneTransaction' /\ UpsertLocked'
    BY <1>1 DEF IInv, FillInv, OneTransaction, UpsertLocked, Writer
  <1>4. BufFilled' /\ GroupRowsComplete'
    BY <1>1 DEF BufFilled, GroupRowsComplete
  <1>. QED  BY <1>2, <1>3, <1>4 DEF FillInv

LEMMA SqlInvStays == ASSUME SqlInv, UNCHANGED sqlVars PROVE SqlInv'
BY DEF SqlInv, sqlVars, Writer

\* A step that leaves jobs and database alone.
LEMMA NothingWritten ==
    ASSUME IInv, UNCHANGED <<sqlVars, phase, job>> PROVE SqlInv' /\ FillInv'
  <1>1. UNCHANGED <<disk, buf, open, lock>>
    BY DEF sqlVars
  <1>2. \A q \in Procs : Writer(q)' <=> Writer(q)
    BY <1>1 DEF Writer
  <1>. QED  BY <1>1, <1>2, SqlInvStays, QuietStep DEF IInv

LEMMA EnvironmentFill == ASSUME IInv, Environment PROVE SqlInv' /\ FillInv'
  <1>0. SqlInv /\ SqlTypeOK(Tables) /\ GroupRowsComplete
    BY DEF IInv, TypeInv, FillInv
  <1>1. ASSUME NEW t \in Threads, NEW u, NEW r, Login(t, u, r) PROVE SqlInv' /\ FillInv'
    <2>1. /\ phase[t] = "idle" /\ phase'[t] = "hash" /\ UNCHANGED sqlVars
          /\ \A s \in Threads \ {t} : phase'[s] = phase[s] /\ job'[s] = job[s]
      BY <1>1 DEF Login, Goto, IInv, TypeInv, JobsOK
    <2>2. UNCHANGED <<disk, buf, open>> /\ \A q \in Procs : Writer(q)' <=> Writer(q)
      BY <2>1 DEF sqlVars, Writer
    <2>. QED  BY <1>0, <2>1, <2>2, SqlInvStays, QuietStep DEF InUpsert
  <1>2. ASSUME NEW p \in Procs, Crash(p) PROVE SqlInv' /\ FillInv'
    BY <1>0, <1>2, SqlInvStep, CrashFill DEF Crash
  <1>3. CASE XcRefreshRoster
    <2>. DEFINE i == [u \in Users |-> IF disk.info[u] = NoRow THEN NoRow ELSE NewInfo]
    <2>1. [disk EXCEPT !.info = i].groups = disk.groups
      BY <1>0 DEF SqlTypeOK, Tables
    <2>. QED  BY <1>0, <1>3, <2>1, EditFill
              DEF XcRefreshRoster, Script, Apart, GroupRowsComplete
  <1>4. ASSUME NEW u \in Users, XcDelUser(u) PROVE SqlInv' /\ FillInv'
    <2>1. [disk EXCEPT !.info[u] = NoRow].groups = disk.groups
      BY <1>0 DEF SqlTypeOK, Tables
    <2>. QED  BY <1>0, <1>4, <2>1, EditFill
              DEF XcDelUser, Script, Apart, GroupRowsComplete
  <1>5. ASSUME NEW k \in Keys, XcDelGroupRow(k) PROVE SqlInv' /\ FillInv'
    <2>. DEFINE c == [disk EXCEPT !.groups[k] = NoRow]
    <2>1. \A x \in Keys : c.groups[x] # NULL
      BY <1>0, NullAssumption DEF SqlTypeOK, Tables, GroupRowsComplete
    <2>2. UNCHANGED <<phase, job>>
      BY <1>5 DEF XcDelGroupRow, Script, Apart
    <2>. QED  BY <1>5, <2>1, <2>2, EditFill, NothingWritten DEF XcDelGroupRow
  <1>6. ASSUME NEW u \in Users, NameChange(u) \/ (\E g \in Groups : MemberChange(u, g))
        PROVE  SqlInv' /\ FillInv'
    BY <1>6, NothingWritten DEF NameChange, MemberChange, Apart
  <1>7. ASSUME NEW k \in Keys, XcDelGroup(k) PROVE SqlInv' /\ FillInv'
    BY <1>7, NothingWritten DEF XcDelGroup
  <1>. QED  BY <1>1, <1>2, <1>3, <1>4, <1>5, <1>6, <1>7 DEF Environment

\* A job that goes on outside of its transactions, or ends by an exception.
LEMMA OutsideStep ==
    ASSUME IInv, NEW t \in Threads, phase[t] # "update" \/ job[t].what # "group",
           SqlRead(ProcOf[t]) \/ UNCHANGED sqlVars \/ SqlCommitBusy(ProcOf[t]),
           phase'[t] \notin InUpsert,
           \A s \in Threads \ {t} : phase'[s] = phase[s] /\ job'[s] = job[s]
    PROVE  SqlInv' /\ FillInv'
  <1>0. SqlInv /\ SqlTypeOK(Tables) /\ ProcOf[t] \in Procs
    BY RosterAssumption DEF IInv, TypeInv
  <1>1. SqlInv'
    BY <1>0, SqlInvStep, SqlInvStays
  <1>2. /\ UNCHANGED <<disk, buf, open>>
        /\ \A q \in Procs : Writer(q)' <=> Writer(q)
    BY <1>0 DEF SqlRead, SqlCommitBusy, sqlVars, SqlTypeOK, Writer
  <1>. QED  BY <1>1, <1>2, QuietStep

\* The steps that only read the database, or leave it alone.
LEMMA ReadingMoves ==
    ASSUME IInv, NEW t \in Threads,
           \/ ReadHash(t) \/ ReadGrouplist(t) \/ Create(t) \/ Members(t) \/ SetVcard(t)
           \/ \E v \in Named : ReadName(t, v)
           \/ \E g \in Groups : ReadGroup(t, g)
           \/ \E cmd \in Commands : Execute(t, cmd)
    PROVE  /\ phase[t] \in {"hash", "work", "create", "members", "vcard", "commands"}
           /\ \E ph \in {"idle", "begin", "work", "create", "commands", "members"} :
                 phase' = [phase EXCEPT ![t] = ph]
           /\ \A s \in Threads \ {t} : job'[s] = job[s]
           /\ SqlRead(ProcOf[t]) \/ UNCHANGED sqlVars
  <1>0. phase = [phase EXCEPT ![t] = phase[t]] /\ job \in [Threads -> Jobs]
    BY DEF IInv, TypeInv, JobsOK
  <1>1. CASE ReadHash(t)
    BY <1>0, <1>1 DEF ReadHash, End, Goto
  <1>2. CASE ReadGrouplist(t)
    BY <1>0, <1>2 DEF ReadGrouplist, Goto
  <1>3. CASE Create(t) \/ Members(t) \/ SetVcard(t)
    BY <1>0, <1>3 DEF Create, Members, SetVcard, Goto
  <1>4. ASSUME NEW v \in Named, ReadName(t, v)
        PROVE  /\ phase[t] = "work"
               /\ \E ph \in {"work", "begin"} : phase' = [phase EXCEPT ![t] = ph]
               /\ \A s \in Threads \ {t} : job'[s] = job[s]
    BY <1>0, <1>4 DEF ReadName, Goto
  <1>5. ASSUME NEW g \in Groups, ReadGroup(t, g)
        PROVE  /\ phase[t] = "work"
               /\ \E ph \in {"create", "commands"} : phase' = [phase EXCEPT ![t] = ph]
               /\ \A s \in Threads \ {t} : job'[s] = job[s]
    BY <1>0, <1>5 DEF ReadGroup, NextGroup, Goto
  <1>6. ASSUME NEW cmd \in Commands, Execute(t, cmd)
        PROVE  /\ phase[t] = "commands" /\ phase' = [phase EXCEPT ![t] = "commands"]
               /\ \A s \in Threads \ {t} : job'[s] = job[s]
    BY <1>0, <1>6 DEF Execute, Due
  <1>7. SqlRead(ProcOf[t]) \/ UNCHANGED sqlVars
    BY DEF ReadHash, ReadGrouplist, Create, Members, SetVcard, ReadName, ReadGroup, Execute
  <1>. QED  BY <1>1, <1>2, <1>3, <1>4, <1>5, <1>6, <1>7

LEMMA ReadingSteps ==
    ASSUME IInv, NEW t \in Threads,
           \/ ReadHash(t) \/ ReadGrouplist(t) \/ Create(t) \/ Members(t) \/ SetVcard(t)
           \/ \E v \in Named : ReadName(t, v)
           \/ \E g \in Groups : ReadGroup(t, g)
           \/ \E cmd \in Commands : Execute(t, cmd)
    PROVE  SqlInv' /\ FillInv'
  <1>1. /\ phase[t] # "update" /\ phase'[t] \notin InUpsert
        /\ \A s \in Threads \ {t} : phase'[s] = phase[s] /\ job'[s] = job[s]
    BY ReadingMoves DEF IInv, TypeInv, JobsOK, InUpsert
  <1>. QED  BY <1>1, ReadingMoves, OutsideStep

\* Nobody raises at the UPDATE of a group, which holds the lock it needs and binds
\* what can be stored.
LEMMA RaisingSteps ==
    ASSUME IInv, NEW t \in Threads,
           \/ \E g \in Groups : ReadGroupRaises(t, g)
           \/ EntryRaises(t) \/ NameRaises(t) \/ CommandRaises(t)
           \/ BeginRaises(t) \/ Busy(t)
    PROVE  SqlInv' /\ FillInv'
  <1>1. End(t) /\ (SqlRead(ProcOf[t]) \/ UNCHANGED sqlVars \/ SqlCommitBusy(ProcOf[t]))
    BY DEF ReadGroupRaises, EntryRaises, NameRaises, CommandRaises, BeginRaises, Busy
  <1>2. phase[t] # "update" \/ job[t].what # "group"
    BY OnlyOwnRow DEF ReadGroupRaises, NextGroup, EntryRaises, NameRaises, Storable,
                      CommandRaises, Due, BeginRaises, ReadyToWrite, Busy
  <1>3. /\ phase'[t] \notin InUpsert
        /\ \A s \in Threads \ {t} : phase'[s] = phase[s] /\ job'[s] = job[s]
    BY <1>1 DEF End, Goto, IInv, TypeInv, JobsOK, InUpsert
  <1>. QED  BY <1>1, <1>2, <1>3, OutsideStep

LEMMA WritingSteps ==
    ASSUME IInv, NEW t \in Threads, Begin(t) \/ Insert(t) \/ Update(t) \/ Commit(t)
    PROVE  SqlInv' /\ FillInv'
  <1>0. SqlInv /\ SqlTypeOK(Tables) /\ ProcOf[t] \in Procs
    BY RosterAssumption DEF IInv, TypeInv
  <1>1. CASE Begin(t)
    BY <1>0, <1>1, SqlInvStep, BeginFill DEF Begin
  <1>2. CASE Insert(t)
    BY <1>0, <1>2, SqlInvStep, InsertFill DEF Insert
  <1>3. CASE Update(t)
    BY <1>0, <1>3, SqlInvStep, UpdateFill DEF Update
  <1>4. CASE Commit(t)
    BY <1>0, <1>4, SqlInvStep, CommitFill DEF Commit
  <1>. QED  BY <1>1, <1>2, <1>3, <1>4

LEMMA IInvInit == Init => IInv
  <1>. SUFFICES ASSUME Init PROVE IInv
    OBVIOUS
  <1>1. SqlInv
    BY DEF Init, SqlInit, SqlInv, Writer
  <1>2. FillInv
    BY NullAssumption DEF Init, SqlInit, EmptyTables, FillInv, OneTransaction, InUpsert,
           UpsertLocked, BufFilled, GroupRowsComplete
  <1>. QED  BY <1>1, <1>2, TypeInit DEF IInv

LEMMA IInvNext == IInv /\ [Next]_vars => IInv'
  <1>. SUFFICES ASSUME IInv, [Next]_vars PROVE IInv'
    OBVIOUS
  <1>1. TypeInv'
    BY TypeNext DEF IInv
  <1>2. ASSUME NEW t \in Threads, Work(t) PROVE SqlInv' /\ FillInv'
    BY <1>2, ReadingSteps, RaisingSteps, WritingSteps DEF Work
  <1>3. CASE UNCHANGED vars
    <2>1. UNCHANGED <<sqlVars, phase, job>>
      BY <1>3 DEF vars, sqlVars
    <2>. QED  BY <1>1, <2>1, NothingWritten DEF IInv
  <1>. QED  BY <1>1, <1>2, <1>3, EnvironmentFill DEF Next, IInv

\* The transactions of the jobs of a process never overlap, and while a job is
\* between BEGIN and COMMIT the shared connection is in its transaction.
THEOREM TransactionsAreExclusive == Spec => []OneTransaction
  <1>1. IInv => OneTransaction
    BY DEF IInv, FillInv
  <1>. QED  BY <1>1, IInvInit, IInvNext, PTL DEF Spec

\* No crash, lock timeout, script or interleaving commits a group without its
\* userlist, at which every later login of a member would fail.
THEOREM GroupRowsAreComplete == Spec => []GroupRowsComplete
  <1>1. IInv => GroupRowsComplete
    BY DEF IInv, FillInv
  <1>. QED  BY <1>1, IInvInit, IInvNext, PTL DEF Spec

-----------------------------------------------------------------------------
(* One process.                                                            *)

\* A step that neither ends a transaction nor a job that is in one.
Keeps ==
    /\ open' = open
    /\ \A s \in Threads : phase[s] \in InUpsert => phase'[s] \in InUpsert

LEMMA LeftOpenStep ==
    ASSUME \A p, q \in Procs : p = q, IInv, [Next]_vars,
           NEW p \in Procs, ~LeftOpen(p), LeftOpen(p)'
    PROVE  \E t \in Threads : ProcOf[t] = p /\ phase[t] = "update" /\ NameRaises(t)
  <1>0. /\ \A t \in Threads : ProcOf[t] = p
        /\ phase \in [Threads -> Phases] /\ open \in [Procs -> BOOLEAN]
    BY RosterAssumption DEF IInv, TypeInv, SqlTypeOK, JobsOK
  <1>1. ~Keeps
    BY <1>0 DEF Keeps, LeftOpen
  <1>2. ASSUME NEW t \in Threads PROVE phase'[t] \notin InUpsert /\ open'[p]
    BY <1>0 DEF LeftOpen
  <1>3. ASSUME NEW t \in Threads, Begin(t) \/ Insert(t) \/ Update(t) PROVE FALSE
    BY <1>0, <1>2, <1>3 DEF Begin, Insert, Update, Goto, InUpsert
  <1>4. ASSUME NEW t \in Threads, Commit(t) PROVE FALSE
    BY <1>0, <1>2, <1>4 DEF Commit, SqlCommit
  <1>5. ASSUME NEW t \in Threads,
               \/ ReadHash(t) \/ ReadGrouplist(t) \/ Create(t) \/ Members(t) \/ SetVcard(t)
               \/ \E v \in Named : ReadName(t, v)
               \/ \E g \in Groups : ReadGroup(t, g)
               \/ \E cmd \in Commands : Execute(t, cmd)
        PROVE  FALSE
    <2>1. open' = open
      BY <1>5, ReadingMoves DEF SqlRead, sqlVars
    <2>2. phase[t] \notin InUpsert /\ \A s \in Threads \ {t} : phase'[s] = phase[s]
      BY <1>0, <1>5, ReadingMoves DEF InUpsert
    <2>. QED  BY <1>1, <2>1, <2>2 DEF Keeps
  <1>6. ASSUME NEW t \in Threads,
               \/ \E g \in Groups : ReadGroupRaises(t, g)
               \/ EntryRaises(t) \/ CommandRaises(t) \/ BeginRaises(t) \/ Busy(t)
               \/ NameRaises(t) /\ phase[t] # "update"
        PROVE  FALSE
    <2>1. MayRead(p) /\ MayWrite(p) /\ MayExclude(p)
      BY DEF MayRead, MayWrite, MayReserve, MayExclude
    <2>2. ~Busy(t)
      BY <1>0, <2>1 DEF Busy, SqlCommitBusy
    <2>3. phase[t] \notin InUpsert /\ End(t) /\ open' = open
      BY <1>6, <2>2 DEF ReadGroupRaises, NextGroup, EntryRaises, CommandRaises, Due, NameRaises,
                        BeginRaises, ReadyToWrite, SqlRead, InUpsert, sqlVars
    <2>. QED  BY <1>0, <1>1, <2>3 DEF Keeps, End, Goto
  <1>7. ASSUME NEW q \in Procs, Crash(q) PROVE FALSE
    BY <1>0, <1>2, <1>7 DEF Crash, SqlClose, LeftOpen
  <1>8. ASSUME NEW t \in Threads, NEW u, NEW r, Login(t, u, r) PROVE FALSE
    BY <1>0, <1>1, <1>8 DEF Login, Goto, sqlVars, Keeps, InUpsert
  <1>9. ASSUME Environment, ~ \E q \in Procs : Crash(q),
               ~ \E t \in Threads : \E u \in Users : \E r \in Answers(u) : Login(t, u, r)
        PROVE  FALSE
    <2>1. UNCHANGED <<open, phase>>
      BY <1>9 DEF Environment, NameChange, MemberChange, XcRefreshRoster, XcDelUser,
                  XcDelGroupRow, XcDelGroup, Script, Apart, Edit, sqlVars
    <2>. QED  BY <1>1, <2>1 DEF Keeps
  <1>10. ~UNCHANGED vars
    BY <1>1 DEF Keeps, vars
  <1>11. PICK t \in Threads : NameRaises(t) /\ phase[t] = "update"
    BY <1>3, <1>4, <1>5, <1>6, <1>7, <1>8, <1>9, <1>10 DEF Next, Work
  <1>. QED  BY <1>0, <1>11

\* Without other processes no statement waits, so a job ends inside of its
\* transaction in one way only: the name it writes is one that SQLite cannot store.
THEOREM OneProcessLeavesOpenOnlyByName ==
    ASSUME \A p, q \in Procs : p = q PROVE Spec => LeftOpenOnlyByName
  <1>1. IInv /\ [Next]_vars =>
            [\A p \in Procs : ~LeftOpen(p) /\ LeftOpen(p)' =>
                \E t \in Threads : ProcOf[t] = p /\ phase[t] = "update" /\ NameRaises(t)]_vars
    BY LeftOpenStep
  <1>. QED  BY <1>1, IInvInit, IInvNext, PTL DEF Spec, LeftOpenOnlyByName

-----------------------------------------------------------------------------
(* One job at a time, and nothing fails.                                   *)

Alone ==
    /\ \A p, q \in Procs : p = q
    /\ \A s, t \in Threads : s = t
    /\ MaxFaults = 0

\* What MembersKnown says of a group between jobs.
Known(k) ==
    \/ srg[k] = NoGroup
    \/ disk.groups[k] = NoRow /\ k \in deleting
    \/ disk.groups[k] \notin {NoRow, NULL} /\ srg[k] \subseteq disk.groups[k]

InGroup(t, k) ==
    /\ phase[t] \in {"commands", "insert", "update", "commit"}
    /\ job[t].what = "group" /\ Sanitize[job[t].item] = k

\* From srg_create to the commit of its userlist ejabberd may be ahead of the cache.
Rebuilding(t, k) == InGroup(t, k) \/ (phase[t] = "members" /\ Sanitize[job[t].item] = k)

Response(t) == job[t].resp.groups[job[t].item]

\* Which row is written where, and what the commands do: those for a group add
\* members of the response only, those at the end add nobody.
Ordered(t) ==
    /\ phase[t] = "begin" => job[t].what \in {"hash", "name"}
    /\ phase[t] = "commands" => job[t].what \in {"group", "list"}
    /\ phase[t] = "commands" => \A c \in job[t].cmds :
          IF job[t].what = "group"
          THEN c[3] = Sanitize[job[t].item] /\ (c[1] = "add" => c[2] \in Response(t))
          ELSE c[1] = "del"

\* Who is in the group but not in the response is about to be deleted.
Expelled(t, k) ==
    InGroup(t, k) => \/ srg[k] = NoGroup
                     \/ \A v \in srg[k] :
                           \/ v \in Response(t)
                           \/ phase[t] = "commands" /\ <<"del", v, k>> \in job[t].cmds

\* What the transaction of the job has written.
Written(t, k) ==
    /\ buf.groups[k] # disk.groups[k] => InGroup(t, k) /\ phase[t] \in {"update", "commit"}
    /\ InGroup(t, k) /\ phase[t] = "update" => buf.groups[k] # NoRow
    /\ InGroup(t, k) /\ phase[t] = "commit" => buf.groups[k] = Response(t)

KnownInv ==
    \A t \in Threads :
        /\ Ordered(t)
        /\ \A k \in Keys : (Rebuilding(t, k) \/ Known(k)) /\ Expelled(t, k) /\ Written(t, k)

\* Before the commit of the response hash a job has processed nothing; after it
\* the hash runs ahead of what is finished until the job ends, for ever if the
\* response is not well formed.
Before(t) ==
    \/ phase[t] = "hash"
    \/ phase[t] \in {"begin", "insert", "update", "commit"} /\ job[t].what = "hash"

Working(t, u) == phase[t] # "idle" /\ ~Before(t) /\ job[t].user = u

HashKnown(t, u, row) ==
    row # NoRow /\ row.hash # NULL /\ WellFormed(row.hash) =>
        row.hash = IF Working(t, u) THEN job[t].resp ELSE done[u]

HashWritten(t, u) == phase[t] = "commit" /\ job[t].what = "hash" /\ job[t].user = u

HashInv ==
    \A t \in Threads, u \in Users :
        /\ HashKnown(t, u, disk.info[u])
        /\ IF HashWritten(t, u)
           THEN buf.info[u] = NoRow \/ buf.info[u].hash = job[t].resp
           ELSE HashKnown(t, u, buf.info[u])

\* Between the commit of a name and set_vcard the cache is ahead of ejabberd.
NameKnown(t, u, row) ==
    row # NoRow /\ row.name \in Names =>
        row.name = IF phase[t] = "vcard" /\ job[t].item = u
                   THEN job[t].resp.names[u] ELSE vcard[u]

NameWritten(t, u) == phase[t] = "commit" /\ job[t].what = "name" /\ job[t].item = u

NameInv ==
    \A t \in Threads, u \in Users :
        /\ NameKnown(t, u, disk.info[u])
        /\ IF NameWritten(t, u)
           THEN buf.info[u] = NoRow \/ buf.info[u].name = job[t].resp.names[u]
           ELSE NameKnown(t, u, buf.info[u])

\* A transaction that a name has left open is in the way of the next job at its
\* first BEGIN: no job gets further.
Usable ==
    \A t \in Threads :
        \/ phase[t] \in {"work", "create", "members", "commands", "vcard"}
        \/ phase[t] = "begin" /\ job[t].what # "hash"
        => ~open[ProcOf[t]]

AloneInv == IInv /\ Usable /\ KnownInv /\ HashInv /\ NameInv

LEMMA AloneFacts ==
    ASSUME Alone, IInv, Usable, NEW t \in Threads
    PROVE  /\ \A s \in Threads : s = t
           /\ ProcOf[t] \in Procs /\ \A p \in Procs : p = ProcOf[t]
           /\ T(t) = buf
           /\ phase[t] = "work" => buf = disk
           /\ NotLocked => buf = disk /\ phase[t] \notin {"update", "commit"}
  <1>1. /\ \A s \in Threads : s = t
        /\ ProcOf[t] \in Procs /\ \A p \in Procs : p = ProcOf[t]
    BY RosterAssumption DEF Alone
  <1>2. ~Writer(ProcOf[t]) => buf = disk
    BY <1>1 DEF IInv, SqlInv
  <1>3. T(t) = buf
    BY <1>2 DEF T, View
  <1>4. phase[t] = "work" => ~open[ProcOf[t]]
    BY DEF Usable
  <1>5. phase[t] = "work" => buf = disk
    BY <1>1, <1>2, <1>4 DEF IInv, SqlInv, Writer
  <1>6. NotLocked => ~Writer(ProcOf[t])
    BY <1>1 DEF NotLocked, Writer
  <1>7. phase[t] \in {"update", "commit"} => Writer(ProcOf[t])
    BY DEF IInv, FillInv, UpsertLocked
  <1>. QED  BY <1>1, <1>2, <1>3, <1>5, <1>6, <1>7

LEMMA NoFault == ASSUME Alone, IInv PROVE ~Fault
BY DEF Alone, IInv, TypeInv, WorldOK, Fault

\* No statement waits, no command fails and no row lacks its userlist; a transaction
\* is in the way at the first BEGIN only.
LEMMA NothingRaises ==
    ASSUME Alone, IInv, Usable, NEW t \in Threads
    PROVE  /\ ~Busy(t) /\ ~CommandRaises(t) /\ ~ \E g \in Groups : ReadGroupRaises(t, g)
           /\ BeginRaises(t) => phase[t] = "begin" /\ job[t].what = "hash"
  <1>1. ~Busy(t)
    BY AloneFacts DEF Busy, SqlCommitBusy, MayRead, MayWrite, MayReserve, MayExclude
  <1>2. BeginRaises(t) => phase[t] = "begin" /\ job[t].what = "hash"
    BY DEF BeginRaises, ReadyToWrite, Usable
  <1>3. ASSUME NEW g \in Groups, ReadGroupRaises(t, g) PROVE FALSE
    <2>1. phase[t] = "work" /\ T(t).groups[Sanitize[g]] = NULL /\ Sanitize[g] \in Keys
      BY <1>3, RosterAssumption DEF ReadGroupRaises, NextGroup
    <2>. QED  BY <2>1, AloneFacts DEF IInv, FillInv, GroupRowsComplete
  <1>4. ~CommandRaises(t)
    BY NoFault DEF CommandRaises
  <1>. QED  BY <1>1, <1>2, <1>3, <1>4

\* The job is at a group.
AtGroup(t) ==
    \/ phase[t] = "members"
    \/ phase[t] \in {"commands", "insert", "update", "commit"} /\ job[t].what = "group"

\* A step aside of the groups.
LEMMA GroupsAside ==
    ASSUME Alone, KnownInv, NEW t \in Threads, UNCHANGED <<srg, deleting>>,
           disk'.groups = disk.groups, buf'.groups = buf.groups,
           ~AtGroup(t), ~AtGroup(t)', Ordered(t)'
    PROVE  KnownInv'
  <1>1. \A s \in Threads : s = t
    BY DEF Alone
  <1>2. ASSUME NEW k \in Keys
        PROVE  (Rebuilding(t, k) \/ Known(k))' /\ Expelled(t, k)' /\ Written(t, k)'
    <2>1. ~Rebuilding(t, k) /\ ~InGroup(t, k) /\ ~InGroup(t, k)'
      BY DEF AtGroup, Rebuilding, InGroup
    <2>2. Known(k)' /\ Expelled(t, k)' /\ Written(t, k)'
      BY <2>1 DEF KnownInv, Known, Expelled, Written
    <2>. QED  BY <2>2
  <1>. QED  BY <1>1, <1>2 DEF KnownInv

\* A step that leaves the job and its groups alone.
LEMMA GroupsStay ==
    ASSUME KnownInv, UNCHANGED <<phase, job, srg, deleting>>,
           disk'.groups = disk.groups, buf'.groups = buf.groups
    PROVE  KnownInv'
BY DEF KnownInv, Ordered, Rebuilding, InGroup, Known, Expelled, Written, Response

\* A step of a job that writes neither the hashes nor what is finished.
LEMMA HashAside ==
    ASSUME Alone, HashInv, NEW t \in Threads, UNCHANGED done,
           disk'.info = disk.info, buf'.info = buf.info,
           phase[t] # "commit", phase'[t] # "commit",
           \A u \in Users : /\ Working(t, u)' <=> Working(t, u)
                            /\ Working(t, u) => job'[t].resp = job[t].resp
    PROVE  HashInv'
  <1>1. \A s \in Threads : s = t
    BY DEF Alone
  <1>2. ASSUME NEW u \in Users
        PROVE  HashKnown(t, u, disk.info[u])' /\ HashKnown(t, u, buf.info[u])'
    BY <1>2 DEF HashInv, HashKnown, HashWritten
  <1>. QED  BY <1>1, <1>2 DEF HashInv, HashWritten

LEMMA HashStays ==
    ASSUME HashInv, UNCHANGED <<phase, job, done>>,
           disk'.info = disk.info, buf'.info = buf.info
    PROVE  HashInv'
BY DEF HashInv, HashKnown, HashWritten, Working, Before

LEMMA AloneType ==
    ASSUME AloneInv, NEW t \in Threads
    PROVE  /\ IInv /\ TypeInv /\ Usable /\ KnownInv /\ HashInv
           /\ phase \in [Threads -> Phases] /\ job \in [Threads -> Jobs] /\ job[t] \in Jobs
BY DEF AloneInv, IInv, TypeInv, JobsOK

\* What a read leaves alone.
LEMMA Unwritten ==
    ASSUME NEW p, SqlRead(p) \/ UNCHANGED sqlVars \/ SqlBegin(p)
    PROVE  disk' = disk /\ buf' = buf
BY DEF SqlRead, SqlBegin, sqlVars

LEMMA LoginAlone ==
    ASSUME Alone, AloneInv, NEW t \in Threads, NEW u, NEW r, Login(t, u, r)
    PROVE  KnownInv' /\ HashInv'
  <1>1. /\ phase[t] = "idle" /\ phase'[t] = "hash"
        /\ disk' = disk /\ buf' = buf /\ UNCHANGED <<srg, deleting, done>>
    BY AloneType DEF Login, Goto, sqlVars, NoEjabberd
  <1>2. KnownInv'
    BY <1>1, AloneType, GroupsAside DEF AtGroup, Ordered
  <1>3. HashInv'
    BY <1>1, AloneType, HashAside DEF Working, Before
  <1>. QED  BY <1>2, <1>3

LEMMA ReadHashAlone ==
    ASSUME Alone, AloneInv, NEW t \in Threads, ReadHash(t)
    PROVE  KnownInv' /\ HashInv'
  <1>1. /\ phase[t] = "hash"
        /\ disk' = disk /\ buf' = buf /\ UNCHANGED <<srg, deleting, done>>
    BY Unwritten DEF ReadHash, Same, NoEjabberd
  <1>2. phase'[t] = "idle" \/ (phase'[t] = "begin" /\ job'[t].what = "hash")
    <2>1. CASE End(t)
      BY <2>1, AloneType DEF End, Goto
    <2>2. CASE ~End(t)
      <3>1. /\ phase' = [phase EXCEPT ![t] = "begin"]
            /\ job' = [job EXCEPT ![t].what = "hash", ![t].item = job[t].user]
        BY <2>2 DEF ReadHash, Goto
      <3>. QED  BY <3>1, AloneType DEF Jobs
    <2>. QED  BY <2>1, <2>2
  <1>3. KnownInv'
    BY <1>1, <1>2, AloneType, GroupsAside DEF AtGroup, Ordered
  <1>4. HashInv'
    BY <1>1, <1>2, AloneType, HashAside DEF Working, Before
  <1>. QED  BY <1>3, <1>4

LEMMA ReadNameAlone ==
    ASSUME Alone, AloneInv, NEW t \in Threads, NEW v \in Named, ReadName(t, v)
    PROVE  KnownInv' /\ HashInv'
  <1>1. /\ phase[t] = "work"
        /\ disk' = disk /\ buf' = buf /\ UNCHANGED <<srg, deleting, done>>
    BY Unwritten DEF ReadName, Same, NoEjabberd
  <1>2. /\ phase'[t] = "work" \/ (phase'[t] = "begin" /\ job'[t].what = "name")
        /\ job'[t].user = job[t].user /\ job'[t].resp = job[t].resp
    <2>1. CASE job' = [job EXCEPT ![t].names = @ \ {v}] /\ UNCHANGED phase
      BY <1>1, <2>1, AloneType DEF Jobs
    <2>2. CASE /\ job' = [job EXCEPT ![t].names = @ \ {v}, ![t].what = "name", ![t].item = v]
               /\ Goto(t, "begin")
      BY <2>2, AloneType DEF Jobs, Goto
    <2>. QED  BY <2>1, <2>2 DEF ReadName
  <1>3. KnownInv'
    BY <1>1, <1>2, AloneType, GroupsAside DEF AtGroup, Ordered
  <1>4. HashInv'
    BY <1>1, <1>2, AloneType, HashAside DEF Working, Before
  <1>. QED  BY <1>3, <1>4

LEMMA ReadGrouplistAlone ==
    ASSUME Alone, AloneInv, NEW t \in Threads, ReadGrouplist(t)
    PROVE  KnownInv' /\ HashInv'
  <1>1. /\ phase[t] = "work" /\ phase'[t] = "commands"
        /\ disk' = disk /\ buf' = buf /\ UNCHANGED <<srg, deleting, done>>
    BY Unwritten, AloneType DEF ReadGrouplist, Goto, Same, NoEjabberd
  <1>2. PICK now, gone :
            job' = [job EXCEPT ![t].what = "list", ![t].item = now,
                               ![t].cmds = {<<"del", job[t].user, k>> : k \in gone}]
    BY DEF ReadGrouplist
  <1>3. /\ job'[t].what = "list" /\ job'[t].user = job[t].user
        /\ job'[t].resp = job[t].resp
        /\ job'[t].cmds = {<<"del", job[t].user, k>> : k \in gone}
    BY <1>2, AloneType DEF Jobs
  <1>4. \A c \in job'[t].cmds : c[1] = "del"
    BY <1>3
  <1>5. KnownInv'
    BY <1>1, <1>3, <1>4, AloneType, GroupsAside DEF AtGroup, Ordered
  <1>6. HashInv'
    BY <1>1, <1>3, AloneType, HashAside DEF Working, Before
  <1>. QED  BY <1>5, <1>6

LEMMA SetVcardAlone ==
    ASSUME Alone, AloneInv, NEW t \in Threads, SetVcard(t)
    PROVE  KnownInv' /\ HashInv'
  <1>1. /\ phase[t] = "vcard" /\ phase'[t] = "work" /\ job' = job
        /\ disk' = disk /\ buf' = buf /\ UNCHANGED <<srg, deleting, done>>
    BY AloneType DEF SetVcard, Goto, sqlVars, Same
  <1>2. KnownInv'
    BY <1>1, AloneType, GroupsAside DEF AtGroup, Ordered
  <1>3. HashInv'
    BY <1>1, AloneType, HashAside DEF Working, Before
  <1>. QED  BY <1>2, <1>3

\* What the commands make of the previous members.
LEMMA CommandsExpel ==
    ASSUME NEW t \in Threads, NEW g, NEW previous, NEW c \in GroupCommands(t, g, previous)
    PROVE  /\ c[3] = Sanitize[g] /\ (c[1] = "add" => c[2] \in job[t].resp.groups[g])
           /\ c[1] \in {"add", "del"}
BY DEF GroupCommands

\* A job comes to the commands of a group, of which it knows all members.
LEMMA CommandsAlone ==
    ASSUME Alone, AloneInv, NEW t \in Threads, NEW g \in Groups, NEW previous,
           phase[t] \in {"work", "members"}, phase'[t] = "commands",
           phase[t] = "members" => job[t].item = g,
           job'[t].what = "group", job'[t].item = g,
           job'[t].cmds = GroupCommands(t, g, previous),
           job'[t].user = job[t].user, job'[t].resp = job[t].resp,
           disk' = disk, buf' = buf, UNCHANGED <<srg, deleting, done>>,
           srg[Sanitize[g]] = NoGroup \/ srg[Sanitize[g]] \subseteq previous
    PROVE  KnownInv' /\ HashInv'
  <1>. DEFINE k == Sanitize[g]
  <1>1. /\ job'[t].what = "group" /\ job'[t].item = g /\ job'[t].user = job[t].user
        /\ job'[t].resp = job[t].resp /\ job'[t].cmds = GroupCommands(t, g, previous)
    OBVIOUS
  <1>2. k \in Keys /\ \A s \in Threads : s = t
    BY RosterAssumption DEF Alone
  <1>3. Ordered(t)'
    <2>1. \A c \in job'[t].cmds :
             c[3] = Sanitize[g] /\ (c[1] = "add" => c[2] \in job[t].resp.groups[g])
      BY <1>1, CommandsExpel
    <2>. QED  BY <1>1, <2>1 DEF Ordered, Response
  <1>4. ASSUME NEW x \in Keys
        PROVE  (Rebuilding(t, x) \/ Known(x))' /\ Expelled(t, x)' /\ Written(t, x)'
    <2>1. InGroup(t, x)' <=> x = k
      BY <1>1 DEF InGroup
    <2>2. ~InGroup(t, x) /\ (Rebuilding(t, x) => x = k)
      BY DEF InGroup, Rebuilding
    <2>3. Rebuilding(t, x)' \/ Known(x)'
      BY <2>1, <2>2 DEF Rebuilding, AloneInv, KnownInv, Known
    <2>4. Expelled(t, x)'
      <3>1. ASSUME x = k, NEW v \in srg[k], v \in previous, v \notin job[t].resp.groups[g]
            PROVE  <<"del", v, x>> \in job'[t].cmds
        BY <1>1, <3>1 DEF GroupCommands
      <3>. QED  BY <1>1, <2>1, <3>1 DEF Expelled, Response
    <2>5. Written(t, x)'
      BY <2>2 DEF Written, AloneInv, KnownInv
    <2>. QED  BY <2>3, <2>4, <2>5
  <1>5. KnownInv'
    BY <1>2, <1>3, <1>4 DEF KnownInv
  <1>6. HashInv'
    BY <1>1, AloneType, HashAside DEF Working, Before
  <1>. QED  BY <1>5, <1>6

LEMMA ReadGroupAlone ==
    ASSUME Alone, AloneInv, NEW t \in Threads, NEW g \in Groups, ReadGroup(t, g)
    PROVE  KnownInv' /\ HashInv'
  <1>. DEFINE k == Sanitize[g]
  <1>. DEFINE userlist == T(t).groups[k]
  <1>1. /\ phase[t] = "work" /\ k \in Keys /\ userlist # NULL
        /\ disk' = disk /\ buf' = buf /\ UNCHANGED <<srg, deleting, done>>
    BY Unwritten, RosterAssumption DEF ReadGroup, NextGroup, Same, NoEjabberd
  <1>2. CASE userlist = NoRow
    <2>1. job' = [job EXCEPT ![t].item = g] /\ phase'[t] = "create"
      BY <1>2, AloneType DEF ReadGroup, Goto
    <2>2. job'[t].user = job[t].user /\ job'[t].resp = job[t].resp
      BY <2>1, AloneType DEF Jobs
    <2>3. KnownInv'
      BY <1>1, <2>1, AloneType, GroupsAside DEF AtGroup, Ordered
    <2>4. HashInv'
      BY <1>1, <2>1, <2>2, AloneType, HashAside DEF Working, Before
    <2>. QED  BY <2>3, <2>4
  <1>3. CASE userlist # NoRow
    <2>1. /\ job' = [job EXCEPT ![t].what = "group", ![t].item = g,
                                ![t].cmds = GroupCommands(t, g, userlist)]
          /\ phase'[t] = "commands"
      BY <1>3, AloneType DEF ReadGroup, Goto
    <2>2. userlist = disk.groups[k]
      BY <1>1, AloneType, AloneFacts
    <2>3. Known(k)
      BY <1>1, AloneType DEF KnownInv, Rebuilding, InGroup
    <2>4. srg[k] = NoGroup \/ srg[k] \subseteq userlist
      BY <1>3, <2>2, <2>3 DEF Known
    <2>. HIDE DEF userlist
    <2>5. /\ job'[t].what = "group" /\ job'[t].item = g /\ job'[t].user = job[t].user
          /\ job'[t].resp = job[t].resp /\ job'[t].cmds = GroupCommands(t, g, userlist)
      BY <2>1, AloneType DEF Jobs
    <2>6. phase[t] \in {"work", "members"} /\ phase[t] # "members" /\ phase'[t] = "commands"
      BY <1>1, <2>1
    <2>. QED  BY <1>1, <2>4, <2>5, <2>6, CommandsAlone
  <1>. QED  BY <1>2, <1>3

LEMMA CreateAlone ==
    ASSUME Alone, AloneInv, NEW t \in Threads, Create(t)
    PROVE  KnownInv' /\ HashInv'
  <1>. DEFINE k == Sanitize[job[t].item]
  <1>1. /\ phase[t] = "create" /\ phase'[t] = "members" /\ job' = job
        /\ disk' = disk /\ buf' = buf /\ UNCHANGED <<deleting, done>>
    BY AloneType DEF Create, Goto, sqlVars, Same
  <1>2. \A x \in Keys \ {k} : srg'[x] = srg[x]
    BY AloneType DEF Create, Created, TypeInv, WorldOK
  <1>3. \A s \in Threads : s = t
    BY DEF Alone
  <1>4. ASSUME NEW x \in Keys
        PROVE  (Rebuilding(t, x) \/ Known(x))' /\ Expelled(t, x)' /\ Written(t, x)'
    <2>1. ~InGroup(t, x)' /\ ~InGroup(t, x) /\ ~Rebuilding(t, x) /\ (x = k => Rebuilding(t, x)')
      BY <1>1 DEF InGroup, Rebuilding
    <2>2. x # k => Known(x)'
      BY <1>1, <1>2, <2>1, AloneType DEF KnownInv, Known
    <2>3. Expelled(t, x)' /\ Written(t, x)'
      BY <1>1, <2>1, AloneType DEF KnownInv, Expelled, Written
    <2>. QED  BY <2>1, <2>2, <2>3
  <1>5. KnownInv'
    BY <1>1, <1>3, <1>4 DEF KnownInv, Ordered
  <1>6. HashInv'
    BY <1>1, AloneType, HashAside DEF Working, Before
  <1>. QED  BY <1>5, <1>6

LEMMA MembersAlone ==
    ASSUME Alone, AloneInv, NEW t \in Threads, Members(t)
    PROVE  KnownInv' /\ HashInv'
  <1>. DEFINE g == job[t].item
  <1>. DEFINE k == Sanitize[g]
  <1>. DEFINE previous == IF srg[k] = NoGroup THEN {} ELSE srg[k]
  <1>1. /\ phase[t] = "members" /\ phase'[t] = "commands" /\ g \in Groups
        /\ disk' = disk /\ buf' = buf /\ UNCHANGED <<srg, deleting, done>>
    <2>1. phase[t] = "members" /\ phase'[t] = "commands"
      BY AloneType DEF Members, Goto
    <2>2. g \in Groups
      BY <2>1, AloneType, OfJob, ResponseFields DEF Fit, Aim
    <2>. QED  BY <2>1, <2>2 DEF Members, sqlVars, Same
  <1>2. job' = [job EXCEPT ![t].what = "group", ![t].cmds = GroupCommands(t, g, previous)]
    BY NoFault, AloneType DEF Members
  <1>. HIDE DEF previous
  <1>3. /\ job'[t].what = "group" /\ job'[t].item = g /\ job'[t].user = job[t].user
        /\ job'[t].resp = job[t].resp /\ job'[t].cmds = GroupCommands(t, g, previous)
    BY <1>2, AloneType DEF Jobs
  <1>4. srg[k] = NoGroup \/ srg[k] \subseteq previous
    BY DEF previous
  <1>. QED  BY <1>1, <1>3, <1>4, CommandsAlone

LEMMA ExecuteAlone ==
    ASSUME Alone, AloneInv, NEW t \in Threads, NEW cmd \in Commands, Execute(t, cmd)
    PROVE  KnownInv' /\ HashInv'
  <1>1. /\ phase[t] = "commands" /\ phase'[t] = "commands" /\ cmd \in job[t].cmds
        /\ disk' = disk /\ buf' = buf /\ UNCHANGED <<deleting, done>>
    BY DEF Execute, Due, sqlVars, Same
  <1>2. /\ job'[t].what = job[t].what /\ job'[t].item = job[t].item
        /\ job'[t].user = job[t].user /\ job'[t].resp = job[t].resp
        /\ job'[t].cmds = job[t].cmds \ {cmd}
    BY AloneType DEF Execute, Jobs
  <1>3. srg' = Obeyed(cmd)
    BY NoFault, AloneType DEF Execute
  <1>4. /\ cmd[1] \in {"add", "del"} /\ cmd[2] \in Users /\ cmd[3] \in Keys
        /\ cmd = <<cmd[1], cmd[2], cmd[3]>>
    BY DEF Commands
  <1>5. /\ \A x \in Keys : srg[x] = NoGroup => srg'[x] = NoGroup
        /\ \A x \in Keys : x # cmd[3] => srg'[x] = srg[x]
        /\ srg[cmd[3]] # NoGroup =>
              srg'[cmd[3]] = IF cmd[1] = "add" THEN srg[cmd[3]] \cup {cmd[2]}
                             ELSE srg[cmd[3]] \ {cmd[2]}
    BY <1>3, <1>4, AloneType DEF Obeyed, TypeInv, WorldOK
  <1>6. Ordered(t) /\ Ordered(t)'
    BY <1>1, <1>2, AloneType DEF KnownInv, Ordered, Response
  <1>7. \A s \in Threads : s = t
    BY DEF Alone
  <1>8. ASSUME NEW x \in Keys
        PROVE  (Rebuilding(t, x) \/ Known(x))' /\ Expelled(t, x)' /\ Written(t, x)'
    <2>0. (Rebuilding(t, x) \/ Known(x)) /\ Expelled(t, x) /\ Written(t, x)
      BY AloneType DEF KnownInv
    <2>1. /\ InGroup(t, x)' <=> InGroup(t, x)
          /\ Rebuilding(t, x)' <=> InGroup(t, x)
          /\ Rebuilding(t, x) <=> InGroup(t, x)
      BY <1>1, <1>2 DEF InGroup, Rebuilding
    <2>2. ASSUME ~InGroup(t, x) PROVE Known(x)'
      <3>1. x # cmd[3] \/ cmd[1] # "add"
        BY <1>1, <1>6, <2>2 DEF Ordered, InGroup
      <3>2. srg[x] # NoGroup => srg'[x] \subseteq srg[x]
        BY <1>5, <3>1
      <3>3. Known(x)
        BY <2>0, <2>1, <2>2
      <3>. QED  BY <1>1, <1>5, <3>2, <3>3 DEF Known
    <2>3. Expelled(t, x)'
      <3>. SUFFICES ASSUME InGroup(t, x), srg'[x] # NoGroup,
                           NEW v \in srg'[x], v \notin Response(t)
                    PROVE  <<"del", v, x>> \in job'[t].cmds
        BY <1>1, <1>2, <2>1 DEF Expelled, Response
      <3>1. srg[x] # NoGroup /\ job[t].what = "group"
        BY <1>5 DEF InGroup
      <3>2. v \in srg[x] /\ ~(x = cmd[3] /\ cmd[1] = "del" /\ v = cmd[2])
        <4>1. ~(x = cmd[3] /\ cmd[1] = "add" /\ v = cmd[2])
          BY <1>1, <1>6, <3>1 DEF Ordered
        <4>. QED  BY <1>4, <1>5, <3>1, <4>1
      <3>3. <<"del", v, x>> \in job[t].cmds
        BY <2>0, <3>1, <3>2 DEF Expelled
      <3>4. <<"del", v, x>> # cmd
        BY <1>4, <3>2
      <3>. QED  BY <1>2, <3>3, <3>4
    <2>4. Written(t, x)'
      BY <1>1, <1>2, <2>0, <2>1 DEF Written, Response
    <2>. QED  BY <2>1, <2>2, <2>3, <2>4
  <1>9. KnownInv'
    BY <1>6, <1>7, <1>8 DEF KnownInv
  <1>10. HashInv'
    BY <1>1, <1>2, AloneType, HashAside DEF Working, Before
  <1>. QED  BY <1>9, <1>10

LEMMA BeginAlone ==
    ASSUME Alone, AloneInv, NEW t \in Threads, Begin(t)
    PROVE  KnownInv' /\ HashInv'
  <1>1. /\ phase[t] \in {"begin", "commands"} /\ phase'[t] = "insert" /\ job' = job
        /\ phase[t] = "commands" => job[t].cmds = {}
        /\ disk' = disk /\ buf' = buf /\ UNCHANGED <<srg, deleting, done>>
    BY Unwritten, AloneType DEF Begin, ReadyToWrite, Goto, Same, NoEjabberd
  <1>2. Ordered(t) /\ Ordered(t)' /\ \A s \in Threads : s = t
    BY <1>1, AloneType DEF KnownInv, Ordered, Alone
  <1>3. ASSUME NEW x \in Keys
        PROVE  (Rebuilding(t, x) \/ Known(x))' /\ Expelled(t, x)' /\ Written(t, x)'
    <2>1. /\ InGroup(t, x)' <=> InGroup(t, x)
          /\ Rebuilding(t, x)' <=> Rebuilding(t, x)
      BY <1>1, <1>2 DEF InGroup, Rebuilding, Ordered
    <2>2. (Rebuilding(t, x) \/ Known(x)) /\ Expelled(t, x) /\ Written(t, x)
      BY AloneType DEF KnownInv
    <2>3. Expelled(t, x)'
      BY <1>1, <2>1, <2>2 DEF Expelled, Response, InGroup
    <2>4. Written(t, x)'
      BY <1>1, <2>1, <2>2 DEF Written
    <2>. QED  BY <1>1, <2>1, <2>2, <2>3, <2>4 DEF Known
  <1>4. KnownInv'
    BY <1>2, <1>3 DEF KnownInv
  <1>5. HashInv'
    BY <1>1, <1>2, AloneType, HashAside DEF Working, Before, Ordered
  <1>. QED  BY <1>4, <1>5

\* Which row of which table the two writes of an upsert change.
LEMMA Upserts ==
    ASSUME AloneInv, NEW t \in Threads, phase[t] \in InUpsert
    PROVE  LET k == Sanitize[job[t].item]
               u == Subject(t)
           IN
           /\ job[t].what = "group" =>
                 /\ Inserted(t).info = T(t).info /\ Updated(t).info = T(t).info
                 /\ \A x \in Keys \ {k} : /\ Inserted(t).groups[x] = T(t).groups[x]
                                          /\ Updated(t).groups[x] = T(t).groups[x]
                 /\ k \in Keys /\ Response(t) \in SUBSET Users
                 /\ Inserted(t).groups[k] # NoRow
                 /\ T(t).groups[k] # NoRow => Updated(t).groups[k] = Response(t)
           /\ job[t].what # "group" =>
                 /\ Inserted(t).groups = T(t).groups /\ Updated(t).groups = T(t).groups
                 /\ \A v \in Users \ {u} : /\ Inserted(t).info[v] = T(t).info[v]
                                           /\ Updated(t).info[v] = T(t).info[v]
                 /\ u \in Users
                 /\ Inserted(t).info[u] = IF T(t).info[u] = NoRow THEN NewInfo
                                          ELSE T(t).info[u]
                 /\ Updated(t).info[u] = IF T(t).info[u] = NoRow THEN NoRow
                                         ELSE Assigned(t, T(t).info[u])
  <1>. DEFINE k == Sanitize[job[t].item]
  <1>. DEFINE u == Subject(t)
  <1>0. /\ T(t) = [info |-> T(t).info, groups |-> T(t).groups]
        /\ T(t).info \in [Users -> InfoRow \cup {NoRow}]
        /\ T(t).groups \in [Keys -> (SUBSET Users) \cup {NULL, NoRow}]
        /\ Fit(phase[t], job[t]) /\ job[t].resp \in Responses /\ job[t].user \in Users
    BY AloneType, OfJob DEF InUpsert, Tables
  <1>1. CASE job[t].what = "group"
    <2>1. k \in Keys /\ Response(t) \in SUBSET Users
      BY <1>0, <1>1, ResponseFields, RosterAssumption DEF Fit, Aim, InUpsert, Response
    <2>2. /\ Inserted(t).info = T(t).info /\ Updated(t).info = T(t).info
          /\ \A x \in Keys \ {k} : /\ Inserted(t).groups[x] = T(t).groups[x]
                                   /\ Updated(t).groups[x] = T(t).groups[x]
      BY <1>0, <1>1, <2>1 DEF Inserted, Updated
    <2>3. /\ Inserted(t).groups[k] = IF T(t).groups[k] = NoRow THEN NULL ELSE T(t).groups[k]
          /\ Updated(t).groups[k] = IF T(t).groups[k] = NoRow THEN NoRow ELSE Response(t)
      BY <1>0, <1>1, <2>1 DEF Inserted, Updated, Response
    <2>. QED  BY <1>1, <2>1, <2>2, <2>3, NullAssumption
  <1>2. CASE job[t].what # "group"
    <2>1. u \in Users
      BY <1>0, <1>2, ResponseFields, RosterAssumption DEF Fit, Aim, InUpsert, Subject
    <2>2. /\ Inserted(t).groups = T(t).groups /\ Updated(t).groups = T(t).groups
          /\ \A v \in Users \ {u} : /\ Inserted(t).info[v] = T(t).info[v]
                                    /\ Updated(t).info[v] = T(t).info[v]
      BY <1>0, <1>2, <2>1 DEF Inserted, Updated
    <2>3. /\ Inserted(t).info[u] = IF T(t).info[u] = NoRow THEN NewInfo ELSE T(t).info[u]
          /\ Updated(t).info[u] = IF T(t).info[u] = NoRow THEN NoRow
                                  ELSE Assigned(t, T(t).info[u])
      BY <1>0, <1>2, <2>1 DEF Inserted, Updated
    <2>. QED  BY <1>2, <2>1, <2>2, <2>3
  <1>. QED  BY <1>1, <1>2

\* The two writes, up to what they write.
LEMMA WriteAlone ==
    ASSUME Alone, AloneInv, NEW t \in Threads, Insert(t) \/ Update(t)
    PROVE  /\ phase[t] \in InUpsert /\ disk' = disk /\ T(t) = buf /\ job' = job
           /\ UNCHANGED <<srg, deleting, done>>
           /\ Insert(t) => phase[t] = "insert" /\ phase'[t] = "update" /\ buf' = Inserted(t)
           /\ Update(t) => phase[t] = "update" /\ phase'[t] = "commit" /\ buf' = Updated(t)
  <1>1. IInv
    BY AloneType
  <1>2. UNCHANGED <<srg, deleting, done, job>>
    BY DEF Insert, Update, Same, NoEjabberd
  <1>3. CASE Insert(t)
    <2>1. /\ phase[t] = "insert" /\ phase[t] \in InUpsert /\ "update" \in InUpsert
          /\ SqlWrite(ProcOf[t], Inserted(t)) /\ Goto(t, "update") /\ job' = job
      BY <1>3 DEF Insert, InUpsert
    <2>2. phase'[t] = "update" /\ buf' = Inserted(t) /\ disk' = disk /\ T(t) = buf
      BY <1>1, <2>1, WriteInside
    <2>. QED  BY <1>2, <2>1, <2>2 DEF Update
  <1>4. CASE Update(t)
    <2>1. /\ phase[t] = "update" /\ phase[t] \in InUpsert /\ "commit" \in InUpsert
          /\ SqlWrite(ProcOf[t], Updated(t)) /\ Goto(t, "commit") /\ job' = job
      BY <1>4 DEF Update, InUpsert
    <2>2. phase'[t] = "commit" /\ buf' = Updated(t) /\ disk' = disk /\ T(t) = buf
      BY <1>1, <2>1, WriteInside
    <2>. QED  BY <1>2, <2>1, <2>2 DEF Insert
  <1>. QED  BY <1>3, <1>4

LEMMA WriteKnown ==
    ASSUME Alone, AloneInv, NEW t \in Threads, Insert(t) \/ Update(t)
    PROVE  KnownInv'
  <1>1. /\ phase[t] \in {"insert", "update"} /\ phase'[t] \in {"update", "commit"}
        /\ disk' = disk /\ T(t) = buf /\ job' = job /\ UNCHANGED <<srg, deleting>>
        /\ phase[t] \in InUpsert
    BY WriteAlone
  <1>2. Ordered(t)' /\ \A s \in Threads : s = t
    BY <1>1 DEF Ordered, Alone
  <1>3. CASE job[t].what # "group"
    <2>1. buf'.groups = buf.groups
      BY <1>1, <1>3, WriteAlone, Upserts
    <2>. QED  BY <1>1, <1>2, <1>3, <2>1, AloneType, GroupsAside DEF AtGroup
  <1>4. CASE job[t].what = "group"
    <2>. DEFINE k == Sanitize[job[t].item]
    <2>1. /\ \A x \in Keys : x # k => buf'.groups[x] = buf.groups[x]
          /\ Insert(t) => buf'.groups[k] # NoRow
          /\ Update(t) /\ buf.groups[k] # NoRow => buf'.groups[k] = Response(t)
      BY <1>1, <1>4, WriteAlone, Upserts
    <2>2. ASSUME NEW x \in Keys
          PROVE  (Rebuilding(t, x) \/ Known(x))' /\ Expelled(t, x)' /\ Written(t, x)'
      <3>1. /\ InGroup(t, x)' <=> x = k
            /\ InGroup(t, x) <=> x = k
            /\ Rebuilding(t, x)' <=> x = k
            /\ Rebuilding(t, x) <=> x = k
        BY <1>1, <1>4 DEF InGroup, Rebuilding
      <3>2. (Rebuilding(t, x) \/ Known(x)) /\ Expelled(t, x) /\ Written(t, x)
        BY AloneType DEF KnownInv
      <3>3. (Rebuilding(t, x) \/ Known(x))' /\ Expelled(t, x)'
        BY <1>1, <3>1, <3>2 DEF Known, Expelled, Response
      <3>4. Written(t, x)'
        <4>1. CASE x # k
          BY <1>1, <2>1, <3>1, <3>2, <4>1 DEF Written
        <4>2. CASE x = k /\ Insert(t)
          BY <2>1, <3>1, <4>2, WriteAlone DEF Written
        <4>3. CASE x = k /\ Update(t)
          BY <1>1, <2>1, <3>1, <3>2, <4>3, WriteAlone DEF Written, Response
        <4>. QED  BY <4>1, <4>2, <4>3
      <3>. QED  BY <3>3, <3>4
    <2>. QED  BY <1>2, <2>2 DEF KnownInv
  <1>. QED  BY <1>3, <1>4

LEMMA WriteHash ==
    ASSUME Alone, AloneInv, NEW t \in Threads, Insert(t) \/ Update(t)
    PROVE  HashInv'
  <1>1. /\ phase[t] \in {"insert", "update"} /\ phase'[t] \in {"update", "commit"}
        /\ disk' = disk /\ T(t) = buf /\ job' = job /\ done' = done
        /\ phase[t] \in InUpsert
    BY WriteAlone
  <1>2. \A u \in Users : Working(t, u)' <=> Working(t, u)
    BY <1>1 DEF Working, Before
  <1>3. ASSUME NEW u \in Users
        PROVE  HashKnown(t, u, disk.info[u]) /\ HashKnown(t, u, buf.info[u])
    BY <1>1 DEF AloneInv, HashInv, HashWritten
  <1>. DEFINE h == Subject(t)
  <1>4. \A u \in Users : buf'.info[u] # buf.info[u] =>
            /\ job[t].what # "group" /\ u = h
            /\ Insert(t) => buf'.info[u] = NewInfo
            /\ Update(t) => buf.info[u] # NoRow /\ buf'.info[u] = Assigned(t, buf.info[u])
    BY <1>1, WriteAlone, Upserts
  <1>5. ASSUME NEW u \in Users
        PROVE  IF HashWritten(t, u)' THEN buf'.info[u] = NoRow \/ buf'.info[u].hash = job[t].resp
               ELSE HashKnown(t, u, buf.info[u])'
    <2>1. CASE Insert(t)
      <3>1. ~HashWritten(t, u)'
        BY <2>1, WriteAlone DEF HashWritten
      <3>2. CASE buf'.info[u] = NewInfo
        BY <3>1, <3>2 DEF HashKnown, NewInfo
      <3>3. CASE buf'.info[u] = buf.info[u]
        BY <1>1, <1>2, <1>3, <3>1, <3>3 DEF HashKnown
      <3>. QED  BY <1>4, <2>1, <3>2, <3>3
    <2>2. CASE Update(t)
      <3>0. phase[t] = "update" /\ phase'[t] = "commit" /\ buf' = Updated(t)
        BY <2>2, WriteAlone
      <3>1. CASE job[t].what = "hash" /\ u = h
        <4>1. buf'.info[u] = NoRow \/ buf'.info[u] = [buf.info[u] EXCEPT !.hash = job[t].resp]
          BY <1>1, <3>0, <3>1, Upserts DEF Assigned
        <4>2. buf.info[u] = NoRow \/ buf.info[u] \in InfoRow
          BY AloneType DEF TypeInv, SqlTypeOK, Tables
        <4>3. buf.info[u] = NoRow => buf'.info[u] = NoRow
          BY <1>1, <3>0, <3>1, Upserts
        <4>. QED  BY <1>1, <3>0, <3>1, <4>1, <4>2, <4>3 DEF HashWritten, Subject, InfoRow
      <3>2. CASE job[t].what # "hash" \/ u # h
        <4>1. ~HashWritten(t, u)'
          BY <1>1, <3>2 DEF HashWritten, Subject
        <4>2. CASE buf'.info[u] = buf.info[u]
          BY <1>1, <1>2, <1>3, <4>1, <4>2 DEF HashKnown
        <4>3. CASE buf'.info[u] # buf.info[u]
          <5>1. /\ job[t].what \in {"name", "list"} /\ buf.info[u] \in InfoRow
                /\ buf'.info[u] = Assigned(t, buf.info[u])
            BY <1>1, <1>4, <2>2, <3>2, <4>3, AloneType, OfJob
               DEF TypeInv, SqlTypeOK, Tables, Fit, Aim, InUpsert
          <5>2. buf'.info[u].hash = buf.info[u].hash
            BY <5>1 DEF Assigned, InfoRow
          <5>3. buf.info[u] # NoRow
            BY <1>4, <2>2, <4>3
          <5>. QED  BY <1>1, <1>2, <1>3, <4>1, <5>2, <5>3 DEF HashKnown
        <4>. QED  BY <4>2, <4>3
      <3>. QED  BY <3>1, <3>2
    <2>. QED  BY <2>1, <2>2
  <1>6. \A u \in Users : HashKnown(t, u, disk.info[u])'
    BY <1>1, <1>2, <1>3 DEF HashKnown
  <1>7. \A s \in Threads : s = t
    BY DEF Alone
  <1>. QED  BY <1>1, <1>5, <1>6, <1>7 DEF HashInv

\* COMMIT, and where the job goes from there.
LEMMA CommitMove ==
    ASSUME Alone, AloneInv, NEW t \in Threads, Commit(t)
    PROVE  /\ phase[t] = "commit" /\ disk' = buf /\ buf' = buf
           /\ UNCHANGED <<srg, deleting>>
           /\ \/ /\ job[t].what = "hash" /\ phase'[t] = "work" /\ done' = done
                 /\ job'[t].user = job[t].user /\ job'[t].resp = job[t].resp
              \/ job[t].what = "name" /\ phase'[t] = "vcard" /\ job' = job /\ done' = done
              \/ /\ job[t].what = "group" /\ phase'[t] = "work" /\ done' = done
                 /\ job'[t].user = job[t].user /\ job'[t].resp = job[t].resp
              \/ /\ job[t].what = "list" /\ phase'[t] = "idle"
                 /\ done' = [done EXCEPT ![job[t].user] = job[t].resp]
  <1>1. phase[t] = "commit" /\ SqlCommit(ProcOf[t]) /\ UNCHANGED <<srg, deleting>>
    BY DEF Commit, Same, NoEjabberd
  <1>2. disk' = buf /\ buf' = buf
    BY <1>1, AloneType, OnlyOwnRow DEF SqlCommit, View
  <1>3. CASE /\ job[t].what = "hash"
             /\ job' = [job EXCEPT ![t].names = WithName(t),
                                   ![t].groups = DOMAIN job[t].resp.groups]
             /\ Goto(t, "work") /\ UNCHANGED done
    BY <1>1, <1>2, <1>3, AloneType DEF Jobs, Goto
  <1>4. CASE job[t].what = "name" /\ Goto(t, "vcard") /\ UNCHANGED <<job, done>>
    BY <1>1, <1>2, <1>4, AloneType DEF Goto
  <1>5. CASE /\ job[t].what = "group"
             /\ job' = [job EXCEPT ![t].groups = @ \ {job[t].item}]
             /\ Goto(t, "work") /\ UNCHANGED done
    BY <1>1, <1>2, <1>5, AloneType DEF Jobs, Goto
  <1>6. CASE /\ job[t].what = "list" /\ End(t)
             /\ done' = [done EXCEPT ![job[t].user] = job[t].resp]
    BY <1>1, <1>2, <1>6, AloneType DEF End, Goto
  <1>. QED  BY <1>3, <1>4, <1>5, <1>6 DEF Commit

LEMMA CommitAlone ==
    ASSUME Alone, AloneInv, NEW t \in Threads, Commit(t)
    PROVE  KnownInv' /\ HashInv'
  <1>1. /\ phase[t] = "commit" /\ disk' = buf /\ buf' = buf /\ UNCHANGED <<srg, deleting>>
        /\ phase'[t] \in {"work", "vcard", "idle"}
    BY CommitMove
  <1>2. \A s \in Threads : s = t
    BY DEF Alone
  <1>3. ASSUME NEW x \in Keys PROVE Known(x)' /\ ~InGroup(t, x)'
    <2>1. (Rebuilding(t, x) \/ Known(x)) /\ Expelled(t, x) /\ Written(t, x)
      BY AloneType DEF KnownInv
    <2>2. CASE InGroup(t, x)
      <3>1. buf.groups[x] = Response(t) /\ Response(t) \in SUBSET Users
        BY <1>1, <2>1, <2>2, Upserts DEF Written, InGroup, InUpsert
      <3>2. srg[x] = NoGroup \/ srg[x] \subseteq Response(t)
        BY <1>1, <2>1, <2>2 DEF Expelled
      <3>. QED  BY <1>1, <3>1, <3>2, NullAssumption DEF Known, InGroup
    <2>3. CASE ~InGroup(t, x)
      BY <1>1, <2>1, <2>3 DEF Written, Known, Rebuilding, InGroup
    <2>. QED  BY <2>2, <2>3
  <1>4. KnownInv'
    <2>1. \A x \in Keys : Expelled(t, x)' /\ Written(t, x)'
      BY <1>1, <1>3 DEF Expelled, Written
    <2>. QED  BY <1>1, <1>2, <1>3, <2>1 DEF KnownInv, Ordered
  <1>5. ASSUME NEW u \in Users PROVE HashKnown(t, u, buf.info[u])'
    <2>0. job[t].user \in Users /\ done \in [Users -> Responses \cup {NULL}]
      BY <1>1, AloneType, OfJob DEF TypeInv, WorldOK
    <2>1. CASE /\ job[t].what = "hash" /\ phase'[t] = "work" /\ done' = done
               /\ job'[t].user = job[t].user /\ job'[t].resp = job[t].resp
      <3>1. IF job[t].user = u THEN buf.info[u] = NoRow \/ buf.info[u].hash = job[t].resp
            ELSE HashKnown(t, u, buf.info[u])
        BY <1>1, <2>1, AloneType DEF HashInv, HashWritten
      <3>2. ~Working(t, u) /\ (Working(t, u)' <=> job[t].user = u)
        BY <1>1, <2>1 DEF Working, Before
      <3>. QED  BY <1>1, <2>1, <3>1, <3>2 DEF HashKnown
    <2>2. CASE /\ job[t].what \in {"name", "group"} /\ phase'[t] \in {"work", "vcard"}
               /\ done' = done
               /\ job'[t].user = job[t].user /\ job'[t].resp = job[t].resp
      <3>1. HashKnown(t, u, buf.info[u])
        BY <1>1, <2>2, AloneType DEF HashInv, HashWritten
      <3>2. Working(t, u)' <=> Working(t, u)
        BY <1>1, <2>2 DEF Working, Before
      <3>. QED  BY <1>1, <2>2, <3>1, <3>2 DEF HashKnown
    <2>3. CASE /\ job[t].what = "list" /\ phase'[t] = "idle"
               /\ done' = [done EXCEPT ![job[t].user] = job[t].resp]
      <3>1. HashKnown(t, u, buf.info[u])
        BY <1>1, <2>3, AloneType DEF HashInv, HashWritten
      <3>2. ~Working(t, u)' /\ (Working(t, u) <=> job[t].user = u)
        BY <1>1, <2>3 DEF Working, Before
      <3>3. done'[u] = IF job[t].user = u THEN job[t].resp ELSE done[u]
        BY <2>0, <2>3
      <3>. QED  BY <1>1, <3>1, <3>2, <3>3 DEF HashKnown
    <2>. QED  BY <2>1, <2>2, <2>3, CommitMove
  <1>6. HashInv'
    BY <1>1, <1>2, <1>5 DEF HashInv, HashWritten
  <1>. QED  BY <1>4, <1>6

\* The scripts write when no transaction is at its update or commit.
LEMMA EditAlone ==
    ASSUME Alone, AloneInv, NEW t \in Threads, NEW c, Edit(c)
    PROVE  /\ disk' = c /\ buf' = c /\ buf = disk
           /\ phase[t] \notin {"update", "commit"}
BY AloneType, AloneFacts DEF Edit

\* What xcdeluser.sh and xcrefreshroster.sh do to rosterinfo.
LEMMA ScriptRows ==
    ASSUME Alone, AloneInv, XcRefreshRoster \/ \E u \in Users : XcDelUser(u), NEW t \in Threads
    PROVE  /\ buf = disk /\ buf' = disk' /\ disk'.groups = disk.groups
           /\ \A u \in Users : \/ disk'.info[u] = disk.info[u]
                               \/ disk'.info[u] = NoRow \/ disk'.info[u] = NewInfo
           /\ UNCHANGED <<phase, job, srg, vcard, deleting, done>>
           /\ phase[t] \notin {"update", "commit"}
  <1>1. PICK i :
            /\ Edit([disk EXCEPT !.info = i])
            /\ \A u \in Users : i[u] = disk.info[u] \/ i[u] = NoRow \/ i[u] = NewInfo
    <2>1. CASE XcRefreshRoster
      <3>. DEFINE i == [u \in Users |-> IF disk.info[u] = NoRow THEN NoRow ELSE NewInfo]
      <3>. HIDE DEF i
      <3>1. Edit([disk EXCEPT !.info = i])
        BY <2>1 DEF XcRefreshRoster, i
      <3>2. \A u \in Users : i[u] = disk.info[u] \/ i[u] = NoRow \/ i[u] = NewInfo
        BY DEF i
      <3>. QED  BY <3>1, <3>2
    <2>2. ASSUME NEW u \in Users, XcDelUser(u)
          PROVE  \E i : /\ Edit([disk EXCEPT !.info = i])
                        /\ \A v \in Users : i[v] = disk.info[v] \/ i[v] = NoRow \/ i[v] = NewInfo
      <3>. DEFINE i == [disk.info EXCEPT ![u] = NoRow]
      <3>1. disk.info \in [Users -> InfoRow \cup {NoRow}]
        BY DEF AloneInv, IInv, TypeInv, SqlTypeOK, Tables
      <3>2. \A v \in Users : i[v] = disk.info[v] \/ i[v] = NoRow \/ i[v] = NewInfo
        BY <3>1
      <3>3. Edit([disk EXCEPT !.info = i])
        BY <2>2 DEF XcDelUser
      <3>. HIDE DEF i
      <3>. QED  BY <3>2, <3>3
    <2>. QED  BY <2>1, <2>2
  <1>. DEFINE c == [disk EXCEPT !.info = i]
  <1>2. disk' = c /\ buf' = c /\ buf = disk /\ phase[t] \notin {"update", "commit"}
    BY <1>1, EditAlone
  <1>3. c.groups = disk.groups /\ c.info = i
    BY DEF AloneInv, IInv, TypeInv, SqlTypeOK, Tables
  <1>4. UNCHANGED <<phase, job, srg, vcard, deleting, done>>
    BY DEF XcRefreshRoster, XcDelUser, Script, Apart
  <1>. QED  BY <1>1, <1>2, <1>3, <1>4

LEMMA ScriptAlone ==
    ASSUME Alone, AloneInv, XcRefreshRoster \/ \E u \in Users : XcDelUser(u)
    PROVE  KnownInv' /\ HashInv'
  <1>1. PICK t \in Threads : \A s \in Threads : s = t
    BY RosterAssumption DEF Alone
  <1>2. KnownInv'
    BY ScriptRows, GroupsStay DEF AloneInv
  <1>3. ASSUME NEW u \in Users PROVE HashKnown(t, u, disk.info[u])' /\ ~HashWritten(t, u)'
    <2>1. HashKnown(t, u, disk.info[u])
      BY DEF AloneInv, HashInv
    <2>2. Working(t, u)' <=> Working(t, u)
      BY ScriptRows DEF Working, Before
    <2>3. ~HashWritten(t, u)'
      BY ScriptRows DEF HashWritten
    <2>. QED  BY <2>1, <2>2, <2>3, ScriptRows DEF HashKnown, NewInfo
  <1>4. HashInv'
    BY <1>1, <1>3, ScriptRows DEF HashInv
  <1>. QED  BY <1>2, <1>4

LEMMA XcDelGroupRowAlone ==
    ASSUME Alone, AloneInv, NEW k \in Keys, XcDelGroupRow(k)
    PROVE  KnownInv' /\ HashInv'
  <1>1. PICK t \in Threads : \A s \in Threads : s = t
    BY RosterAssumption DEF Alone
  <1>2. UNCHANGED <<phase, job, srg, done>> /\ deleting' = deleting \cup {k}
    BY DEF XcDelGroupRow, Script, Apart
  <1>3. CASE Edit([disk EXCEPT !.groups[k] = NoRow])
    <2>. DEFINE c == [disk EXCEPT !.groups[k] = NoRow]
    <2>1. disk' = c /\ buf' = c /\ buf = disk /\ phase[t] \notin {"update", "commit"}
      BY <1>3, EditAlone
    <2>2. /\ c.info = disk.info
          /\ \A x \in Keys : c.groups[x] = IF x = k THEN NoRow ELSE disk.groups[x]
      BY DEF AloneInv, IInv, TypeInv, SqlTypeOK, Tables
    <2>. HIDE DEF c
    <2>3. ASSUME NEW x \in Keys
          PROVE  (Rebuilding(t, x) \/ Known(x))' /\ Expelled(t, x)' /\ Written(t, x)'
      <3>1. (Rebuilding(t, x) \/ Known(x)) /\ Expelled(t, x)
        BY DEF AloneInv, KnownInv
      <3>2. (Rebuilding(t, x) \/ Known(x))'
        BY <1>2, <2>1, <2>2, <3>1 DEF Rebuilding, InGroup, Known
      <3>3. Expelled(t, x)'
        BY <1>2, <3>1 DEF Expelled, InGroup, Response
      <3>4. Written(t, x)'
        BY <1>2, <2>1 DEF Written
      <3>. QED  BY <3>2, <3>3, <3>4
    <2>4. Ordered(t)'
      BY <1>2 DEF AloneInv, KnownInv, Ordered, Response
    <2>5. KnownInv'
      BY <1>1, <2>3, <2>4 DEF KnownInv
    <2>6. HashInv'
      BY <1>2, <2>1, <2>2, HashStays DEF AloneInv
    <2>. QED  BY <2>5, <2>6
  <1>4. CASE UNCHANGED sqlVars
    <2>1. UNCHANGED <<disk, buf>>
      BY <1>4 DEF sqlVars
    <2>2. KnownInv'
      BY <1>2, <2>1
         DEF AloneInv, KnownInv, Ordered, Rebuilding, InGroup, Known, Expelled, Written, Response
    <2>. QED  BY <1>2, <2>1, <2>2, HashStays DEF AloneInv
  <1>. QED  BY <1>3, <1>4 DEF XcDelGroupRow

LEMMA XcDelGroupAlone ==
    ASSUME Alone, AloneInv, NEW k \in Keys, XcDelGroup(k)
    PROVE  KnownInv' /\ HashInv'
  <1>1. /\ UNCHANGED <<disk, buf, phase, job, done>> /\ deleting' = deleting \ {k}
        /\ \A x \in Keys : srg'[x] = IF x = k THEN NoGroup ELSE srg[x]
    BY DEF AloneInv, IInv, TypeInv, WorldOK, XcDelGroup, sqlVars
  <1>2. ASSUME NEW t \in Threads, NEW x \in Keys
        PROVE  (Rebuilding(t, x) \/ Known(x))' /\ Expelled(t, x)' /\ Written(t, x)'
    <2>1. (Rebuilding(t, x) \/ Known(x)) /\ Expelled(t, x) /\ Written(t, x)
      BY DEF AloneInv, KnownInv
    <2>2. Rebuilding(t, x)' \/ Known(x)'
      BY <1>1, <2>1 DEF Rebuilding, InGroup, Known
    <2>3. Expelled(t, x)' /\ Written(t, x)'
      BY <1>1, <2>1 DEF InGroup, Expelled, Written, Response
    <2>. QED  BY <2>2, <2>3
  <1>3. \A t \in Threads : Ordered(t)'
    BY <1>1 DEF AloneInv, KnownInv, Ordered, Response
  <1>4. KnownInv'
    BY <1>2, <1>3 DEF KnownInv
  <1>. QED  BY <1>1, <1>4, HashStays DEF AloneInv

LEMMA NothingAlone ==
    ASSUME AloneInv, UNCHANGED <<disk, buf, phase, job, srg, deleting, done>>
    PROVE  KnownInv' /\ HashInv'
BY GroupsStay, HashStays DEF AloneInv

LEMMA EnvironmentAlone == ASSUME Alone, AloneInv, Environment PROVE KnownInv' /\ HashInv'
  <1>1. ASSUME NEW p \in Procs, Crash(p) PROVE FALSE
    BY <1>1, NoFault DEF Crash, AloneInv
  <1>2. ASSUME NEW u \in Users, NameChange(u) \/ (\E g \in Groups : MemberChange(u, g))
        PROVE  KnownInv' /\ HashInv'
    BY <1>2, NothingAlone DEF NameChange, MemberChange, Apart, sqlVars
  <1>3. ASSUME NEW t \in Threads, NEW u, NEW r, Login(t, u, r)
        PROVE  KnownInv' /\ HashInv'
    BY <1>3, LoginAlone
  <1>. QED  BY <1>1, <1>2, <1>3, ScriptAlone, XcDelGroupRowAlone, XcDelGroupAlone
            DEF Environment

\* What ends a job before its time: a transaction in the way of the first, or a
\* response that is not well formed.
LEMMA AloneRaises ==
    ASSUME Alone, AloneInv, NEW t \in Threads,
           EntryRaises(t) \/ NameRaises(t) \/ BeginRaises(t)
    PROVE  /\ phase'[t] = "idle" /\ disk' = disk /\ buf' = buf
           /\ UNCHANGED <<srg, vcard, deleting, done>>
           /\ \/ phase[t] = "begin" /\ job[t].what = "hash"
              \/ /\ ~WellFormed(job[t].resp) /\ ~AtGroup(t)
                 /\ \/ phase[t] = "work"
                    \/ phase[t] = "update" /\ job[t].what = "name"
                    \/ phase[t] = "vcard" /\ NameOf(t) = Untellable
  <1>1. /\ phase'[t] = "idle" /\ disk' = disk /\ buf' = buf
        /\ UNCHANGED <<srg, vcard, deleting, done>>
    BY AloneType DEF EntryRaises, NameRaises, BeginRaises, End, Goto, Same, NoEjabberd, sqlVars
  <1>2. CASE BeginRaises(t)
    BY <1>1, <1>2, NothingRaises, AloneType
  <1>3. CASE EntryRaises(t)
    BY <1>1, <1>3 DEF EntryRaises, WellFormed, AtGroup
  <1>4. CASE NameRaises(t)
    <2>1. /\ NameOf(t) \in {Untellable, Unstorable}
          /\ \/ phase[t] = "update" /\ job[t].what = "name"
             \/ phase[t] = "vcard"
      BY <1>4 DEF NameRaises, Storable
    <2>2. job[t].item \in DOMAIN job[t].resp.names
      BY <2>1, AloneType, OfJob DEF Fit, Aim
    <2>3. NameOf(t) \notin Names
      BY <2>1, RosterAssumption, BadNamesAssumption DEF Names
    <2>4. ~WellFormed(job[t].resp)
      BY <2>2, <2>3 DEF WellFormed, NameOf
    <2>. QED  BY <1>1, <1>4, <2>1, <2>4 DEF NameRaises, AtGroup
  <1>. QED  BY <1>2, <1>3, <1>4

LEMMA RaisesAlone ==
    ASSUME Alone, AloneInv, NEW t \in Threads,
           EntryRaises(t) \/ NameRaises(t) \/ BeginRaises(t)
    PROVE  KnownInv' /\ HashInv'
  <1>1. KnownInv'
    BY AloneRaises, AloneType, GroupsAside DEF AtGroup, Ordered
  <1>2. \A s \in Threads : s = t
    BY DEF Alone
  <1>3. ASSUME NEW u \in Users
        PROVE  HashKnown(t, u, disk.info[u])' /\ HashKnown(t, u, buf.info[u])'
    <2>1. HashKnown(t, u, disk.info[u]) /\ HashKnown(t, u, buf.info[u])
      BY AloneRaises DEF AloneInv, HashInv, HashWritten
    <2>2. Working(t, u) => ~WellFormed(job[t].resp)
      BY AloneRaises DEF Working, Before
    <2>3. ~Working(t, u)'
      BY AloneRaises DEF Working
    <2>. QED  BY <2>1, <2>2, <2>3, AloneRaises DEF HashKnown
  <1>4. HashInv'
    BY <1>2, <1>3, AloneRaises DEF HashInv, HashWritten
  <1>. QED  BY <1>1, <1>4

LEMMA WorkAlone ==
    ASSUME Alone, AloneInv, NEW t \in Threads, Work(t) PROVE KnownInv' /\ HashInv'
  <1>1. ~Busy(t) /\ ~CommandRaises(t) /\ ~ \E g \in Groups : ReadGroupRaises(t, g)
    BY NothingRaises DEF AloneInv
  <1>. QED  BY <1>1, RaisesAlone, ReadHashAlone, ReadNameAlone, ReadGroupAlone, ReadGrouplistAlone,
               CreateAlone, MembersAlone, ExecuteAlone, SetVcardAlone, BeginAlone,
               WriteKnown, WriteHash, CommitAlone DEF Work

LEMMA NullIsNoName == NULL \notin Names
BY NullAssumption, RosterAssumption DEF Names

\* A step that has nothing to do with names.
LEMMA NameAside ==
    ASSUME Alone, AloneInv, NEW t \in Threads, UNCHANGED vcard,
           disk'.info = disk.info, buf'.info = buf.info,
           phase[t] \notin {"commit", "vcard"}, phase'[t] \notin {"commit", "vcard"}
    PROVE  NameInv'
  <1>1. \A s \in Threads : s = t
    BY DEF Alone
  <1>2. ASSUME NEW u \in Users
        PROVE  NameKnown(t, u, disk.info[u])' /\ NameKnown(t, u, buf.info[u])'
    BY DEF AloneInv, NameInv, NameKnown, NameWritten
  <1>. QED  BY <1>1, <1>2 DEF NameInv, NameWritten

LEMMA NameStays ==
    ASSUME AloneInv, UNCHANGED <<phase, job, vcard>>,
           disk'.info = disk.info, buf'.info = buf.info
    PROVE  NameInv'
BY DEF AloneInv, NameInv, NameKnown, NameWritten

LEMMA SetVcardName ==
    ASSUME Alone, AloneInv, NEW t \in Threads, SetVcard(t) PROVE NameInv'
  <1>1. /\ phase[t] = "vcard" /\ phase'[t] = "work" /\ disk' = disk /\ buf' = buf
        /\ vcard' = [vcard EXCEPT ![job[t].item] = job[t].resp.names[job[t].item]]
        /\ vcard \in [Users -> Names \cup {NULL}]
    BY NoFault, AloneType DEF SetVcard, NameOf, Goto, sqlVars, TypeInv, WorldOK
  <1>2. \A s \in Threads : s = t
    BY DEF Alone
  <1>3. ASSUME NEW u \in Users
        PROVE  NameKnown(t, u, disk.info[u])' /\ NameKnown(t, u, buf.info[u])'
    BY <1>1 DEF AloneInv, NameInv, NameKnown, NameWritten
  <1>. QED  BY <1>1, <1>2, <1>3 DEF NameInv, NameWritten

LEMMA WriteName ==
    ASSUME Alone, AloneInv, NEW t \in Threads, Insert(t) \/ Update(t) PROVE NameInv'
  <1>1. /\ phase[t] \in {"insert", "update"} /\ phase'[t] \in {"update", "commit"}
        /\ disk' = disk /\ T(t) = buf /\ job' = job /\ phase[t] \in InUpsert
    BY WriteAlone
  <1>2. vcard' = vcard
    BY DEF Insert, Update, NoEjabberd
  <1>3. ASSUME NEW u \in Users
        PROVE  /\ NameKnown(t, u, disk.info[u])
               /\ buf.info[u] # NoRow /\ buf.info[u].name \in Names =>
                     buf.info[u].name = vcard[u]
    BY <1>1 DEF AloneInv, NameInv, NameKnown, NameWritten
  <1>4. ASSUME NEW u \in Users
        PROVE  IF NameWritten(t, u)'
               THEN buf'.info[u] = NoRow \/ buf'.info[u].name = job[t].resp.names[u]
               ELSE buf'.info[u] # NoRow /\ buf'.info[u].name \in Names =>
                        buf'.info[u].name = vcard[u]
    <2>1. CASE Insert(t)
      <3>1. ~NameWritten(t, u)'
        BY <2>1, WriteAlone DEF NameWritten
      <3>2. buf'.info[u] = buf.info[u] \/ buf'.info[u] = NewInfo
        BY <1>1, <2>1, WriteAlone, Upserts
      <3>. QED  BY <1>3, <3>1, <3>2, NullIsNoName DEF NewInfo
    <2>2. CASE Update(t)
      <3>0. phase'[t] = "commit" /\ buf' = Updated(t)
        BY <2>2, WriteAlone
      <3>1. buf.info[u] = NoRow \/ buf.info[u] \in InfoRow
        BY AloneType DEF TypeInv, SqlTypeOK, Tables
      <3>2. CASE job[t].what = "name" /\ u = job[t].item
        <4>1. buf'.info[u] = IF buf.info[u] = NoRow THEN NoRow
                             ELSE [buf.info[u] EXCEPT !.name = job[t].resp.names[u]]
          BY <1>1, <3>0, <3>2, Upserts DEF Subject, Assigned, NameOf
        <4>2. NameWritten(t, u)'
          BY <1>1, <3>0, <3>2 DEF NameWritten
        <4>. QED  BY <3>1, <4>1, <4>2 DEF InfoRow
      <3>3. CASE ~(job[t].what = "name" /\ u = job[t].item)
        <4>1. ~NameWritten(t, u)'
          BY <1>1, <3>3 DEF NameWritten
        <4>2. CASE buf'.info[u] # buf.info[u]
          <5>1. /\ job[t].what \in {"hash", "list"} /\ buf.info[u] # NoRow
                /\ buf'.info[u] = Assigned(t, buf.info[u])
            BY <1>1, <3>0, <3>3, <4>2, AloneType, OfJob, Upserts
               DEF Subject, Fit, Aim, InUpsert
          <5>2. buf'.info[u] # NoRow => buf'.info[u].name = buf.info[u].name
            BY <3>1, <5>1 DEF Assigned, InfoRow
          <5>. QED  BY <1>3, <4>1, <5>1, <5>2
        <4>3. CASE buf'.info[u] = buf.info[u]
          BY <1>3, <4>1, <4>3
        <4>. QED  BY <4>2, <4>3
      <3>. QED  BY <3>2, <3>3
    <2>. QED  BY <2>1, <2>2
  <1>5. \A s \in Threads : s = t
    BY DEF Alone
  <1>. QED  BY <1>1, <1>2, <1>3, <1>4, <1>5 DEF NameInv, NameKnown

LEMMA CommitName ==
    ASSUME Alone, AloneInv, NEW t \in Threads, Commit(t) PROVE NameInv'
  <1>1. /\ phase[t] = "commit" /\ disk' = buf /\ buf' = buf
        /\ \/ job[t].what # "name" /\ phase'[t] \in {"work", "idle"}
           \/ job[t].what = "name" /\ phase'[t] = "vcard" /\ job' = job
    BY CommitMove
  <1>2. vcard' = vcard
    BY DEF Commit, NoEjabberd
  <1>3. ASSUME NEW u \in Users PROVE NameKnown(t, u, buf.info[u])'
    <2>1. CASE job[t].what # "name"
      BY <1>1, <1>2, <2>1 DEF AloneInv, NameInv, NameKnown, NameWritten
    <2>2. CASE job[t].what = "name"
      BY <1>1, <1>2, <2>2 DEF AloneInv, NameInv, NameKnown, NameWritten
    <2>. QED  BY <2>1, <2>2
  <1>4. \A s \in Threads : s = t /\ ~ \E u \in Users : NameWritten(s, u)'
    BY <1>1 DEF Alone, NameWritten
  <1>. QED  BY <1>1, <1>3, <1>4 DEF NameInv

LEMMA RaisesName ==
    ASSUME Alone, AloneInv, NEW t \in Threads,
           EntryRaises(t) \/ NameRaises(t) \/ BeginRaises(t)
    PROVE  NameInv'
  <1>1. \A s \in Threads : s = t
    BY DEF Alone
  <1>2. ASSUME NEW u \in Users
        PROVE  NameKnown(t, u, disk.info[u])' /\ NameKnown(t, u, buf.info[u])'
    <2>1. NameKnown(t, u, disk.info[u]) /\ NameKnown(t, u, buf.info[u])
      BY AloneRaises DEF AloneInv, NameInv, NameWritten
    <2>2. Untellable \notin Names
      BY RosterAssumption, BadNamesAssumption DEF Names
    <2>3. phase[t] = "vcard" => NameOf(t) = Untellable
      BY AloneRaises
    <2>. QED  BY <2>1, <2>2, <2>3, AloneRaises DEF NameKnown, NameOf
  <1>. QED  BY <1>1, <1>2, AloneRaises DEF NameInv, NameWritten

\* A job that gets past its first BEGIN leaves no transaction behind but by a name.
LEMMA UsableStep == ASSUME Alone, AloneInv, [Next]_vars PROVE Usable'
  <1>. SUFFICES ASSUME NEW t \in Threads,
                       \/ phase'[t] \in {"work", "create", "members", "commands", "vcard"}
                       \/ phase'[t] = "begin" /\ job'[t].what # "hash"
                PROVE  ~open'[ProcOf[t]]
    BY DEF Usable
  <1>0. /\ \A s \in Threads : s = t
        /\ ProcOf[t] \in Procs /\ IInv /\ Usable
        /\ phase \in [Threads -> Phases] /\ job \in [Threads -> Jobs] /\ job[t] \in Jobs
        /\ open \in [Procs -> BOOLEAN]
    BY AloneType, AloneFacts DEF TypeInv, SqlTypeOK
  <1>1. CASE /\ open' = open
             /\ \/ phase[t] \in {"work", "create", "members", "commands", "vcard"}
                \/ phase[t] = "begin" /\ job[t].what # "hash"
    BY <1>0, <1>1 DEF Usable
  <1>2. CASE Commit(t)
    BY <1>0, <1>2 DEF Commit, SqlCommit
  <1>3. ASSUME Begin(t) \/ Insert(t) \/ Update(t) PROVE FALSE
    BY <1>0, <1>3 DEF Begin, Insert, Update, Goto
  <1>4. ASSUME \/ \E g \in Groups : ReadGroupRaises(t, g)
               \/ EntryRaises(t) \/ NameRaises(t) \/ CommandRaises(t)
               \/ BeginRaises(t) \/ Busy(t)
        PROVE  FALSE
    BY <1>0, <1>4 DEF ReadGroupRaises, EntryRaises, NameRaises, CommandRaises, BeginRaises, Busy,
                      End, Goto
  <1>5. ASSUME ReadHash(t) PROVE FALSE
    <2>1. CASE End(t)
      BY <1>0, <2>1 DEF End, Goto
    <2>2. CASE ~End(t)
      <3>1. /\ phase' = [phase EXCEPT ![t] = "begin"]
            /\ job' = [job EXCEPT ![t].what = "hash", ![t].item = job[t].user]
        BY <1>5, <2>2 DEF ReadHash, Goto
      <3>. QED  BY <1>0, <3>1 DEF Jobs
    <2>. QED  BY <2>1, <2>2
  <1>6. ASSUME \/ ReadGrouplist(t) \/ Create(t) \/ Members(t) \/ SetVcard(t)
               \/ \E v \in Named : ReadName(t, v)
               \/ \E g \in Groups : ReadGroup(t, g)
               \/ \E cmd \in Commands : Execute(t, cmd)
        PROVE  /\ open' = open
               /\ phase[t] \in {"work", "create", "members", "commands", "vcard"}
    BY <1>0, <1>6 DEF ReadGrouplist, Create, Members, SetVcard, ReadName, ReadGroup, NextGroup,
                      Execute, Due, SqlRead, sqlVars
  <1>7. ASSUME NEW u, NEW r, Login(t, u, r) PROVE FALSE
    BY <1>0, <1>7 DEF Login, Goto
  <1>8. ASSUME NEW q \in Procs, Crash(q) PROVE FALSE
    BY <1>0, <1>8, NoFault DEF Crash
  <1>9. ASSUME Environment, ~ \E q \in Procs : Crash(q),
               ~ \E u \in Users : \E r \in Answers(u) : Login(t, u, r)
        PROVE  UNCHANGED <<open, phase, job>>
    BY <1>0, <1>9 DEF Environment, NameChange, MemberChange, XcRefreshRoster, XcDelUser,
                XcDelGroupRow, XcDelGroup, Script, Apart, Edit, sqlVars
  <1>10. CASE UNCHANGED <<open, phase, job>>
    BY <1>1, <1>10
  <1>11. CASE Environment
    BY <1>0, <1>7, <1>8, <1>9, <1>10, <1>11
  <1>12. CASE UNCHANGED vars
    BY <1>10, <1>12 DEF vars
  <1>. QED  BY <1>0, <1>1, <1>2, <1>3, <1>4, <1>5, <1>6, <1>11, <1>12 DEF Next, Work

LEMMA WorkName == ASSUME Alone, AloneInv, NEW t \in Threads, Work(t) PROVE NameInv'
  <1>0. ~Busy(t) /\ ~CommandRaises(t) /\ ~ \E g \in Groups : ReadGroupRaises(t, g)
    BY NothingRaises DEF AloneInv
  <1>1. CASE \/ ReadHash(t) \/ ReadGrouplist(t) \/ Create(t) \/ Members(t)
             \/ \E v \in Named : ReadName(t, v)
             \/ \E g \in Groups : ReadGroup(t, g)
             \/ \E cmd \in Commands : Execute(t, cmd)
    <2>1. phase[t] \in {"hash", "work", "create", "members", "vcard", "commands"}
      BY <1>1, ReadingMoves, AloneType
    <2>2. phase'[t] \in {"idle", "begin", "work", "create", "commands", "members"}
      BY <1>1, ReadingMoves, AloneType
    <2>3. disk' = disk /\ buf' = buf
      BY <1>1, ReadingMoves, AloneType, Unwritten
    <2>4. vcard' = vcard /\ phase[t] # "vcard"
      BY <1>1 DEF ReadHash, ReadGrouplist, Create, Members, ReadName, ReadGroup, NextGroup,
                  Execute, Due, NoEjabberd
    <2>. QED  BY <2>1, <2>2, <2>3, <2>4, NameAside
  <1>2. CASE Begin(t)
    <2>1. /\ phase[t] \in {"begin", "commands"} /\ phase'[t] = "insert"
          /\ disk' = disk /\ buf' = buf /\ vcard' = vcard
      BY <1>2, Unwritten, AloneType DEF Begin, ReadyToWrite, Goto, NoEjabberd
    <2>. QED  BY <2>1, NameAside
  <1>. QED  BY <1>0, <1>1, <1>2, SetVcardName, WriteName, CommitName, RaisesName DEF Work

LEMMA EnvironmentName == ASSUME Alone, AloneInv, Environment PROVE NameInv'
  <1>1. ASSUME NEW p \in Procs, Crash(p) PROVE FALSE
    BY <1>1, NoFault DEF Crash, AloneInv
  <1>2. ASSUME NEW u \in Users, NameChange(u) \/ (\E g \in Groups : MemberChange(u, g))
        PROVE  NameInv'
    BY <1>2, NameStays DEF NameChange, MemberChange, Apart, sqlVars
  <1>3. ASSUME NEW t \in Threads, NEW u, NEW r, Login(t, u, r) PROVE NameInv'
    <2>1. /\ phase[t] = "idle" /\ phase'[t] = "hash"
          /\ disk' = disk /\ buf' = buf /\ vcard' = vcard
      BY <1>3, AloneType DEF Login, Goto, sqlVars, NoEjabberd
    <2>. QED  BY <2>1, NameAside
  <1>4. CASE XcRefreshRoster \/ \E u \in Users : XcDelUser(u)
    <2>1. PICK t \in Threads : \A s \in Threads : s = t
      BY RosterAssumption DEF Alone
    <2>2. ASSUME NEW u \in Users PROVE NameKnown(t, u, disk.info[u])' /\ ~NameWritten(t, u)'
      <3>1. NameKnown(t, u, disk.info[u])
        BY DEF AloneInv, NameInv
      <3>. QED  BY <1>4, <3>1, ScriptRows, NullIsNoName DEF NameKnown, NameWritten, NewInfo
    <2>. QED  BY <1>4, <2>1, <2>2, ScriptRows DEF NameInv
  <1>5. ASSUME NEW k \in Keys, XcDelGroupRow(k) PROVE NameInv'
    <2>1. UNCHANGED <<phase, job, vcard>>
      BY <1>5 DEF XcDelGroupRow, Script, Apart
    <2>2. CASE UNCHANGED sqlVars
      BY <2>1, <2>2, NameStays DEF sqlVars
    <2>3. CASE Edit([disk EXCEPT !.groups[k] = NoRow])
      <3>1. [disk EXCEPT !.groups[k] = NoRow].info = disk.info
        BY DEF AloneInv, IInv, TypeInv, SqlTypeOK, Tables
      <3>2. buf = disk
        BY <2>3, RosterAssumption, EditAlone
      <3>. QED  BY <2>1, <2>3, <3>1, <3>2, NameStays DEF Edit
    <2>. QED  BY <1>5, <2>2, <2>3 DEF XcDelGroupRow
  <1>6. ASSUME NEW k \in Keys, XcDelGroup(k) PROVE NameInv'
    BY <1>6, NameStays DEF XcDelGroup, sqlVars
  <1>. QED  BY <1>1, <1>2, <1>3, <1>4, <1>5, <1>6 DEF Environment

LEMMA AloneInit == Init => AloneInv
  <1>. SUFFICES ASSUME Init PROVE AloneInv
    OBVIOUS
  <1>1. Usable
    BY DEF Init, Usable
  <1>2. KnownInv
    BY DEF Init, SqlInit, KnownInv, Ordered, Rebuilding, InGroup, Known, Expelled, Written
  <1>3. HashInv
    BY DEF Init, SqlInit, EmptyTables, HashInv, HashKnown, HashWritten
  <1>4. NameInv
    BY DEF Init, SqlInit, EmptyTables, NameInv, NameKnown, NameWritten
  <1>. QED  BY <1>1, <1>2, <1>3, <1>4, IInvInit DEF AloneInv

LEMMA AloneNext == ASSUME Alone PROVE AloneInv /\ [Next]_vars => AloneInv'
  <1>. SUFFICES ASSUME AloneInv, [Next]_vars PROVE AloneInv'
    OBVIOUS
  <1>1. IInv' /\ Usable'
    BY IInvNext, UsableStep DEF AloneInv
  <1>2. KnownInv' /\ HashInv'
    <2>1. CASE UNCHANGED vars
      BY <2>1, NothingAlone DEF vars
    <2>. QED  BY <2>1, WorkAlone, EnvironmentAlone DEF Next
  <1>3. NameInv'
    <2>1. CASE UNCHANGED vars
      BY <2>1, NameStays DEF vars
    <2>. QED  BY <2>1, WorkName, EnvironmentName DEF Next
  <1>. QED  BY <1>1, <1>2, <1>3 DEF AloneInv

\* As long as there is one job at a time and nothing fails, whatever the cloud and
\* the administrator do between its steps, the cache knows every member that a job
\* has put into a group of ejabberd: she will be deleted when she leaves it.
THEOREM OneJobKnowsMembers == ASSUME Alone PROVE Spec => []MembersKnown
  <1>1. AloneInv => MembersKnown
    <2>. SUFFICES ASSUME AloneInv, Quiet, NEW k \in Keys PROVE Known(k)
      BY DEF MembersKnown, Known
    <2>1. PICK t \in Threads : TRUE
      BY RosterAssumption
    <2>2. ~Rebuilding(t, k)
      BY DEF Quiet, Rebuilding, InGroup
    <2>. QED  BY <2>2 DEF AloneInv, KnownInv
  <1>2. AloneInv /\ [Next]_vars => AloneInv'
    BY AloneNext
  <1>. QED  BY <1>1, <1>2, AloneInit, PTL DEF Spec

\* Under the same conditions the commit of a user list finds nobody in the group
\* of ejabberd who is not on it.
THEOREM OneJobThrowsOut == ASSUME Alone PROVE Spec => []ThrownOutAtCommit
  <1>1. AloneInv => ThrownOutAtCommit
    <2>. SUFFICES ASSUME AloneInv, NEW t \in Threads, phase[t] = "commit",
                         job[t].what = "group", srg[Sanitize[job[t].item]] # NoGroup
                  PROVE  srg[Sanitize[job[t].item]] \subseteq Response(t)
      BY DEF ThrownOutAtCommit, Response
    <2>1. Sanitize[job[t].item] \in Keys
      BY AloneType, Upserts DEF InUpsert
    <2>. QED  BY <2>1 DEF AloneInv, KnownInv, Expelled, InGroup
  <1>2. AloneInv /\ [Next]_vars => AloneInv'
    BY AloneNext
  <1>. QED  BY <1>1, <1>2, AloneInit, PTL DEF Spec

\* Under the same conditions a name in the cache that a command can carry is that
\* of the vCard, so the logins that find it there need not set it again.
THEOREM OneJobNameMeansVcard == ASSUME Alone PROVE Spec => []NameMeansVcard
  <1>1. AloneInv => NameMeansVcard
    <2>. SUFFICES ASSUME AloneInv, Quiet, NEW u \in Users,
                         disk.info[u] # NoRow, disk.info[u].name \in Names
                  PROVE  vcard[u] = disk.info[u].name
      BY DEF NameMeansVcard
    <2>1. PICK t \in Threads : TRUE
      BY RosterAssumption
    <2>2. phase[t] # "vcard" /\ NameKnown(t, u, disk.info[u])
      BY DEF Quiet, AloneInv, NameInv
    <2>. QED  BY <2>2 DEF NameKnown
  <1>2. AloneInv /\ [Next]_vars => AloneInv'
    BY AloneNext
  <1>. QED  BY <1>1, <1>2, AloneInit, PTL DEF Spec

\* Under the same conditions, and whatever malformed responses and names there are
\* besides, the hash of a well-formed response in the cache is that of the last one
\* of which all the roster work is done: a login that is skipped had nothing to do.
\* Of a malformed response it says nothing: its hash is committed before the thread
\* raises on it (roster.py:57-67, roster_thread.py:54).
THEOREM OneJobHashMeansProcessed == ASSUME Alone PROVE Spec => []HashMeansProcessed
  <1>1. AloneInv => HashMeansProcessed
    <2>. SUFFICES ASSUME AloneInv, Quiet, NEW u \in Users,
                         disk.info[u] # NoRow, disk.info[u].hash # NULL,
                         WellFormed(disk.info[u].hash)
                  PROVE  done[u] = disk.info[u].hash
      BY DEF HashMeansProcessed
    <2>1. PICK t \in Threads : TRUE
      BY RosterAssumption
    <2>2. ~Working(t, u) /\ HashKnown(t, u, disk.info[u])
      BY DEF Quiet, Working, AloneInv, HashInv
    <2>. QED  BY <2>2 DEF HashKnown
  <1>2. AloneInv /\ [Next]_vars => AloneInv'
    BY AloneNext
  <1>. QED  BY <1>1, <1>2, AloneInit, PTL DEF Spec
=============================================================================
