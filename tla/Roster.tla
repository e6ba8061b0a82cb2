-------------------------------- MODULE Roster --------------------------------
(***************************************************************************)
(* Shared roster groups: try_roster() of src/xclib/roster.py, the          *)
(* background thread of src/xclib/roster_thread.py that it starts, the     *)
(* tables rosterinfo and rostergroups, the groups kept by ejabberd and the *)
(* administrator's scripts in tools/.                                      *)
(*                                                                         *)
(* A job is the roster work of one login.  The login thread does it up to  *)
(* the commit of the response hash and then, but for the second it waits   *)
(* for the background thread, leaves the rest to that thread: one after    *)
(* the other, so a job is one sequence of steps here.  A step is an SQL    *)
(* statement or an ejabberdctl command.                                    *)
(***************************************************************************)
EXTENDS Sqlite, FiniteSets

CONSTANTS
    Threads,            \* slots for jobs that run at the same time
    ProcOf,             \* the process a slot belongs to
    Users, Groups,
    Keys, Sanitize,     \* the group names after sanitize()
    Named,              \* the users with a display name
    MaxName,            \* bound of the display names of a user
    BadNames,           \* what a response may have as a name besides: one that
    Untellable,         \*   no command can carry (a NUL character), and one that
    Unstorable,         \*   SQLite cannot store (a list, a lone surrogate)
    MaxChanges,         \* bound of the changes in the cloud, uses of the scripts
                        \* and unexpected answers
    MaxFaults,          \* bound of failed commands and crashes
    Tools,              \* TRUE: the administrator uses the scripts
    NULL, NoRow,        \* SQL NULL; there is no row
    NoGroup             \* ejabberd has no such group

ASSUME RosterAssumption ==
    /\ Threads # {} /\ Users # {}
    /\ ProcOf \in [Threads -> Procs]
    /\ Sanitize \in [Groups -> Keys]
    /\ Named \subseteq Users
    /\ {MaxName, MaxChanges, MaxFaults} \subseteq Nat
    /\ Tools \in BOOLEAN

ASSUME BadNamesAssumption ==
    BadNames \subseteq {Untellable, Unstorable} /\ {Untellable, Unstorable} \cap Nat = {}

ASSUME NullAssumption ==
    NULL # NoRow /\ NULL \notin Nat /\ \A U \in SUBSET Users : U # NULL /\ U # NoRow

VARIABLES
    member,             \* the cloud: the members of each group
    cloudName,          \* the cloud: the display name of each user
    srg,                \* ejabberd: the members of each shared roster group
    vcard,              \* ejabberd: the full name in each user's vCard
    phase,              \* where each job is
    job,                \* what it works on
    deleting,           \* the groups xcdelgroup.sh is between its two commands for
    changes, faults,    \* counters for the bounds
    done                \* history: the last response a job of the user has finished

rosterVars == <<member, cloudName, srg, vcard, phase, job, deleting, changes,
                faults, done>>
vars == <<disk, buf, lock, open, member, cloudName, srg, vcard, phase, job,
          deleting, changes, faults, done>>

Names == 0 .. MaxName

-----------------------------------------------------------------------------
(* The answers of the cloud and the tables.                                *)

\* The groups the user is in with their members, and the names of these.
Visible(u) == UNION {member[g] : g \in {h \in Groups : u \in member[h]}}

Snapshot(u) ==
    [form   |-> "roster",
     groups |-> [g \in {h \in Groups : u \in member[h]} |-> member[g]],
     names  |-> [v \in Visible(u) \cap Named |-> cloudName[v]]]

\* A message without data.sharedRoster is handed on whole; nothing is found in
\* this one: [] or {"error": "..."}.
NoFunction == [x \in {} |-> x]
Weird == [form |-> "other", groups |-> NoFunction, names |-> NoFunction]

\* A malformed one, with or without data.sharedRoster, has an entry of another
\* type than the code expects: {"data": null}.
Malformed(resp) == [resp EXCEPT !.form = "malformed"]

\* The background thread gets through the response.
WellFormed(resp) ==
    resp.form # "malformed" /\ \A v \in DOMAIN resp.names : resp.names[v] \in Names

Answers(u) ==
    LET resp == Snapshot(u)
        Misnamed(v, name) == [resp EXCEPT !.names[v] = name]
    IN  {resp, Weird, Malformed(resp)}
            \cup {Misnamed(v, name) : v \in DOMAIN resp.names, name \in BadNames}

Responses ==
    [form : {"roster", "other", "malformed"},
     groups : UNION {[G -> SUBSET Users] : G \in SUBSET Groups},
     names : UNION {[U -> Names \cup BadNames] : U \in SUBSET Named}]

\* rosterinfo; the hash of a response is the response, an empty or NULL grouplist
\* is the empty set.
InfoRow == [name : Names \cup {Untellable, NULL}, groups : SUBSET Keys,
            hash : Responses \cup {NULL}]
NewInfo == [name |-> NULL, groups |-> {}, hash |-> NULL]

\* rostergroups has the userlist as its only column.
Tables == [info : [Users -> InfoRow \cup {NoRow}],
           groups : [Keys -> (SUBSET Users) \cup {NULL, NoRow}]]

EmptyTables == [info |-> [u \in Users |-> NoRow], groups |-> [k \in Keys |-> NoRow]]

Commands == {"add", "del"} \X Users \X Keys

\* "what" is the row a job writes next, "item" the user or group it is about.
Jobs ==
    [user : Users \cup {NULL}, resp : Responses \cup {NULL},
     names : SUBSET Named, groups : SUBSET Groups,
     what : {"hash", "name", "group", "list", NULL},
     item : (SUBSET Keys) \cup Users \cup Groups \cup {NULL}, cmds : SUBSET Commands]

NoJob == [user |-> NULL, resp |-> NULL, names |-> {}, groups |-> {},
          what |-> NULL, item |-> NULL, cmds |-> {}]

Phases == {"idle", "hash", "work", "create", "members", "commands", "begin",
           "insert", "update", "commit", "vcard"}
InUpsert == {"insert", "update", "commit"}

TypeOK ==
    /\ SqlTypeOK(Tables)
    /\ member \in [Groups -> SUBSET Users]
    /\ cloudName \in [Users -> Names]
    /\ srg \in [Keys -> (SUBSET Users) \cup {NoGroup}]
    /\ vcard \in [Users -> Names \cup {NULL}]
    /\ phase \in [Threads -> Phases]
    /\ job \in [Threads -> Jobs]
    /\ \A t \in Threads : phase[t] # "idle" =>
          /\ job[t].user \in Users /\ job[t].resp \in Responses
          /\ job[t].names \subseteq DOMAIN job[t].resp.names
          /\ job[t].groups \subseteq DOMAIN job[t].resp.groups
    /\ deleting \subseteq Keys
    /\ changes \in 0 .. MaxChanges /\ faults \in 0 .. MaxFaults
    /\ done \in [Users -> Responses \cup {NULL}]

Init ==
    /\ SqlInit(EmptyTables)
    /\ member \in [Groups -> SUBSET Users]
    /\ cloudName = [u \in Users |-> 0]
    /\ srg = [k \in Keys |-> NoGroup]
    /\ vcard = [u \in Users |-> NULL]
    /\ phase = [t \in Threads |-> "idle"]
    /\ job = [t \in Threads |-> NoJob]
    /\ deleting = {}
    /\ changes = 0 /\ faults = 0
    /\ done = [u \in Users |-> NULL]

-----------------------------------------------------------------------------
T(t) == View(ProcOf[t])         \* the tables as the job sees them

Goto(t, p) == phase' = [phase EXCEPT ![t] = p]
Same == UNCHANGED <<member, cloudName, deleting, changes>>
NoEjabberd == UNCHANGED <<srg, vcard, faults>>

\* Something the program does not do: a change in the cloud, a use of a script, an
\* answer the code does not expect.
Change == changes < MaxChanges /\ changes' = changes + 1

\* A failure of a command or a process.
Fault == faults < MaxFaults /\ faults' = faults + 1

\* The job is over, by its end or by an exception: both try_roster and the
\* background thread catch everything, and neither rolls back.
End(t) ==
    /\ Goto(t, "idle")
    /\ job' = [job EXCEPT ![t] = NoJob]

\* A user logs in and the cloud answers.
Login(t, u, resp) ==
    /\ phase[t] = "idle"
    /\ job' = [job EXCEPT ![t] = [NoJob EXCEPT !.user = u, !.resp = resp]]
    /\ Goto(t, "hash")
    /\ IF WellFormed(resp) THEN UNCHANGED changes ELSE Change
    /\ UNCHANGED <<sqlVars, member, cloudName, deleting, done>> /\ NoEjabberd

\* Response changed or first response for that user?
ReadHash(t) ==
    /\ phase[t] = "hash"
    /\ SqlRead(ProcOf[t])
    /\ LET row == T(t).info[job[t].user] IN
       IF row # NoRow /\ row.hash = job[t].resp
       THEN End(t)
       ELSE /\ job' = [job EXCEPT ![t].what = "hash", ![t].item = job[t].user]
            /\ Goto(t, "begin")
    /\ UNCHANGED done /\ Same /\ NoEjabberd

-----------------------------------------------------------------------------
(* roster_update_users and roster_update_groups up to their commands.      *)

\* The loop over the users meets the malformed entry, after some of the names.
EntryRaises(t) ==
    /\ phase[t] = "work"
    /\ job[t].resp.form = "malformed"
    /\ End(t)
    /\ UNCHANGED <<sqlVars, done>> /\ Same /\ NoEjabberd

\* The loop over the users is done, and the next group is g.
NextGroup(t, g) ==
    /\ phase[t] = "work"
    /\ job[t].resp.form # "malformed"
    /\ job[t].names = {} /\ g \in job[t].groups

\* The full name of one user of the response.
ReadName(t, v) ==
    /\ phase[t] = "work"
    /\ v \in job[t].names
    /\ SqlRead(ProcOf[t])
    /\ LET row == T(t).info[v] IN
       IF row # NoRow /\ row.name = job[t].resp.names[v]
       THEN /\ job' = [job EXCEPT ![t].names = @ \ {v}]
            /\ UNCHANGED phase
       ELSE /\ job' = [job EXCEPT ![t].names = @ \ {v}, ![t].what = "name",
                                  ![t].item = v]
            /\ Goto(t, "begin")
    /\ UNCHANGED done /\ Same /\ NoEjabberd

\* Variant: nobody is deleted.
GroupCommandsAddOnly(t, g, previous) ==
    {<<"add", v, Sanitize[g]>> : v \in job[t].resp.groups[g] \ previous}

\* The commands that turn the "previous" members into those of the response.
GroupCommands(t, g, previous) ==
    LET current == job[t].resp.groups[g] IN
    {<<"add", v, Sanitize[g]>> : v \in current \ previous}
        \cup {<<"del", v, Sanitize[g]>> : v \in previous \ current}

ReadGroup(t, g) ==
    /\ NextGroup(t, g)
    /\ T(t).groups[Sanitize[g]] # NULL
    /\ SqlRead(ProcOf[t])
    /\ LET userlist == T(t).groups[Sanitize[g]] IN
       IF userlist = NoRow
       THEN /\ job' = [job EXCEPT ![t].item = g]
            /\ Goto(t, "create")
       ELSE /\ job' = [job EXCEPT ![t].what = "group", ![t].item = g,
                                  ![t].cmds = GroupCommands(t, g, userlist)]
            /\ Goto(t, "commands")
    /\ UNCHANGED done /\ Same /\ NoEjabberd

\* Another thread has inserted the row and not yet filled it: None.split().
ReadGroupRaises(t, g) ==
    /\ NextGroup(t, g)
    /\ T(t).groups[Sanitize[g]] = NULL
    /\ SqlRead(ProcOf[t])
    /\ End(t)
    /\ UNCHANGED done /\ Same /\ NoEjabberd

\* The groups of the last login of this user that she is no longer in.
ReadGrouplist(t) ==
    /\ phase[t] = "work"
    /\ job[t].resp.form # "malformed"
    /\ job[t].names = {} /\ job[t].groups = {}
    /\ SqlRead(ProcOf[t])
    /\ LET u == job[t].user
           row == T(t).info[u]
           previous == IF row = NoRow THEN {} ELSE row.groups
           now == {Sanitize[g] : g \in {h \in DOMAIN job[t].resp.groups :
                                           u \in job[t].resp.groups[h]}}
       IN job' = [job EXCEPT ![t].what = "list", ![t].item = now,
                             ![t].cmds = {<<"del", u, k>> : k \in previous \ now}]
    /\ Goto(t, "commands")
    /\ UNCHANGED done /\ Same /\ NoEjabberd

\* srg_create does nothing to a group that exists.
Created(t) ==
    [srg EXCEPT ![Sanitize[job[t].item]] = IF @ = NoGroup THEN {} ELSE @]

Create(t) ==
    /\ phase[t] = "create"
    /\ \/ srg' = Created(t) /\ UNCHANGED faults
       \/ Fault /\ UNCHANGED srg
    /\ Goto(t, "members")
    /\ UNCHANGED <<sqlVars, job, vcard, done>> /\ Same

\* srg_get_members; what cannot be listed has no members.
Members(t) ==
    /\ phase[t] = "members"
    /\ LET g == job[t].item
           listed == srg[Sanitize[g]]
           Previous(users) ==
               job' = [job EXCEPT ![t].what = "group",
                                  ![t].cmds = GroupCommands(t, g, users)]
       IN \/ Previous(IF listed = NoGroup THEN {} ELSE listed) /\ UNCHANGED faults
          \/ Previous({}) /\ Fault
    /\ Goto(t, "commands")
    /\ UNCHANGED <<sqlVars, srg, vcard, done>> /\ Same

-----------------------------------------------------------------------------
(* The commands to ejabberd.  execute() hides that one reports failure.    *)

\* Members of a group that does not exist can neither be added nor deleted.
Obeyed(cmd) ==
    [srg EXCEPT ![cmd[3]] =
        IF @ = NoGroup THEN NoGroup
        ELSE IF cmd[1] = "add" THEN @ \cup {cmd[2]} ELSE @ \ {cmd[2]}]

\* All the additions to a group come before the deletions.
Due(t, cmd) ==
    /\ phase[t] = "commands"
    /\ cmd \in job[t].cmds
    /\ cmd[1] = "del" => \A c \in job[t].cmds : c[1] # "add"

Execute(t, cmd) ==
    /\ Due(t, cmd)
    /\ \/ srg' = Obeyed(cmd) /\ UNCHANGED faults
       \/ Fault /\ UNCHANGED srg
    /\ job' = [job EXCEPT ![t].cmds = @ \ {cmd}]
    /\ UNCHANGED <<sqlVars, phase, vcard, done>> /\ Same

NameOf(t) == job[t].resp.names[job[t].item]

\* Variant: of the user who logs in.
SetVcardOfLogin(t) ==
    /\ phase[t] = "vcard" /\ NameOf(t) # Untellable
    /\ vcard' = [vcard EXCEPT ![job[t].user] = NameOf(t)]
    /\ Goto(t, "work")
    /\ UNCHANGED <<sqlVars, srg, job, faults, done>> /\ Same

\* set_vcard, after the name is in the cache.
SetVcard(t) ==
    /\ phase[t] = "vcard" /\ NameOf(t) # Untellable
    /\ \/ vcard' = [vcard EXCEPT ![job[t].item] = NameOf(t)] /\ UNCHANGED faults
       \/ Fault /\ UNCHANGED vcard
    /\ Goto(t, "work")
    /\ UNCHANGED <<sqlVars, srg, job, done>> /\ Same

\* A command that cannot be started, or whose output is not UTF-8, raises; it was
\* obeyed or not.
CommandRaises(t) ==
    /\ \/ phase[t] = "create" /\ srg' \in {srg, Created(t)}
       \/ phase[t] \in {"members", "vcard"} /\ UNCHANGED srg
       \/ \E cmd \in job[t].cmds : Due(t, cmd) /\ srg' \in {srg, Obeyed(cmd)}
    /\ \/ UNCHANGED vcard
       \/ /\ phase[t] = "vcard" /\ NameOf(t) # Untellable
          /\ vcard' = [vcard EXCEPT ![job[t].item] = NameOf(t)]
    /\ Fault
    /\ End(t)
    /\ UNCHANGED <<sqlVars, done>> /\ Same

-----------------------------------------------------------------------------
(* The transactions, four alike: BEGIN, INSERT OR IGNORE, UPDATE, COMMIT.  *)

\* Variant: the user list is written before all the commands.
ReadyTooEarly(t) == phase[t] \in {"begin", "commands"}

ReadyToWrite(t) ==
    \/ phase[t] = "begin"
    \/ phase[t] = "commands" /\ job[t].cmds = {}

\* Variants: BEGIN is skipped if the connection is in a transaction already; it
\* is left out.
BeginJoins(t) ==
    /\ ReadyToWrite(t)
    /\ open' = [open EXCEPT ![ProcOf[t]] = TRUE]
    /\ UNCHANGED <<disk, buf, lock>>
    /\ Goto(t, "insert")
    /\ UNCHANGED <<job, done>> /\ Same /\ NoEjabberd

BeginLeftOut(t) ==
    /\ ReadyToWrite(t)
    /\ Goto(t, "insert")
    /\ UNCHANGED <<sqlVars, job, done>> /\ Same /\ NoEjabberd

Begin(t) ==
    /\ ReadyToWrite(t)
    /\ SqlBegin(ProcOf[t])
    /\ Goto(t, "insert")
    /\ UNCHANGED <<job, done>> /\ Same /\ NoEjabberd

\* Another thread has a transaction open on the connection they share.
BeginRaises(t) ==
    /\ ReadyToWrite(t)
    /\ open[ProcOf[t]]
    /\ End(t)
    /\ UNCHANGED <<sqlVars, done>> /\ Same /\ NoEjabberd

\* The user whose row of rosterinfo is written.
Subject(t) == IF job[t].what = "name" THEN job[t].item ELSE job[t].user

Inserted(t) ==
    IF job[t].what = "group"
    THEN [T(t) EXCEPT !.groups[Sanitize[job[t].item]] = IF @ = NoRow THEN NULL ELSE @]
    ELSE [T(t) EXCEPT !.info[Subject(t)] = IF @ = NoRow THEN NewInfo ELSE @]

Insert(t) ==
    /\ phase[t] = "insert"
    /\ SqlWrite(ProcOf[t], Inserted(t))
    /\ Goto(t, "update")
    /\ UNCHANGED <<job, done>> /\ Same /\ NoEjabberd

\* The column and its value.
Assigned(t, row) ==
    CASE job[t].what = "hash"   -> [row EXCEPT !.hash = job[t].resp]
      [] job[t].what = "name"   -> [row EXCEPT !.name = NameOf(t)]
      [] job[t].what = "list"   -> [row EXCEPT !.groups = job[t].item]

\* An UPDATE matches nothing if the row is gone.
Updated(t) ==
    IF job[t].what = "group"
    THEN [T(t) EXCEPT !.groups[Sanitize[job[t].item]] =
             IF @ = NoRow THEN NoRow ELSE job[t].resp.groups[job[t].item]]
    ELSE [T(t) EXCEPT !.info[Subject(t)] =
             IF @ = NoRow THEN NoRow ELSE Assigned(t, @)]

Storable(t) == job[t].what = "name" => NameOf(t) # Unstorable

\* A name that UPDATE cannot bind raises inside of the transaction, which stays
\* open; one that set_vcard cannot carry raises after its commit.
NameRaises(t) ==
    /\ \/ phase[t] = "update" /\ ~Storable(t)
       \/ phase[t] = "vcard" /\ NameOf(t) = Untellable
    /\ End(t)
    /\ UNCHANGED <<sqlVars, done>> /\ Same /\ NoEjabberd

\* Variant: commit() is left out, or out of reach.
UpdateAndEnd(t) ==
    /\ phase[t] = "update" /\ Storable(t)
    /\ SqlWrite(ProcOf[t], Updated(t))
    /\ End(t)
    /\ UNCHANGED done /\ Same /\ NoEjabberd

Update(t) ==
    /\ phase[t] = "update" /\ Storable(t)
    /\ SqlWrite(ProcOf[t], Updated(t))
    /\ Goto(t, "commit")
    /\ UNCHANGED <<job, done>> /\ Same /\ NoEjabberd

\* Variant: the background thread is not started.
CommitAndStop(t) ==
    /\ phase[t] = "commit"
    /\ SqlCommit(ProcOf[t])
    /\ End(t)
    /\ UNCHANGED done /\ Same /\ NoEjabberd

\* Variant: "if 'name' in desc" is missing.
WithNameOrWithout(t) == UNION {job[t].resp.groups[g] : g \in DOMAIN job[t].resp.groups}

\* The users of the response that have a name: "if 'name' in desc".
WithName(t) == DOMAIN job[t].resp.names

\* What follows the commit: the background thread is started; the vCard is set;
\* the next group; the end.
Commit(t) ==
    /\ phase[t] = "commit"
    /\ SqlCommit(ProcOf[t])
    /\ \/ /\ job[t].what = "hash"
          /\ job' = [job EXCEPT ![t].names = WithName(t),
                                ![t].groups = DOMAIN job[t].resp.groups]
          /\ Goto(t, "work") /\ UNCHANGED done
       \/ /\ job[t].what = "name"
          /\ Goto(t, "vcard") /\ UNCHANGED <<job, done>>
       \/ /\ job[t].what = "group"
          /\ job' = [job EXCEPT ![t].groups = @ \ {job[t].item}]
          /\ Goto(t, "work") /\ UNCHANGED done
       \/ /\ job[t].what = "list"
          /\ End(t)
          /\ done' = [done EXCEPT ![job[t].user] = job[t].resp]
    /\ Same /\ NoEjabberd

\* Variant: COMMIT waits as long as it takes.
BusyBeforeCommit(t) ==
    /\ \/ phase[t] \in {"hash", "work"} /\ ~MayRead(ProcOf[t])
       \/ phase[t] \in {"insert", "update"} /\ ~MayWrite(ProcOf[t])
    /\ UNCHANGED sqlVars
    /\ End(t)
    /\ UNCHANGED done /\ Same /\ NoEjabberd

\* "database is locked": the job ends, its transaction stays open.
Busy(t) ==
    /\ \/ /\ phase[t] \in {"hash", "work"} /\ ~MayRead(ProcOf[t])
          /\ UNCHANGED sqlVars
       \/ /\ phase[t] \in {"insert", "update"} /\ ~MayWrite(ProcOf[t])
          /\ UNCHANGED sqlVars
       \/ /\ phase[t] = "commit"
          /\ SqlCommitBusy(ProcOf[t])
    /\ End(t)
    /\ UNCHANGED done /\ Same /\ NoEjabberd

-----------------------------------------------------------------------------
(* The environment.                                                        *)

\* A process ends and is started again.
Crash(p) ==
    /\ Fault
    /\ SqlClose(p, disk)
    /\ phase' = [t \in Threads |-> IF ProcOf[t] = p THEN "idle" ELSE phase[t]]
    /\ job' = [t \in Threads |-> IF ProcOf[t] = p THEN NoJob ELSE job[t]]
    /\ UNCHANGED <<srg, vcard, done>> /\ Same

Apart == UNCHANGED <<srg, vcard, phase, job, faults, done>>

\* In the cloud, a user enters or leaves a group, or is renamed.
MemberChange(u, g) ==
    /\ Change
    /\ member' = [member EXCEPT ![g] = IF u \in @ THEN @ \ {u} ELSE @ \cup {u}]
    /\ UNCHANGED <<sqlVars, cloudName, deleting>> /\ Apart

NameChange(u) ==
    /\ Change
    /\ u \in Named /\ cloudName[u] < MaxName
    /\ cloudName' = [cloudName EXCEPT ![u] = @ + 1]
    /\ UNCHANGED <<sqlVars, member, deleting>> /\ Apart

\* The scripts run sqlite3, which does not wait for a lock.
NotLocked == \A p \in Procs : lock[p] = "none"

Edit(tables) ==
    /\ NotLocked
    /\ disk' = tables /\ buf' = tables
    /\ UNCHANGED <<lock, open>>

Script == Tools /\ Change /\ UNCHANGED <<member, cloudName>> /\ Apart

\* xcrefreshroster.sh: UPDATE rosterinfo, all rows.
XcRefreshRoster ==
    /\ Edit([disk EXCEPT !.info =
                 [u \in Users |-> IF disk.info[u] = NoRow THEN NoRow ELSE NewInfo]])
    /\ Script /\ UNCHANGED deleting

XcDelUser(u) ==
    /\ Edit([disk EXCEPT !.info[u] = NoRow])
    /\ Script /\ UNCHANGED deleting

\* xcdelgroup.sh: the row, then the group, even if the row could not be deleted.
XcDelGroupRow(k) ==
    /\ k \notin deleting
    /\ deleting' = deleting \cup {k}
    /\ \/ Edit([disk EXCEPT !.groups[k] = NoRow])
       \/ ~NotLocked /\ UNCHANGED sqlVars
    /\ Script

XcDelGroup(k) ==
    /\ k \in deleting
    /\ deleting' = deleting \ {k}
    /\ srg' = [srg EXCEPT ![k] = NoGroup]
    /\ UNCHANGED <<sqlVars, member, cloudName, vcard, phase, job, changes, faults, done>>

-----------------------------------------------------------------------------
Work(t) ==
    \/ ReadHash(t)
    \/ \E v \in Named : ReadName(t, v)
    \/ \E g \in Groups : ReadGroup(t, g) \/ ReadGroupRaises(t, g)
    \/ EntryRaises(t) \/ ReadGrouplist(t)
    \/ Create(t) \/ Members(t)
    \/ \E cmd \in Commands : Execute(t, cmd)
    \/ SetVcard(t) \/ NameRaises(t) \/ CommandRaises(t)
    \/ Begin(t) \/ BeginRaises(t) \/ Insert(t) \/ Update(t) \/ Commit(t)
    \/ Busy(t)

Environment ==
    \/ \E t \in Threads : \E u \in Users : \E resp \in Answers(u) : Login(t, u, resp)
    \/ \E p \in Procs : Crash(p)
    \/ \E u \in Users : NameChange(u) \/ \E g \in Groups : MemberChange(u, g)
    \/ XcRefreshRoster
    \/ \E u \in Users : XcDelUser(u)
    \/ \E k \in Keys : XcDelGroupRow(k) \/ XcDelGroup(k)

Next == (\E t \in Threads : Work(t)) \/ Environment

Spec == Init /\ [][Next]_vars

\* The operating system runs every thread.
FairSpec == Spec /\ \A t \in Threads : WF_vars(Work(t))

-----------------------------------------------------------------------------
(* Properties.                                                             *)

Quiet == \A t \in Threads : phase[t] = "idle"

\* At most one job of a process is between BEGIN and COMMIT, and the shared
\* connection is in its transaction meanwhile (roster.py:58-67,
\* roster_thread.py:77-85, 138-147, 169-177).
OneTransaction ==
    \A t \in Threads : phase[t] \in InUpsert =>
        /\ open[ProcOf[t]]
        /\ \A s \in Threads \ {t} : ProcOf[s] = ProcOf[t] => phase[s] \notin InUpsert

\* No committed row of rostergroups lacks its userlist: the next login would fail
\* at row['userlist'].split (roster_thread.py:110), and so would every other.
GroupRowsComplete == \A k \in Keys : disk.groups[k] # NULL

\* Between jobs, the cache knows every member of a group in ejabberd, so that
\* she is deleted from it when she is no longer in a response; it knows nothing
\* of a group that xcdelgroup.sh is about to remove (roster_thread.py:106-130).
MembersKnown ==
    Quiet => \A k \in Keys :
        \/ srg[k] = NoGroup
        \/ disk.groups[k] = NoRow /\ k \in deleting
        \/ disk.groups[k] \notin {NoRow, NULL} /\ srg[k] \subseteq disk.groups[k]

\* "Delete the users that we do not know about anymore" (roster_thread.py:96):
\* when a job commits the userlist of a group, nobody else is in the group.
ThrownOutAtCommit ==
    \A t \in Threads : phase[t] = "commit" /\ job[t].what = "group" =>
        LET listed == srg[Sanitize[job[t].item]]
        IN  listed = NoGroup \/ listed \subseteq job[t].resp.groups[job[t].item]

\* "set their full names if not yet defined" (roster_thread.py:46): between jobs, a
\* name in the cache, for which no later login sets the vCard, is that of the
\* vCard, unless it is one that no command can carry.
NameMeansVcard ==
    Quiet => \A u \in Users :
        disk.info[u] # NoRow /\ disk.info[u].name \in Names => vcard[u] = disk.info[u].name

\* The hash that makes a login skip its roster is the "hash of the body returned
\* for the last processed roster request" (doc/Cache.md:44), if that body was one
\* the background thread gets through: the hash of one on which it raises is in
\* the table too, and nothing of its groups is processed.
HashMeansProcessed ==
    Quiet => \A u \in Users :
        disk.info[u] # NoRow /\ disk.info[u].hash # NULL /\ WellFormed(disk.info[u].hash)
            => done[u] = disk.info[u].hash

\* An update of a group adds "the users we know about (idempotent)"
\* (roster_thread.py:97): when it commits, all of them are in the group.
AddedOnUpdate ==
    \A t \in Threads : phase[t] = "commit" /\ job[t].what = "group" =>
        job[t].resp.groups[job[t].item] \subseteq srg[Sanitize[job[t].item]]

\* Users "removed from a group will be thrown out of that group when the first
\* still-member of that group logs in" (doc/Cache.md:67): when such a login skips
\* the roster work, there is nobody to throw out.
ThrownOutOnLogin ==
    \A t \in Threads :
        phase[t] = "hash" /\ T(t).info[job[t].user] # NoRow
            /\ T(t).info[job[t].user].hash = job[t].resp
        => \A g \in DOMAIN job[t].resp.groups :
              \/ srg[Sanitize[g]] = NoGroup
              \/ srg[Sanitize[g]] \subseteq job[t].resp.groups[g]

\* The connection is in a transaction, and no job of the process is.
LeftOpen(p) ==
    open[p] /\ \A t \in Threads : ProcOf[t] = p => phase[t] \notin InUpsert

\* "Reset back to SQLite default of 'autocommit'" (db.py:29-32): in one process, no
\* step leaves a transaction open that nobody will end but an UPDATE that cannot
\* bind its value, after which every BEGIN of the process raises.
LeftOpenOnlyByName ==
    [][\A p \in Procs : ~LeftOpen(p) /\ LeftOpen(p)' =>
          \E t \in Threads : ProcOf[t] = p /\ phase[t] = "update" /\ NameRaises(t)]_vars

\* Every job comes to an end (roster_thread.py:15-39).
JobsEnd == \A t \in Threads : phase[t] # "idle" ~> phase[t] = "idle"
===============================================================================
