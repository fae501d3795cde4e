------------------------------- MODULE Groups -------------------------------
(***************************************************************************)
(* Client groups (serverinterface/settings.cpp), composed with the         *)
(* settings table of ClientSettings:                                       *)
(*   - groupadd (lines 843-895): a name lookup, the insert into            *)
(*     si_client_groups, and the clone of the global rows and the global   *)
(*     archive schedule into the scope -id. Each statement commits on its  *)
(*     own, so a worker thread takes one step per statement;               *)
(*   - groupremove (lines 677-713): one write transaction;                 *)
(*   - updateClientGroup (lines 429-442), called for "memberof" and        *)
(*     "group_mem_changes" (lines 650-676): the group_id setting, then     *)
(*     clients.groupid, two statements.                                    *)
(* The save actions of ClientSettings run between these steps.             *)
(***************************************************************************)
EXTENDS ClientSettings

CONSTANTS
    Names,    \* group names as posted
    Lower,    \* strlower on names
    NoGroup   \* the absent si_client_groups row

ASSUME GroupsAssumption ==
    /\ Lower \in [Names -> Names]
    /\ NoGroup \notin Names
    /\ NoRow \notin Groups \cup {0}
    /\ c_use_group \in UseInputs

VARIABLES
    groupName,   \* si_client_groups: id -> name, NoGroup when absent
    groupOf,     \* clients.groupid
    groupIdRow,  \* per client: its "group_id" row of settings_db.settings
    archival,    \* scopes with rows in settings_db.automatic_archival
    gpc,         \* per thread: the next statement of groupadd / updateClientGroup
    gid,         \* per thread: the group id of that request
    gnm,         \* per thread: POST["name"] of a groupadd
    gclient      \* per thread: the client of an updateClientGroup

groupVars == <<groupName, groupOf, groupIdRow, archival, gpc, gid, gnm, gclient>>
allVars == <<vars, groupVars>>

GroupSteps == {"idle", "insert", "delrows", "clone", "delarch", "clonearch",
               "setclient"}

GroupsTypeOK ==
    /\ TypeOK
    /\ groupName \in [Groups -> Names \cup {NoGroup}]
    /\ groupOf \in [Clients -> Groups \cup {0}]
    /\ groupIdRow \in [Clients -> Groups \cup {0} \cup {NoRow}]
    /\ archival \subseteq Scopes
    /\ gpc \in [Threads -> GroupSteps]
    /\ gid \in [Threads -> Groups \cup {0}]
    /\ gnm \in [Threads -> Names]
    /\ gclient \in [Threads -> Clients]

GroupsInit ==
    /\ Init
    /\ groupName = [g \in Groups |-> NoGroup]
    /\ groupOf = [c \in Clients |-> 0]
    /\ groupIdRow = [c \in Clients |-> NoRow]
    /\ archival \in {{}, {0}}   \* the global schedule, written by server_archive
    /\ gpc = [t \in Threads |-> "idle"]
    /\ gid = [t \in Threads |-> 0]
    /\ gnm \in [Threads -> Names]
    /\ gclient \in [Threads -> Clients]

Idle(t) == pc[t] = "idle" /\ gpc[t] = "idle"

(* groupadd, lines 843-851: SELECT id FROM si_client_groups WHERE name =   *)
(* strlower(POST["name"]); a hit answers already_exists.                   *)
GroupFind(t, name) ==
    /\ Idle(t)
    /\ gnm' = [gnm EXCEPT ![t] = name]
    /\ gpc' = [gpc EXCEPT ![t] =
                 IF \E g \in Groups : groupName[g] = Lower[name]
                 THEN "idle" ELSE "insert"]
    /\ UNCHANGED <<vars, groupName, groupOf, groupIdRow, archival, gid, gclient>>

(* Lines 853-866: INSERT the name as posted; getLastInsertID is the new    *)
(* id. The schema is outside this excerpt: any id not in use may be given  *)
(* (rowid reuse or AUTOINCREMENT). Groups bounds the id space.             *)
GroupInsert(t) ==
    /\ gpc[t] = "insert"
    /\ \E g \in Groups :
          /\ groupName[g] = NoGroup
          /\ groupName' = [groupName EXCEPT ![g] = gnm[t]]
          /\ gid' = [gid EXCEPT ![t] = g]
    /\ gpc' = [gpc EXCEPT ![t] = "delrows"]
    /\ UNCHANGED <<vars, groupOf, groupIdRow, archival, gnm, gclient>>

(* Mutant: the DELETE of lines 868-871 left out.                          *)
GroupDeleteRowsNoop(t) ==
    /\ gpc[t] = "delrows"
    /\ gpc' = [gpc EXCEPT ![t] = "clone"]
    /\ UNCHANGED <<vars, groupName, groupOf, groupIdRow, archival, gid, gnm, gclient>>

(* Lines 868-871: DELETE FROM settings WHERE clientid = -id.               *)
GroupDeleteRows(t) ==
    LET s == -gid[t] IN
    /\ gpc[t] = "delrows"
    /\ settings' = [r \in DOMAIN settings |->
                      IF r[2] = s THEN NoRow ELSE settings[r]]
    /\ gpc' = [gpc EXCEPT ![t] = "clone"]
    /\ UNCHANGED <<now, pc, reqScope, reqKind, reqNoOk, archiveUpdate,
                   updatePending, stale, groupName, groupOf, groupIdRow, archival, gid,
                   gnm, gclient>>

(* Mutant: the clone writes c_use_value_client for c_use_group.           *)
CloneRowValueClient(row) ==
    IF row = NoRow THEN NoRow ELSE [row EXCEPT !.use = c_use_value_client, !.ver = 0]

(* A global row as cloned into a group scope: use c_use_group, version 0. *)
CloneRow(row) ==
    IF row = NoRow THEN NoRow ELSE [row EXCEPT !.use = c_use_group, !.ver = 0]

(* Lines 873-876: INSERT ... SELECT the global rows into scope -id. A row  *)
(* already at (key, -id) for a cloned key violates the (key, clientid)     *)
(* key and SQLite aborts the whole statement; the failed Write is ignored. *)
GroupClone(t) ==
    LET s == -gid[t]
        clash == \E k \in Keys : settings[<<k, 0>>] # NoRow
                                 /\ settings[<<k, s>>] # NoRow
    IN
    /\ gpc[t] = "clone"
    /\ settings' = IF clash THEN settings
                   ELSE [r \in DOMAIN settings |->
                           IF r[2] = s /\ settings[<<r[1], 0>>] # NoRow
                           THEN CloneRow(settings[<<r[1], 0>>])
                           ELSE settings[r]]
    /\ gpc' = [gpc EXCEPT ![t] = "delarch"]
    /\ UNCHANGED <<now, pc, reqScope, reqKind, reqNoOk, archiveUpdate,
                   updatePending, stale, groupName, groupOf, groupIdRow,
                   archival, gid, gnm, gclient>>

(* Lines 878-881: DELETE FROM automatic_archival WHERE clientid = -id.     *)
GroupDeleteArchival(t) ==
    /\ gpc[t] = "delarch"
    /\ archival' = archival \ {-gid[t]}
    /\ gpc' = [gpc EXCEPT ![t] = "clonearch"]
    /\ UNCHANGED <<vars, groupName, groupOf, groupIdRow, gid, gnm, gclient>>

(* Lines 883-890: clone the global schedule into -id, then                 *)
(* ServerSettings::updateAll invalidates every cache.                      *)
GroupCloneArchival(t) ==
    /\ gpc[t] = "clonearch"
    /\ archival' = IF 0 \in archival THEN archival \cup {-gid[t]} ELSE archival
    /\ stale' = [c \in Clients |-> TRUE]
    /\ gpc' = [gpc EXCEPT ![t] = "idle"]
    /\ UNCHANGED <<settings, now, pc, reqScope, reqKind, reqNoOk,
                   archiveUpdate, updatePending, groupName, groupOf,
                   groupIdRow, gid, gnm, gclient>>

(***************************************************************************)
(* groupremove, lines 677-713, one write transaction: members move to     *)
(* group 0, every group_id row holding the id is set to 0, the group, its *)
(* scope rows and its schedule are deleted; then updateAll.                *)
(***************************************************************************)
GroupRemove(t, g) ==
    /\ Idle(t)
    /\ groupOf' = [c \in Clients |-> IF groupOf[c] = g THEN 0 ELSE groupOf[c]]
    /\ groupIdRow' = [c \in Clients |->
                        IF groupIdRow[c] = g THEN 0 ELSE groupIdRow[c]]
    /\ groupName' = [groupName EXCEPT ![g] = NoGroup]
    /\ settings' = [r \in DOMAIN settings |->
                      IF r[2] = -g THEN NoRow ELSE settings[r]]
    /\ archival' = archival \ {-g}
    /\ stale' = [c \in Clients |-> TRUE]
    /\ UNCHANGED <<now, pc, reqScope, reqKind, reqNoOk, archiveUpdate,
                   updatePending, gpc, gid, gnm, gclient>>

(* updateClientGroup, lines 431-435, with updateSetting (lines 275-329)    *)
(* given no use: the group_id row of the client is inserted, or updated    *)
(* when its value differs. The id comes from watoi(POST[...]) unchecked.   *)
MemberSetting(t, c, g) ==
    /\ Idle(t)
    /\ groupIdRow' = [groupIdRow EXCEPT ![c] = g]
    /\ gid' = [gid EXCEPT ![t] = g]
    /\ gclient' = [gclient EXCEPT ![t] = c]
    /\ gpc' = [gpc EXCEPT ![t] = "setclient"]
    /\ UNCHANGED <<vars, groupName, groupOf, archival, gnm>>

(* updateClientGroup, lines 437-441: UPDATE clients SET groupid.           *)
MemberClient(t) ==
    /\ gpc[t] = "setclient"
    /\ groupOf' = [groupOf EXCEPT ![gclient[t]] = gid[t]]
    /\ gpc' = [gpc EXCEPT ![t] = "idle"]
    /\ UNCHANGED <<vars, groupName, groupIdRow, archival, gid, gnm, gclient>>

(* The saves of ClientSettings by a thread that runs no group statement.   *)
SaveStep ==
    /\ \/ \E t \in Threads, s \in Scopes, p \in Posted, n \in BOOLEAN :
             gpc[t] = "idle" /\ CommitSave(t, s, p, n, "client")
       \/ \E t \in Threads, p \in Posted :
             gpc[t] = "idle" /\ CommitSave(t, 0, p, FALSE, "general")
       \/ \E t \in Threads : Notify(t)
       \/ \E c \in Clients : ClientReload(c) \/ RefreshCache(c) \/ ArchiveUpdated(c)
       \/ Tick
    /\ UNCHANGED groupVars

(* A restart also ends every group statement sequence in flight.          *)
GroupsReboot ==
    /\ Reboot
    /\ gpc' = [t \in Threads |-> "idle"]
    /\ UNCHANGED <<groupName, groupOf, groupIdRow, archival, gid, gnm, gclient>>

GroupsNext ==
    \/ SaveStep
    \/ GroupsReboot
    \/ \E t \in Threads :
          \/ \E n \in Names : GroupFind(t, n)
          \/ GroupInsert(t) \/ GroupDeleteRows(t) \/ GroupClone(t)
          \/ GroupDeleteArchival(t) \/ GroupCloneArchival(t)
          \/ \E g \in Groups : GroupRemove(t, g)
          \/ \E c \in Clients, g \in Groups \cup {0} : MemberSetting(t, c, g)
          \/ MemberClient(t)

GroupsSpec == GroupsInit /\ [][GroupsNext]_allVars

-----------------------------------------------------------------------------
(***************************************************************************)
(* Properties.                                                             *)
(***************************************************************************)

(* groupadd, lines 868-876: when the clone statement of a groupadd of id g *)
(* completes, the scope -g holds exactly the global rows with use          *)
(* c_use_group and version 0, also when g is a reused id whose scope kept  *)
(* rows from an earlier group or a save from a stale page.                 *)
FreshGroupIsGlobalClone ==
    [][\A t \in Threads :
          (gpc[t] = "clone" /\ gpc'[t] = "delarch")
              => \A k \in Keys :
                     settings'[<<k, -gid[t]>>] = CloneRow(settings[<<k, 0>>])]_allVars

(* Spec section 4.5: group names are unique ignoring case (groupadd looks  *)
(* up strlower(name) but inserts the name as posted, lines 846-856).        *)
UniqueGroupNames ==
    \A g1, g2 \in Groups :
        (g1 # g2 /\ groupName[g1] # NoGroup /\ groupName[g2] # NoGroup)
            => Lower[groupName[g1]] # Lower[groupName[g2]]

(* Threads between the insert and the last clone statement of groupadd g.  *)
Provisioning(g) ==
    \E t \in Threads : gpc[t] \in {"delrows", "clone", "delarch", "clonearch"}
                       /\ gid[t] = g

(* Spec section 4.5 and the cascade invariant of section 8: a group scope  *)
(* -g holds rows or a schedule only while group g exists or is being       *)
(* provisioned (saves to -g are not checked against si_client_groups).     *)
GroupScopesBelongToGroups ==
    \A g \in Groups :
        (groupName[g] = NoGroup /\ ~Provisioning(g))
            => /\ \A k \in Keys : settings[<<k, -g>>] = NoRow
               /\ -g \notin archival

====
