--------------------------- MODULE ClientSettings ---------------------------
(***************************************************************************)
(* The per-scope settings table of the UrBackup server and the handler    *)
(* that saves it (serverinterface/settings.cpp):                          *)
(*   - updateSetting: the conflict-aware upsert of one (key, scope) row,   *)
(*     with its use mode and its use_last_modified version;                *)
(*   - updateClientSettings: the per-key normalisation of the requested    *)
(*     use mode against the mergeable / configurable / localized lists;    *)
(*   - the "clientsettings_save" and "general_save" handlers: the write    *)
(*     transaction around updateClientSettings and updateArchiveSettings,  *)
(*     followed, after the commit, by the cache invalidation and the       *)
(*     "UPDATE SETTINGS" message to online clients.                        *)
(* A scope is 0 (global), a client id c > 0 or -g for the group g.         *)
(***************************************************************************)
EXTENDS Integers, FiniteSets

CONSTANTS
    Keys,          \* getSettingsList()
    Configurable,  \* getClientConfigurableSettingsList()
    Mergeable,     \* getClientMergableSettingsList()
    Localized,     \* getLocalizedSettingsList()
    Values,        \* setting values, abstracted to model values
    Clients,       \* ids of the rows of the clients table
    Groups,        \* ids of client groups
    ClientGroup,   \* clients.groupid: the group of each client, 0 for none
    Online,        \* clients with an open comm_pipe in ServerStatus
    Threads,       \* HTTP worker threads running the settings action
    UseInputs,     \* integers a request may post as "<key>.use"
    MaxTime,       \* bound on the server clock
    MaxVer,        \* bound on a stored use_last_modified
    NoRow          \* the absent row

(* The use-mode constants of server_settings.h, which is not among the   *)
(* sources: distinct bits, as q_has_overwrite's tests (use & 2) and       *)
(* (use & 4) for a row with a value of its own suggest (line 747); the    *)
(* model uses them only by name.                                           *)
c_use_undefined == -1
c_use_group == 1
c_use_value == 2
c_use_value_client == 4
c_use_merge == 3   \* c_use_value | c_use_group

Scopes == {0} \cup Clients \cup {-g : g \in Groups}

ASSUME ConstantsAssumption ==
    /\ Configurable \subseteq Keys /\ Mergeable \subseteq Keys
    /\ Localized \subseteq Keys
    /\ Clients \subseteq Nat \ {0} /\ Groups \subseteq Nat \ {0}
    /\ ClientGroup \in [Clients -> Groups \cup {0}]
    /\ Online \subseteq Clients
    /\ UseInputs \subseteq Int /\ c_use_value \in UseInputs
    /\ MaxTime \in Nat /\ MaxVer \in Nat /\ MaxTime <= MaxVer
    /\ NoRow \notin [value : Values, use : UseInputs, ver : Int]

Row == [value : Values, use : UseInputs, ver : 0..MaxVer]

(* A request body: the posted keys, each with its value and "<key>.use";   *)
(* an absent "<key>.use" reads as c_use_value, already in UseInputs.       *)
Field == [value : Values, use : UseInputs]
Posted == UNION {[K -> Field] : K \in SUBSET Keys}

VARIABLES
    settings,       \* settings_db.settings: (key, scope) -> row
    now,            \* Server->getTimeSeconds()
    pc,             \* per thread: "idle" or "notify" (committed, not notified)
    reqScope,       \* per thread: t_clientid of the save being notified
    reqKind,        \* per thread: "client" or "general" save
    reqNoOk,        \* per thread: POST["no_ok"] = "true" (saved_part)
    archiveUpdate,  \* clients with an 'archive_update' row
    updatePending,  \* per client: "UPDATE SETTINGS" waiting in its comm_pipe
    stale           \* per client: ServerSettings cache invalidated

vars == <<settings, now, pc, reqScope, reqKind, reqNoOk, archiveUpdate,
          updatePending, stale>>

(* Mutant: the mergeable check of lines 536-540 left out.                *)
NormalizeUseNoMergeCheck(k, use) ==
    LET u1 == IF use \notin {c_use_value, c_use_group, c_use_merge}
                 /\ k \notin Configurable THEN c_use_value ELSE use
    IN  IF u1 # c_use_value /\ k \in Localized THEN c_use_value ELSE u1

(* Mutant: the localized check of lines 542-543 writes c_use_value_client. *)
NormalizeUseValueClient(k, use) ==
    LET u1 == IF use \notin {c_use_value, c_use_group, c_use_merge}
                 /\ k \notin Configurable THEN c_use_value ELSE use
        u2 == IF u1 \notin {c_use_group, c_use_value, c_use_value_client}
                 /\ k \notin Mergeable THEN c_use_value ELSE u1
    IN  IF u2 # c_use_value /\ k \in Localized THEN c_use_value_client ELSE u2

(***************************************************************************)
(* updateClientSettings, lines 526-543: the requested use mode is forced  *)
(* to c_use_value when it is not one of value/group/merge and the key is   *)
(* not configurable, when it is not one of group/value/value_client and   *)
(* the key is not mergeable, and whenever the key is localized.            *)
(***************************************************************************)
NormalizeUse(k, use) ==
    LET u1 == IF use \notin {c_use_value, c_use_group, c_use_merge}
                 /\ k \notin Configurable THEN c_use_value ELSE use
        u2 == IF u1 \notin {c_use_group, c_use_value, c_use_value_client}
                 /\ k \notin Mergeable THEN c_use_value ELSE u1
    IN  IF u2 # c_use_value /\ k \in Localized THEN c_use_value ELSE u2

(* updateSetting with use and use_last_modified given: the version of an   *)
(* existing row newer than ctime becomes that version + 1; an undefined    *)
(* use adopts the stored one; the row is written only when the value or   *)
(* the use differs. A new row is inserted as requested, version ctime.     *)
(* Mutant: ctime written as the version even below the stored one.        *)
NewVersionNoBump(row, ctime) == ctime

NewVersion(row, ctime) == IF row.ver > ctime THEN row.ver + 1 ELSE ctime

UpdateSetting(row, value, use, ctime) ==
    IF row = NoRow
    THEN [value |-> value, use |-> use, ver |-> ctime]
    ELSE IF row.value # value \/ (use # c_use_undefined /\ row.use # use)
         THEN [value |-> value,
               use |-> IF use = c_use_undefined THEN row.use ELSE use,
               ver |-> NewVersion(row, ctime)]
         ELSE row

(* The table after updateClientSettings(scope, posted) at time ctime.      *)
SavedSettings(scope, posted, ctime) ==
    [r \in Keys \X Scopes |->
        IF r[2] = scope /\ r[1] \in DOMAIN posted
        THEN UpdateSetting(settings[r], posted[r[1]].value,
                           NormalizeUse(r[1], posted[r[1]].use), ctime)
        ELSE settings[r]]

(* updateArchiveSettings: every client for a scope <= 0, else the client. *)
ArchiveTargets(scope) == IF scope <= 0 THEN Clients ELSE {scope}

(* The clients whose effective settings read the rows of a scope.          *)
Affected(scope) ==
    IF scope = 0 THEN Clients
    ELSE IF scope < 0 THEN {c \in Clients : ClientGroup[c] = -scope}
    ELSE {scope}

TypeOK ==
    /\ settings \in [Keys \X Scopes -> Row \cup {NoRow}]
    /\ now \in 0..MaxTime
    /\ pc \in [Threads -> {"idle", "notify"}]
    /\ reqScope \in [Threads -> Scopes]
    /\ reqKind \in [Threads -> {"client", "general"}]
    /\ archiveUpdate \subseteq Clients
    /\ updatePending \in [Clients -> BOOLEAN]
    /\ reqNoOk \in [Threads -> BOOLEAN]
    /\ stale \in [Clients -> BOOLEAN]

Init ==
    /\ settings = [r \in Keys \X Scopes |-> NoRow]
    /\ now = 0
    /\ pc = [t \in Threads |-> "idle"]
    /\ reqScope = [t \in Threads |-> 0]
    /\ reqKind = [t \in Threads |-> "client"]
    /\ archiveUpdate = {}
    /\ updatePending = [c \in Clients |-> FALSE]
    /\ reqNoOk = [t \in Threads |-> FALSE]
    /\ stale = [c \in Clients |-> FALSE]

(***************************************************************************)
(* ACTION settings, sa == "clientsettings_save" (lines 917-925) and        *)
(* sa == "general_save" (lines 1130-1138): one write transaction runs      *)
(* updateClientSettings(scope, POST) and, unless no_ok is "true" (always   *)
(* for general_save), updateArchiveSettings(scope). The version cap is the *)
(* model's bound, not a guard of the code.                                 *)
(***************************************************************************)
CommitSave(t, scope, posted, noOk, kind) ==
    /\ pc[t] = "idle"
    /\ kind = "general" => scope = 0 /\ ~noOk
    /\ \A k \in DOMAIN posted :
          settings[<<k, scope>>] # NoRow =>
              NewVersion(settings[<<k, scope>>], now) <= MaxVer
    /\ settings' = SavedSettings(scope, posted, now)
    /\ archiveUpdate' = IF noOk THEN archiveUpdate
                        ELSE archiveUpdate \cup ArchiveTargets(scope)
    /\ pc' = [pc EXCEPT ![t] = "notify"]
    /\ reqScope' = [reqScope EXCEPT ![t] = scope]
    /\ reqKind' = [reqKind EXCEPT ![t] = kind]
    /\ reqNoOk' = [reqNoOk EXCEPT ![t] = noOk]
    /\ UNCHANGED <<now, updatePending, stale>>

(***************************************************************************)
(* After EndTransaction. clientsettings_save (lines 936-945): a client     *)
(* scope gets ServerSettings::updateClient, any other scope updateAll;    *)
(* then updateOnlineClientSettings(db, t_clientid) writes "UPDATE          *)
(* SETTINGS" to the pipe of the client with id t_clientid if it is online  *)
(* (lines 576-592). general_save (lines 1140-1142): updateAll and          *)
(* updateAllOnlineClientSettings, a message to every online client.        *)
(***************************************************************************)
Notify(t) ==
    LET s == reqScope[t]
        told == IF reqKind[t] = "general" THEN Online
                ELSE IF s \in Online THEN {s} ELSE {}
        invalid == IF reqKind[t] = "client" /\ s > 0 THEN {s} ELSE Clients
    IN  /\ pc[t] = "notify"
        /\ stale' = [c \in Clients |-> stale[c] \/ c \in invalid]
        /\ updatePending' = [c \in Clients |-> updatePending[c] \/ c \in told]
        /\ pc' = [pc EXCEPT ![t] = "idle"]
        /\ reqScope' = [reqScope EXCEPT ![t] = 0]       \* the request ends
        /\ reqKind' = [reqKind EXCEPT ![t] = "client"]
        /\ reqNoOk' = [reqNoOk EXCEPT ![t] = FALSE]
        /\ UNCHANGED <<settings, now, archiveUpdate>>

(* ClientMain of an online client reads "UPDATE SETTINGS" from its pipe   *)
(* and reloads its ServerSettings (ClientMain.cpp, not in this excerpt).  *)
ClientReload(c) ==
    /\ updatePending[c]
    /\ updatePending' = [updatePending EXCEPT ![c] = FALSE]
    /\ stale' = [stale EXCEPT ![c] = FALSE]
    /\ UNCHANGED <<settings, now, pc, reqScope, reqKind, archiveUpdate, reqNoOk>>

(* A ServerSettings object of the client re-reads an invalidated cache    *)
(* (server_settings.cpp, not in this excerpt).                             *)
RefreshCache(c) ==
    /\ stale[c]
    /\ stale' = [stale EXCEPT ![c] = FALSE]
    /\ UNCHANGED <<settings, now, pc, reqScope, reqKind, archiveUpdate,
                   updatePending, reqNoOk>>

(* The automatic archival thread consumes an 'archive_update' row          *)
(* (server_archive.cpp, not in this excerpt).                              *)
ArchiveUpdated(c) ==
    /\ c \in archiveUpdate
    /\ archiveUpdate' = archiveUpdate \ {c}
    /\ UNCHANGED <<settings, now, pc, reqScope, reqKind, updatePending,
                   stale, reqNoOk>>

Tick ==
    /\ now < MaxTime
    /\ now' = now + 1
    /\ UNCHANGED <<settings, pc, reqScope, reqKind, archiveUpdate,
                   updatePending, stale, reqNoOk>>

(* The host restarts: requests in flight die between their commit and     *)
(* their notification, pipes and caches are rebuilt, the database stays,   *)
(* and the monotonic clock behind getTimeSeconds starts again from 0.      *)
Reboot ==
    /\ now' = 0
    /\ pc' = [t \in Threads |-> "idle"]
    /\ updatePending' = [c \in Clients |-> FALSE]
    /\ stale' = [c \in Clients |-> FALSE]
    /\ reqScope' = [t \in Threads |-> 0]
    /\ reqKind' = [t \in Threads |-> "client"]
    /\ reqNoOk' = [t \in Threads |-> FALSE]
    /\ UNCHANGED <<settings, archiveUpdate>>

Next ==
    \/ \E t \in Threads, s \in Scopes, p \in Posted, n \in BOOLEAN :
          CommitSave(t, s, p, n, "client")
    \/ \E t \in Threads, p \in Posted : CommitSave(t, 0, p, FALSE, "general")
    \/ \E t \in Threads : Notify(t)
    \/ \E c \in Clients : ClientReload(c) \/ RefreshCache(c) \/ ArchiveUpdated(c)
    \/ Tick
    \/ Reboot

Spec == Init /\ [][Next]_vars

-----------------------------------------------------------------------------
(***************************************************************************)
(* Properties.                                                             *)
(***************************************************************************)

(* The use modes the save handler keeps (lines 530-543): no row of a key   *)
(* outside the mergeable list ever holds the merge composite, and no row   *)
(* of a localized key holds anything but c_use_value, whatever sequence of *)
(* requests, undefined use modes and preserved uses produced it.           *)
UsePolicy ==
    \A r \in Keys \X Scopes :
        settings[r] # NoRow =>
            /\ r[1] \notin Mergeable => settings[r].use # c_use_merge
            /\ r[1] \in Localized => settings[r].use = c_use_value

(* updateSetting, lines 286-290: a stored use_last_modified never moves    *)
(* backwards, also when the clock behind ctime restarted below it.         *)
VersionNeverRegresses ==
    [][\A r \in Keys \X Scopes :
          settings[r] # NoRow =>
              /\ settings'[r] # NoRow
              /\ settings'[r].ver >= settings[r].ver]_settings

(* Spec section 8: a write that supplies a version <= the stored one       *)
(* leaves a version strictly above the previous stored one (updateSetting, *)
(* line 290, bumps only a stored version strictly above ctime).            *)
StaleWriteStrictlyIncreases ==
    [][\A r \in Keys \X Scopes :
          (settings[r] # NoRow /\ settings'[r] # settings[r]
           /\ now <= settings[r].ver)
              => settings'[r].ver > settings[r].ver]_settings

(* Spec section 8: a request that leaves "<key>.use" undefined (-1) never  *)
(* changes the stored use of an existing row. Stated for the keys where   *)
(* spec section 3 does not force c_use_value anyway (configurable, not    *)
(* localized); for a non-mergeable one of them the check at lines 536-540 *)
(* turns -1 into c_use_value before updateSetting can preserve the use.   *)
UndefinedUsePreserved ==
    [][\A t \in Threads, s \in Scopes, p \in Posted, n \in BOOLEAN :
          CommitSave(t, s, p, n, "client") =>
              \A k \in DOMAIN p \cap (Configurable \ Localized) :
                  (p[k].use = c_use_undefined /\ settings[<<k, s>>] # NoRow)
                      => settings'[<<k, s>>].use = settings[<<k, s>>].use]_vars

(* Spec section 4.6: once a committed save is notified, every online       *)
(* client whose effective settings read the saved scope has "UPDATE        *)
(* SETTINGS" in its pipe (updateOnlineClientSettings looks up the client   *)
(* by t_clientid only, lines 576-592).                                     *)
NotifyAffected ==
    [][\A t \in Threads :
          Notify(t) => \A c \in Affected(reqScope[t]) \cap Online :
                           updatePending'[c]]_vars
====
