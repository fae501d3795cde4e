# Verification project: UrBackup server settings action

This directory holds TLA+ models of `src/urbackupserver/serverinterface/settings.cpp`,
the `settings` web action of the UrBackup server. It also holds the TLC configurations
that check these models on small instances and the TLAPS proofs of the core properties.

## 1. The system

The action is one HTTP handler, `ACTION_IMPL(settings)`. The server's worker threads run
it concurrently. Its sub-action comes from `POST["sa"]`. It reads and writes a SQLite
database (`settings_db`). Writers are serialised only inside an explicit write
transaction; every other statement commits on its own.

### Components, their state and operations

| Component | State it keeps | Operations (source lines) |
|---|---|---|
| Conflict-aware upsert | `settings(key, value, clientid, use, use_last_modified)` rows | `updateSetting` with use/version (275-329) |
| Settings save transaction | the same rows, `archive_update` rows | `updateClientSettings` (502-553), `clientsettings_save` (917-945), `general_save` (1130-1150) |
| Archive update marker | `settings` rows with key `archive_update` | `updateArchiveSettings` (555-574) |
| Notification fan-out | each online client's `comm_pipe`; the ServerSettings caches | `updateOnlineClientSettings`, `updateAllOnlineClientSettings` (576-610), `ServerSettings::updateClient/updateAll` |
| Group provisioning | `si_client_groups`, rows at scope `-g`, `automatic_archival` rows at `-g` | `groupadd` (843-895), `groupremove` (677-713) |
| Group membership | `clients.groupid`, the client's `group_id` setting | `updateClientGroup` (429-442), `group_mem_changes` / `memberof` (650-676) |
| Archive parameter codec | the `archive` row of a scope; `automatic_archival` reads | `archiveParamsSetUuid` (444-500), `addNextArchival` (127-159) |
| Settings resolution | none (reads) | `getJSONClientSettings` (162-193) over `ServerSettings::getClientSettings` (not in this excerpt) |
| Users and rights | `si_users`, `si_permissions` | `updateRights` (36-71), `useradd`, `changepw`, `updaterights`, `removeuser` (979-1092) |
| Plain global/mail/LDAP settings | scope-0 rows without use/version | `saveGeneralSettings`, `updateSettingsWithList`, plain `updateSetting` (333-427), `mail_save`, `ldap_save` |
| Read-only views | none | navitems, `getGeneralSettings`, `getMailSettings`, `getLdapSettings`, `getAlertScripts`, `listusers` |

A scope is an integer. `0` is the global default, `c > 0` is a client and `-g` is group `g`.
The use mode is a bit mask: `c_use_group`, `c_use_value` and `c_use_value_client` are
distinct bits, their union `c_use_value|c_use_group` is the merge composite, and
`c_use_undefined` is `-1` (the `use != -1` test at line 181). The constants are defined
in `server_settings.h`, which is not among the sources. The model takes
`c_use_group = 1`, `c_use_value = 2` and `c_use_value_client = 4`. This is the reading
under which the `q_has_overwrite` query (line 747), which tests `(use & 2)` and
`(use & 4)`, selects the rows that carry a value of their own. The values are an
assumption. No definition depends on them beyond their being distinct bits, since every
use of them is by name.

### How the components interact

- A save posts `key`/`key.use` pairs. `updateClientSettings` normalises each `key.use`
  against three lists: configurable, mergeable and localized keys. It then calls
  `updateSetting`.
- The save, together with `updateArchiveSettings`, runs in one write transaction.
- After the commit, the handler invalidates the `ServerSettings` caches. It also writes
  `"UPDATE SETTINGS"` to the pipe of the saved client, if that client is online, or to
  every online client for `general_save`. The client's `ClientMain` then reloads.
- `groupadd` clones the global rows into scope `-g` with `use = c_use_group`.
  `groupremove` moves the group's clients to group 0 and deletes the group's rows.
- Membership changes write the client's `group_id` setting and `clients.groupid`.

### What is hard here

- Concurrency between requests. Only the two saves and `groupremove` run in a
  transaction. `groupadd`, `updateClientGroup`, `updateRights`, `useradd`, `mail_save`
  and `ldap_save` are sequences of separate statements, so they interleave with each
  other and with the transactions.
- Version arbitration by a clock. `use_last_modified` is the server's
  `getTimeSeconds()` unless the stored version is newer. After a reboot the monotonic
  clock starts again below the stored versions.
- The post-commit notification. It runs outside the transaction, it can be lost when
  the server restarts, and it is addressed by client id only.
- Stale input. Group ids in `group_mem_changes`/`memberof` come from a page loaded
  earlier.

### Properties that make each component correct

- Upsert: versions never decrease. A stale write still ends above the stored version.
  An undefined use preserves the stored use. Undefined is never stored.
- Save: the stored use modes obey the key lists (spec section 3).
  Two further observations have no run of their own. The first save of a key with
  `use=-1` stores `-1`, because the insert binds the posted use (line 314). A
  `memberof` id is never checked against `si_client_groups` (line 664). Every client affected
  by a save gets an archive update and an `UPDATE SETTINGS` message.
- Groups: group names are unique ignoring case. A fresh group holds a clone of the
  global rows. No client references a group that does not exist. The `group_id`
  setting agrees with `clients.groupid`.
- Codec: after a save every sub-record with a `backup_type_i` has a valid 16-byte id,
  and a well-formed posted id is kept. Telemetry is never persisted.
- Users: one user per name. After `updaterights`, the rights are exactly those posted,
  and concurrent requests leave the rights of one of them.

The hazards at their lines are listed in `PROJECT.json` under `"hazards"`.

## 2. Plan

Modules, in order of importance:

1. `ClientSettings` (done): the settings table, `updateSetting`, normalisation, the save
   transaction, `updateArchiveSettings`, and the post-commit notification with its
   readers. `ClientSettingsProofs` (done): type correctness, `UsePolicy`,
   `VersionNeverRegresses`.
2. `Groups` (done, see section 4): EXTENDS `ClientSettings` and adds `si_client_groups`, `clients.groupid`, the
   `group_id` setting and `automatic_archival` scopes. Its actions are `groupadd` as
   per-statement steps of a worker thread, `groupremove` as one atomic transaction, and
   `updateClientGroup` as two steps. It composes with the save actions of the core.
   Runs: the case-insensitive unique-name property (violation), orphan rows after a
   concurrent remove (violation), and the clone of a fresh group (pass).
3. `ArchiveUuid` (done, see section 4c): `archiveParamsSetUuid` and the write of the
   archive key, `addNextArchival` on resolve, and the archiver's schedule rows.
4. `Notification`: liveness of the `UPDATE SETTINGS` path under weak fairness of the
   worker thread and of `ClientMain` (the crash between commit and notify).
5. `Users` (done, see section 4d): `useradd`, `updaterights`, `removeuser` and `changepw`
   as statement sequences, with the `rights` interleaving as a violation run.
   `UsersProofs` (done): type correctness.
6. `PlainSettings`: `mail_save`/`ldap_save` batch atomicity.
7. `Resolve` (from the spec): effective value per client, and an abstract
   specification of "a save is visible atomically", refined by `ClientSettings`
   (INSTANCE ... WITH).

Theorems: the invariants and action properties that hold for any number of threads
(see section 5). A refinement for saves (item 7) is still open.

## 3. The core model: `ClientSettings.tla`

State (`VARIABLES`) and its code counterpart:

- `settings`: the `settings_db.settings` rows with a use mode, as a function from
  (key, scope) to a record `[value, use, ver]` or `NoRow`.
- `now`: `Server->getTimeSeconds()`.
- `pc`, `reqScope`, `reqKind`, `reqNoOk`: a worker thread between `EndTransaction` and
  its notification, and the `t_clientid`, the sub-action and `no_ok` of its request.
- `archiveUpdate`: the clients with an `archive_update` row.
- `updatePending`: an `"UPDATE SETTINGS"` message is waiting in the client's pipe.
  Messages are identical and each triggers a full reload, so a flag stands for the
  queue.
- `stale`: the client's `ServerSettings` cache was invalidated.

Actions:

- `CommitSave(t, scope, posted, noOk, kind)`: the write transaction of
  `clientsettings_save` or `general_save`. For every posted key it computes
  `UpdateSetting(row, value, NormalizeUse(key, use), now)`. Unless `no_ok` is set, it
  adds the `archive_update` rows. The version cap `MaxVer` is a model bound.
- `Notify(t)`: the statements after `EndTransaction`.
- `ClientReload`, `RefreshCache`, `ArchiveUpdated`: the readers outside this excerpt
  (ClientMain, ServerSettings, the archival thread), modelled from the spec.
- `Tick`: the clock advances. `Reboot`: the host restarts. In-flight notifications are
  lost, pipes and caches are rebuilt, and the clock restarts at 0.

Abstractions:

- Setting values are model values. `archiveParamsSetUuid` rewrites only the value of
  the `archive` key. Every value in `Values` can be posted, so the rewrite adds no
  behaviour to the table. The codec gets its own module.
- `saveGeneralSettings` writes keys outside `getSettingsList` (`backupfolder`, ...)
  without a use mode. It is part of the planned `PlainSettings` module.
- Rights checks are assumed to pass.
- Requests in the runs post one key each. The keys of a save are independent
  `updateSetting` calls inside one transaction, and no property relates two keys.

## 4. Runs

All runs use `MC_ClientSettings.tla`, with symmetry over the two values. Keys come in
four classes: `kMerge` (configurable and mergeable, like `archive`), `kPlain`
(neither), `kLoc` (configurable and localized) and `kConf` (configurable only; the
undefineduse run). Posted use modes are `c_use_undefined`, `c_use_value`,
`c_use_group` and the merge composite.

| Run | Expect | Property | What it shows |
|---|---|---|---|
| versions | pass | VersionNeverRegresses | `updateSetting` never lowers a version. Covers ticks and reboots (clock 0..2, versions 0..4), so every case of `old > ctime` is reached. |
| usepolicy | pass | TypeOK, UsePolicy | No merge composite for non-mergeable keys and only `c_use_value` for localized keys, over all posted modes, on global and client scopes. |
| stalewrite | violation | StaleWriteStrictlyIncreases | A second save at the same `ctime` changes the row and keeps its version (line 290 bumps only a strictly newer stored version). |
| undefineduse | violation | UndefinedUsePreserved | `use=-1` on a configurable key that is neither mergeable nor localized replaces a stored `c_use_group` with `c_use_value` (line 536). |
| notify | violation | NotifyAffected | Saving group 1's settings sends no message to its online member (line 945). |

Bounds:

- One client and one group: every scope class exists.
- The clock and version bounds let a stored version exceed `now` after a reboot, which
  is the only way `old > ctime` arises.
- One worker thread suffices for the per-row properties, because the transaction
  serialises the writers. Two threads are needed only for the notify gap, which
  `Reboot` also covers.

No fairness is assumed. The core properties are safety properties.

## 4b. The group model: `Groups.tla`

`Groups` EXTENDS `ClientSettings`. Its spec `GroupsSpec` runs the saves of the core
(`SaveStep`, only by a thread that is not inside a group statement sequence) together
with the group statements.

State:

- `groupName`: the `si_client_groups` rows, a name or `NoGroup` per id in `Groups`.
  `Groups` bounds the id space.
- `groupOf`: `clients.groupid`.
- `groupIdRow`: each client's `group_id` setting row.
- `archival`: the scopes that have `automatic_archival` rows. The global schedule is
  written elsewhere (server_archive), so the initial state may have one or not.
- `gpc`, `gid`, `gnm`, `gclient`: a worker thread's next statement and the request's
  id, name and client.

Actions:

- `groupadd`, one step per autocommit statement:
  - `GroupFind`: lines 843-851.
  - `GroupInsert`: lines 853-866. Any free id may be returned, which covers both rowid
    reuse and AUTOINCREMENT (the schema is not in this excerpt).
  - `GroupDeleteRows`: lines 868-871.
  - `GroupClone`: lines 873-876. If a cloned key already has a row at `-g`, the
    `(key, clientid)` key makes SQLite abort the whole statement, and the code ignores
    the failed write.
  - `GroupDeleteArchival` and `GroupCloneArchival`: lines 878-889. The second also runs
    `ServerSettings::updateAll`.
- `GroupRemove`: lines 677-713, one step, because the statements run in one write
  transaction.
- `MemberSetting` and `MemberClient`: the two statements of `updateClientGroup`. The
  group id is the unchecked `watoi` of `memberof` or of a `group_mem_changes` entry.
- `GroupsReboot`: the core restart, which also ends every group request in flight.

Names are model values. `Lower` is `strlower`. The SQL `=` of the lookup is taken to
be case-sensitive, as SQLite's default collation is.

| Run | Expect | Property | What it shows |
|---|---|---|---|
| groupclone | pass | GroupsTypeOK, FreshGroupIsGlobalClone | See below. |
| groupnames | violation | UniqueGroupNames | `groupadd("A")` twice, or "A" then "a", creates two groups (line 854). |
| grouporphans | violation | GroupScopesBelongToGroups | A `clientsettings_save` with `t_clientid = -g` for a missing group writes rows at `-g` (line 619). |

The groupclone run interleaves saves, restarts, membership changes and id reuse. It
shows that the clone statement of a `groupadd` leaves scope `-g` holding exactly the
global rows, with `c_use_group` and version 0. This holds even when the reused id's
scope holds rows that an earlier group or a save from a stale page left there. The
`DELETE` of lines 868-871 is what makes it hold. Without the `DELETE`
(`GroupDeleteRowsNoop`), the clone aborts on the clash and the stale rows stay.

The group clone copies global rows with `c_use_group` forced. For a localized key that
breaks `UsePolicy` (line 873). No run checks this, so that the 12 runs cover the users
component instead. The hazard is listed in `PROJECT.json`.

The group runs use one key, one value, the use modes `{1, 2}`, one client, one group id
(two for `groupnames`), one thread and a stopped clock. The group statements tell
rows apart only by presence and use, so one value and no versions suffice. The core
runs cover version arbitration.

Two divergences found while modelling have no run, because the 12 runs go to the
questions above. The first is that lines 530-534 let a non-configurable key be stored
with `c_use_group`. The second is that a restart between the two statements of
`updateClientGroup` (lines 435 and 437) leaves `group_id` and `clients.groupid`
disagreeing. `PROJECT.json` lists both as hazards.

With one thread, a concurrent save between `GroupDeleteRows` and `GroupClone` is not
explored. The two-thread instance with the full core did not finish within the run
budget. That hazard is listed in `PROJECT.json` as uncovered.

Proofs (`GroupsProofs.tla`, under `ConstantsAssumption` and `GroupsAssumption`):

- `GroupsTypeCorrect`: `GroupsSpec => []GroupsTypeOK`. The save steps and the restart
  are steps of the core `Next` (`CoreSteps`), so the core's `TypeInvariance` applies to
  them. Each group statement keeps the types; `CloneRowType` needs
  `c_use_group \in UseInputs`.
`FreshGroupIsGlobalClone` is checked by TLC only. With more than one thread it would
rest on the absence of a save to `-g` between the group's `DELETE` and its clone, and
the two-thread instance is out of reach (above).

## 4c. The archive codec: `ArchiveUuid.tla`

The `archive` setting is one string of `key=value` pairs; the fields of sub-record
`<i>` are named `backup_type_<i>`, `uuid_<i>`, and so on. The module keeps the value of
one scope's archive row as a sequence of pairs `<<<<kind, i>>, value>>`. A uuid is a
record: its number of digits, whether all digits are hex, and, for one the server drew,
which draw made it and for which sub-record. Other field values are a single constant.

| Definition | Code |
|---|---|
| `Parse` | `ParseParamStrHttp` (outside this excerpt, modelled from the spec): a map, duplicate keys resolved by `LastWins` |
| `Serialize`, `KeyBefore`, `Rank` | lines 484-499: the pairs in `std::map` key order, joined by `&` |
| `IsHexId`, `Regen`, `Missing`, `Mod` | the uuid test (455-458), the replaced uuids (453-466), the backup types without a uuid (467-479), `mod` |
| `FreshId` | `secureRandomFill` of 16 bytes and `bytesToHex`: 32 hex digits |
| `SetUuid` | `archiveParamsSetUuid`: unchanged unless `mod` (482-483), otherwise re-serialised |
| `EncodePost`, `Save` | line 446's `POST["archive"]` and the write of the key by `updateClientSettings` |
| `AddNextArchival`, `Resolve` | `addNextArchival` (127-159) as `getJSONClientSettings` calls it |
| `Schedule` | the archiver filling `automatic_archival` (spec section 3) |

The variable `draw` tells the ids of two requests that draw in a row apart, so a
regenerated id differs from the one it replaces. The model keeps the set of
sub-records shown with `next_archival` from the last resolve, not the whole string.

| Run | Expect | Property | What it shows |
|---|---|---|---|
| archivecodec | pass | ArchiveTypeOK, IdsComplete, IdsStable | After any save every sub-record has an even-length hex uuid, and every well-formed posted uuid is kept, also when the value is re-serialised. |
| archiveclobber | violation | ArchiveKeptWhenNotPosted | A save without an archive field stores `""` (line 446). |

Bounds: two sub-records, posted values of up to two pairs (uuid or backup type), and
the three classes of posted uuid that lines 457-458 tell apart: kept, non-hex, odd.
Two sub-records give the cases that matter: a value rewritten for one sub-record while
the other sub-record's uuid must survive, two fresh ids in one request, and duplicate
keys. With three pairs the run takes eight minutes, which is beyond the run budget.

Two divergences have no run:

- The code keeps any even-length hex uuid, including a 2-digit one. Spec section 4.4
  requires 16 bytes. `IdsComplete` states the code's guarantee.
- The telemetry that `addNextArchival` appends is not stripped on save. A client that
  posts back the resolved value persists it.

`ArchiveUuidProofs.tla` proves the three properties of the run for every index set,
every posted length, every `MaxPairs` and both duplicate-key policies
(`ArchiveTypeCorrect`, `IdsCompleteHolds`, `IdsStableHolds`). The
argument, lemma by lemma:

- `ParseFacts`: for each key, `Parse` keeps the value of some pair with that key. The
  first or last duplicate exists by `NatHasMin` and `NatHasMax`, which come from
  `WFMin` on the naturals.
- `KeyOrder`: `KeyBefore` is a strict total order on `Kinds \X Idx`, because the ranks
  of the five kinds differ.
- `PosRange` and `PosInjective`: the position `Cardinality({l : l before k}) + 1` maps
  a finite key set into `1..|D|`, and distinct keys to distinct positions (the keys
  before the lesser key form a strict subset). `FS_Injection` then makes it onto
  (`PosOnto`). No induction is needed.
- `ParseSerialize`: `Parse(Serialize(m)) = m`, because each key is written once, at
  its position.
- `SetUuidResult`: `archiveParamsSetUuid` returns a value that is a sequence of pairs,
  complete, and keeps every well-formed posted uuid. In the unchanged case
  (`~Mod`) there is nothing to replace or add. In the re-serialised case, the merged
  map is finite (`NewMapFacts`), and the lemmas above give its parse.

The invariant `ArchiveInv` is the conjunction of the three properties. It is inductive
given the type invariant, because each save rewrites the stored value and the other
actions leave it alone. TLC checked `ArchiveInv` on the run's instance before it was
proved.

## 4d. Users and rights: `Users.tla`

The user-management sub-actions of `settings` write `si_users` and `si_permissions`
with single statements and no transaction.

- `users` maps an id to a row (a name and a digest) or `NoUser`.
- `perms` is the set of `<<id, entry>>` rows.

Each worker thread (`Workers`) keeps its request's locals: `wpc`, `wuid`, `wreq` and
`wnext`. Two steps model `useradd`:

- `UserAddFind` is the `SELECT` by name, with an early exit on `alread_exists`.
- `UserInsert` is the `INSERT` and `getLastInsertID`, taking any free id, because
  SQLite reuses the ids of deleted rows.

Three steps model `updateRights` (lines 36-71):

- `RightsDelete` runs the `DELETE`.
- `RightsInsert` runs one `INSERT` per complete entry of the parsed `idx` list.
- `RightsDone` returns.

The other sub-actions:

- `UpdateRightsStart` is `updaterights`, which never checks the posted id.
- `RemoveUser` deletes only the `si_users` row.
- `ChangePw` updates the digest.

A rights list is a sequence of entries. An entry missing its `_domain` or `_right` field
inserts nothing, so it is left out of the list. The history variable `lastRights`
records, for each id, the entries of the last `updateRights` that finished, and
`doneRights` records the entries of every one that finished.

| Run | Expect | Property | What it shows |
|---|---|---|---|
| users | pass | RightsFromOneRequest | With one worker, a user that no `updateRights` is writing has exactly the rights of the last one for its id, also after its id was reused. |
| rightsunion | violation | RightsFromSomeRequest | With two workers, one request's `DELETE` (line 41) runs between the other's `INSERT`s (lines 54-66). In the trace an `updaterights` posts `[r1, r2]` and a `useradd` for the same id posts an empty list, and the user is left with `{r2}`, which neither request posted. |

Bounds:

- Two ids, so that ids get reused.
- One name, so that `alread_exists` occurs.
- Two digests.
- Two entries, with lists of up to two, so that duplicates and orders occur.

Limits of the model:

- `si_permissions` has no key, so a duplicated entry writes two rows. The model keeps a
  set, which no property tells apart from two rows.
- Two concurrent `useradd` requests for one name are not run. Their outcome depends on a
  UNIQUE constraint on `si_users.name`, and the schema is not under `src/`.
- The rights rows that `removeuser` leaves behind are modelled. A reused id holds them
  until its `updateRights` deletes them.

Proofs (`UsersProofs.tla`, under `UsersAssumption`):

- `UsersTypeCorrect`: `UsersSpec => []UsersTypeOK`, for any number of workers. The
  history variables are included.

`RightsFromOneRequest` is checked by TLC only, and only with one worker, because
rightsunion shows that two workers break even its weaker form.

## 5. Proofs (`ClientSettingsProofs.tla`)

The proofs assume only `ConstantsAssumption`: the key lists are subsets of `Keys`, ids
are positive, `c_use_value` is a postable mode, and `NoRow` is not a row. They hold for
every number of keys, clients, groups and threads.

- `TypeCorrect`: `Spec => []TypeOK`. `TypeOK` is inductive. The version cap of
  `CommitSave` and `NewVersionMonotone` keep new versions in `0..MaxVer`.
- `UsePolicyHolds`: `Spec => []UsePolicy`. The inductive invariant is
  `TypeOK /\ UsePolicy`. A saved row's use is either the normalised request, which obeys
  the policy (`NormalizeUsePolicy`), or, for an undefined request, the stored use, which
  obeyed it before the step.
- `VersionMonotone`: `Spec => VersionNeverRegresses`. Every step, under `TypeOK`, keeps a
  stored row a row and does not lower its version (`UpdateSettingVersion`).

`GroupsProofs` (section 4b) and `UsersProofs` (section 4d) hold the other theorems.
`ArchiveUuidProofs` (section 4c) proves the archive codec's three invariants.

No theorem carries a hypothesis on the number of threads or workers.

Only TLC checks:

- the violation runs, whose properties the code breaks;
- `FreshGroupIsGlobalClone` and `RightsFromOneRequest`, which TLC runs with one thread.

Liveness, ENABLED, and what recursive definitions compute for every
input are out of TLAPS's reach.

## 6. Not modelled

- Read-only views and JSON/HTML formatting: they change no state.
- The mail and LDAP test calls: external I/O.
- Authorization: an external collaborator.
- Password hashing: opaque.
- `fixupBackupfolder`'s file write: I/O.
