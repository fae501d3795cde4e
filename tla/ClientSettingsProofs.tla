------------------------ MODULE ClientSettingsProofs ------------------------
(***************************************************************************)
(* Proofs about ClientSettings for every value of its constants: the type  *)
(* invariant, the use-mode policy of the stored rows, and that no step     *)
(* moves a stored use_last_modified backwards.                             *)
(***************************************************************************)
EXTENDS ClientSettings, TLAPS

USE ConstantsAssumption

(***************************************************************************)
(* Lemmas about the operators of updateClientSettings and updateSetting.   *)
(***************************************************************************)

(* The normalised use mode is the requested one or c_use_value.            *)
LEMMA NormalizeUseCases ==
    ASSUME NEW k, NEW u
    PROVE  NormalizeUse(k, u) \in {u, c_use_value}
BY DEF NormalizeUse

LEMMA NormalizeUseType ==
    ASSUME NEW k, NEW u \in UseInputs
    PROVE  NormalizeUse(k, u) \in UseInputs
BY NormalizeUseCases

(* Lines 536-543: a non-mergeable key never keeps the merge composite, a   *)
(* localized key always ends with c_use_value.                             *)
LEMMA NormalizeUsePolicy ==
    ASSUME NEW k, NEW u
    PROVE  /\ k \notin Mergeable => NormalizeUse(k, u) # c_use_merge
           /\ k \in Localized => NormalizeUse(k, u) = c_use_value
BY DEF NormalizeUse, c_use_merge, c_use_value, c_use_group, c_use_value_client

(* NoRow is not a row.                                                      *)
LEMMA NoRowNotRow == NoRow \notin Row
BY DEF Row

(* A stored row never gets an older version, and stays a row.             *)
LEMMA NewVersionMonotone ==
    ASSUME NEW row \in Row, NEW ct \in Int
    PROVE  /\ NewVersion(row, ct) >= row.ver
           /\ NewVersion(row, ct) >= ct
BY DEF NewVersion, Row

LEMMA UpdateSettingType ==
    ASSUME NEW row \in Row \cup {NoRow}, NEW v \in Values,
           NEW u \in UseInputs, NEW ct \in 0..MaxTime,
           row # NoRow => NewVersion(row, ct) <= MaxVer
    PROVE  UpdateSetting(row, v, u, ct) \in Row
<1>1. CASE row = NoRow
  BY <1>1 DEF UpdateSetting, Row
<1>2. CASE row # NoRow
  <2>1. row \in Row BY <1>2
  <2>2. ct \in Int /\ ct >= 0 BY DEF Row
  <2>3. NewVersion(row, ct) >= ct BY <2>1, <2>2, NewVersionMonotone
  <2>4. NewVersion(row, ct) \in Int BY <2>1, <2>2 DEF NewVersion, Row
  <2>5. NewVersion(row, ct) \in 0..MaxVer BY <1>2, <2>2, <2>3, <2>4
  <2>6. QED BY <2>1, <2>5 DEF UpdateSetting, Row
<1>3. QED BY <1>1, <1>2

(* The version of an existing row does not decrease.                     *)
LEMMA UpdateSettingVersion ==
    ASSUME NEW row \in Row, NEW v, NEW u, NEW ct \in Int
    PROVE  UpdateSetting(row, v, u, ct).ver >= row.ver
<1>1. row # NoRow BY NoRowNotRow
<1>2. NewVersion(row, ct) >= row.ver BY NewVersionMonotone
<1>3. row.ver \in Int BY DEF Row
<1>4. QED BY <1>1, <1>2, <1>3 DEF UpdateSetting

(***************************************************************************)
(* Type correctness.                                                        *)
(***************************************************************************)

(* The rows the save transaction writes are rows.                          *)
LEMMA SavedSettingsType ==
    ASSUME TypeOK, NEW scope \in Scopes, NEW p \in Posted,
           \A k \in DOMAIN p :
              settings[<<k, scope>>] # NoRow =>
                  NewVersion(settings[<<k, scope>>], now) <= MaxVer
    PROVE  SavedSettings(scope, p, now) \in [Keys \X Scopes -> Row \cup {NoRow}]
<1>1. PICK K \in SUBSET Keys : p \in [K -> Field]
  BY DEF Posted
<1>2. ASSUME NEW r \in Keys \X Scopes, r[2] = scope, r[1] \in DOMAIN p
      PROVE  UpdateSetting(settings[r], p[r[1]].value,
                           NormalizeUse(r[1], p[r[1]].use), now) \in Row
  <2>1. r = <<r[1], scope>> BY <1>2
  <2>2. p[r[1]] \in Field BY <1>1, <1>2
  <2>3. NormalizeUse(r[1], p[r[1]].use) \in UseInputs
    BY <2>2, NormalizeUseType DEF Field
  <2>4. settings[r] \in Row \cup {NoRow} BY DEF TypeOK
  <2>5. QED BY <1>2, <2>1, <2>2, <2>3, <2>4, UpdateSettingType DEF Field, TypeOK
<1>3. QED BY <1>2 DEF SavedSettings, TypeOK

LEMMA TypeInvariance == TypeOK /\ [Next]_vars => TypeOK'
<1> SUFFICES ASSUME TypeOK, [Next]_vars PROVE TypeOK'
  OBVIOUS
<1>1. ASSUME NEW t \in Threads, NEW s \in Scopes, NEW p \in Posted,
             NEW n \in BOOLEAN, NEW kind \in {"client", "general"},
             CommitSave(t, s, p, n, kind)
      PROVE  TypeOK'
  <2>1. settings' \in [Keys \X Scopes -> Row \cup {NoRow}]
    BY <1>1, SavedSettingsType DEF CommitSave
  <2>2. archiveUpdate' \subseteq Clients
    BY <1>1 DEF CommitSave, ArchiveTargets, TypeOK, Scopes
  <2>3. QED BY <1>1, <2>1, <2>2 DEF CommitSave, TypeOK
<1>0. 0 \in Scopes BY DEF Scopes
<1>2. ASSUME NEW t \in Threads, Notify(t) PROVE TypeOK'
  BY <1>0, <1>2 DEF Notify, TypeOK
<1>3. ASSUME NEW c \in Clients,
             ClientReload(c) \/ RefreshCache(c) \/ ArchiveUpdated(c)
      PROVE  TypeOK'
  BY <1>3 DEF ClientReload, RefreshCache, ArchiveUpdated, TypeOK
<1>4. CASE Tick BY <1>4 DEF Tick, TypeOK
<1>5. CASE Reboot BY <1>0, <1>5 DEF Reboot, TypeOK
<1>6. CASE UNCHANGED vars BY <1>6 DEF vars, TypeOK
<1>7. QED
  <2>2. CASE \E t \in Threads, s \in Scopes, p \in Posted, n \in BOOLEAN :
                CommitSave(t, s, p, n, "client")
    BY <1>1, <2>2
  <2>3. CASE \E t \in Threads, p \in Posted : CommitSave(t, 0, p, FALSE, "general")
    BY <1>0, <1>1, <2>3
  <2>4. QED BY <1>2, <1>3, <1>4, <1>5, <1>6, <2>2, <2>3 DEF Next

(* The type invariant holds in every reachable state.                       *)
THEOREM TypeCorrect == Spec => []TypeOK
<1>1. Init => TypeOK
  BY DEF Init, TypeOK, Scopes
<1>2. QED BY <1>1, TypeInvariance, PTL DEF Spec

(***************************************************************************)
(* The use-mode policy. It is inductive once the rows are typed: a saved   *)
(* row gets either the normalised requested mode, which obeys the policy   *)
(* (NormalizeUsePolicy), or, for an undefined request, its own stored      *)
(* mode, which obeyed it before the step.                                  *)
(***************************************************************************)

(* The row one saved key gets, for the steps below.                        *)
LEMMA SavedRow ==
    ASSUME TypeOK, NEW scope \in Scopes, NEW p \in Posted,
           NEW r \in Keys \X Scopes
    PROVE  SavedSettings(scope, p, now)[r] =
               IF r[2] = scope /\ r[1] \in DOMAIN p
               THEN UpdateSetting(settings[r], p[r[1]].value,
                                  NormalizeUse(r[1], p[r[1]].use), now)
               ELSE settings[r]
BY DEF SavedSettings

LEMMA UsePolicyInvariance ==
    TypeOK /\ UsePolicy /\ [Next]_vars => UsePolicy'
<1> SUFFICES ASSUME TypeOK, UsePolicy, [Next]_vars PROVE UsePolicy'
  OBVIOUS
<1>1. CASE UNCHANGED settings
  BY <1>1 DEF UsePolicy
<1>2. ASSUME NEW t \in Threads, NEW s \in Scopes, NEW p \in Posted,
             NEW n \in BOOLEAN, NEW kind \in {"client", "general"},
             CommitSave(t, s, p, n, kind)
      PROVE  UsePolicy'
  <2> SUFFICES ASSUME NEW r \in Keys \X Scopes, settings'[r] # NoRow
               PROVE  /\ r[1] \notin Mergeable => settings'[r].use # c_use_merge
                      /\ r[1] \in Localized => settings'[r].use = c_use_value
    BY DEF UsePolicy
  <2>1. settings' = SavedSettings(s, p, now) BY <1>2 DEF CommitSave
  <2>2. CASE r[2] = s /\ r[1] \in DOMAIN p
    <3> DEFINE nu == NormalizeUse(r[1], p[r[1]].use)
    <3>1. settings'[r] = UpdateSetting(settings[r], p[r[1]].value, nu, now)
      BY <2>1, <2>2, SavedRow
    <3>2. settings'[r].use \in IF settings[r] = NoRow THEN {nu}
                               ELSE {nu, settings[r].use}
      BY <3>1 DEF UpdateSetting
    <3>3. /\ r[1] \notin Mergeable => nu # c_use_merge
          /\ r[1] \in Localized => nu = c_use_value
      BY NormalizeUsePolicy
    <3>4. settings[r] # NoRow =>
             /\ r[1] \notin Mergeable => settings[r].use # c_use_merge
             /\ r[1] \in Localized => settings[r].use = c_use_value
      BY DEF UsePolicy
    <3>5. QED BY <3>2, <3>3, <3>4
  <2>3. CASE ~(r[2] = s /\ r[1] \in DOMAIN p)
    BY <2>1, <2>3, SavedRow DEF UsePolicy
  <2>4. QED BY <2>2, <2>3
<1>3. QED
  <2>1. CASE \E t \in Threads, s \in Scopes, p \in Posted, n \in BOOLEAN :
               CommitSave(t, s, p, n, "client")
    BY <1>2, <2>1
  <2>2. CASE \E t \in Threads, p \in Posted : CommitSave(t, 0, p, FALSE, "general")
    <3>1. 0 \in Scopes BY DEF Scopes
    <3>2. QED BY <1>2, <2>2, <3>1
  <2>3. CASE \E t \in Threads : Notify(t) BY <2>3, <1>1 DEF Notify
  <2>4. CASE \E c \in Clients : ClientReload(c) \/ RefreshCache(c) \/ ArchiveUpdated(c)
    BY <2>4, <1>1 DEF ClientReload, RefreshCache, ArchiveUpdated
  <2>5. CASE Tick \/ Reboot BY <2>5, <1>1 DEF Tick, Reboot
  <2>6. CASE UNCHANGED vars BY <2>6, <1>1 DEF vars
  <2>7. QED BY <2>1, <2>2, <2>3, <2>4, <2>5, <2>6 DEF Next

(* Every stored row, whatever requests produced it, keeps the use-mode     *)
(* policy of updateClientSettings: no merge composite for a non-mergeable  *)
(* key, c_use_value for a localized one.                                   *)
THEOREM UsePolicyHolds == Spec => []UsePolicy
<1>1. Init => UsePolicy
  BY DEF Init, UsePolicy
<1>2. QED BY <1>1, TypeCorrect, TypeInvariance, UsePolicyInvariance, PTL DEF Spec

(***************************************************************************)
(* Version monotonicity: every step keeps each stored row a row and does   *)
(* not lower its version; only the save transaction writes rows, and       *)
(* updateSetting's NewVersion is at least the stored version.              *)
(***************************************************************************)
LEMMA VersionStep ==
    TypeOK /\ [Next]_vars =>
        [\A r \in Keys \X Scopes :
            settings[r] # NoRow =>
                /\ settings'[r] # NoRow
                /\ settings'[r].ver >= settings[r].ver]_settings
<1> SUFFICES ASSUME TypeOK, [Next]_vars,
                    NEW r \in Keys \X Scopes, settings[r] # NoRow
             PROVE  /\ settings'[r] # NoRow
                    /\ settings'[r].ver >= settings[r].ver
  OBVIOUS
<1>0. settings[r] \in Row BY DEF TypeOK
<1>1. CASE UNCHANGED settings
  BY <1>0, <1>1 DEF Row
<1>2. ASSUME NEW t \in Threads, NEW s \in Scopes, NEW p \in Posted,
             NEW n \in BOOLEAN, NEW kind \in {"client", "general"},
             CommitSave(t, s, p, n, kind)
      PROVE  /\ settings'[r] # NoRow
             /\ settings'[r].ver >= settings[r].ver
  <2>1. settings' = SavedSettings(s, p, now) BY <1>2 DEF CommitSave
  <2>2. CASE r[2] = s /\ r[1] \in DOMAIN p
    <3>1. settings' \in [Keys \X Scopes -> Row \cup {NoRow}]
      BY <1>2, SavedSettingsType DEF CommitSave
    <3>2. now \in Int BY DEF TypeOK
    <3>3. settings'[r] = UpdateSetting(settings[r], p[r[1]].value,
                                       NormalizeUse(r[1], p[r[1]].use), now)
      BY <2>1, <2>2, SavedRow
    <3>4. settings'[r].ver >= settings[r].ver
      BY <1>0, <3>2, <3>3, UpdateSettingVersion
    <3>5. settings'[r] # NoRow
      <4>1. r = <<r[1], s>> BY <2>2
      <4>2. NewVersion(settings[r], now) <= MaxVer
        BY <1>2, <2>2, <4>1 DEF CommitSave
      <4>3. PICK K \in SUBSET Keys : p \in [K -> Field] BY DEF Posted
      <4>4. p[r[1]] \in Field BY <2>2, <4>3
      <4>5. NormalizeUse(r[1], p[r[1]].use) \in UseInputs
        BY <4>4, NormalizeUseType DEF Field
      <4>6. now \in 0..MaxTime BY DEF TypeOK
      <4>7. p[r[1]].value \in Values BY <4>4 DEF Field
      <4>8. UpdateSetting(settings[r], p[r[1]].value,
                          NormalizeUse(r[1], p[r[1]].use), now) \in Row
        BY <1>0, <4>2, <4>5, <4>6, <4>7, UpdateSettingType
      <4>9. QED BY <3>3, <4>8, NoRowNotRow
    <3>6. QED BY <3>4, <3>5
  <2>3. CASE ~(r[2] = s /\ r[1] \in DOMAIN p)
    BY <1>0, <2>1, <2>3, SavedRow DEF Row
  <2>4. QED BY <2>2, <2>3
<1>3. QED
  <2>1. CASE \E t \in Threads, s \in Scopes, p \in Posted, n \in BOOLEAN :
               CommitSave(t, s, p, n, "client")
    BY <1>2, <2>1
  <2>2. CASE \E t \in Threads, p \in Posted : CommitSave(t, 0, p, FALSE, "general")
    <3>1. 0 \in Scopes BY DEF Scopes
    <3>2. QED BY <1>2, <2>2, <3>1
  <2>3. CASE \E t \in Threads : Notify(t) BY <2>3, <1>1 DEF Notify
  <2>4. CASE \E c \in Clients : ClientReload(c) \/ RefreshCache(c) \/ ArchiveUpdated(c)
    BY <2>4, <1>1 DEF ClientReload, RefreshCache, ArchiveUpdated
  <2>5. CASE Tick \/ Reboot BY <2>5, <1>1 DEF Tick, Reboot
  <2>6. CASE UNCHANGED vars BY <2>6, <1>1 DEF vars
  <2>7. QED BY <2>1, <2>2, <2>3, <2>4, <2>5, <2>6 DEF Next

(* No step of the settings handler lowers a stored use_last_modified,     *)
(* for every clock, every restart and every sequence of requests.          *)
THEOREM VersionMonotone == Spec => VersionNeverRegresses
<1>1. [][TypeOK /\ [Next]_vars]_vars \/ ~Spec
  BY TypeCorrect, PTL DEF Spec
<1>2. QED BY TypeCorrect, VersionStep, PTL DEF Spec, VersionNeverRegresses
====
