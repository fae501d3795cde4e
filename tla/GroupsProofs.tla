---------------------------- MODULE GroupsProofs ----------------------------
(***************************************************************************)
(* Proofs about Groups: type correctness of the settings table composed   *)
(* with the group statements, and the deletion cascade of groupremove.     *)
(* The save steps are steps of ClientSettings, whose type lemma is reused. *)
(***************************************************************************)
EXTENDS Groups, ClientSettingsProofs

USE ConstantsAssumption, GroupsAssumption

LEMMA ScopesFacts ==
    /\ 0 \in Scopes
    /\ \A g \in Groups : -g \in Scopes
    /\ Clients \subseteq Scopes
BY DEF Scopes

(* A global row cloned into a group scope is a row.                       *)
LEMMA CloneRowType ==
    ASSUME NEW row \in Row \cup {NoRow}
    PROVE  CloneRow(row) \in Row \cup {NoRow}
<1>1. CASE row = NoRow BY <1>1 DEF CloneRow
<1>2. CASE row \in Row
  <2>1. c_use_group \in UseInputs /\ 0 \in 0..MaxVer OBVIOUS
  <2>2. QED BY <1>2, <2>1 DEF CloneRow, Row
<1>3. QED BY <1>1, <1>2

(* The save steps and the restart are steps of ClientSettings.            *)
LEMMA CoreSteps ==
    ASSUME SaveStep \/ GroupsReboot
    PROVE  [Next]_vars
<1>1. CASE SaveStep
  <2>1. CASE \E t \in Threads, sc \in Scopes, p \in Posted, n \in BOOLEAN :
                gpc[t] = "idle" /\ CommitSave(t, sc, p, n, "client")
    <3>1. PICK t \in Threads, sc \in Scopes, p \in Posted, n \in BOOLEAN :
                 CommitSave(t, sc, p, n, "client")
      BY <2>1
    <3>2. QED BY <3>1 DEF Next, CommitSave
  <2>2. CASE \E t \in Threads, p \in Posted :
                gpc[t] = "idle" /\ CommitSave(t, 0, p, FALSE, "general")
    <3>1. PICK t \in Threads, p \in Posted : CommitSave(t, 0, p, FALSE, "general")
      BY <2>2
    <3>2. QED BY <3>1 DEF Next, CommitSave
  <2>3. QED BY <1>1, <2>1, <2>2 DEF SaveStep, Next
<1>2. CASE GroupsReboot BY <1>2 DEF GroupsReboot, Next
<1>3. QED BY <1>1, <1>2

(* Every step keeps the types of both the table and the group state.      *)
LEMMA GroupsTypeInvariance ==
    GroupsTypeOK /\ [GroupsNext]_allVars => GroupsTypeOK'
<1> SUFFICES ASSUME GroupsTypeOK, [GroupsNext]_allVars PROVE GroupsTypeOK'
  OBVIOUS
<1>0. TypeOK BY DEF GroupsTypeOK
<1>1. CASE SaveStep
  <2>1. TypeOK' BY <1>0, <1>1, CoreSteps, TypeInvariance
  <2>2. QED BY <1>1, <2>1 DEF SaveStep, groupVars, GroupsTypeOK
<1>2. CASE GroupsReboot
  <2>1. TypeOK' BY <1>0, <1>2, CoreSteps, TypeInvariance
  <2>2. QED BY <1>2, <2>1 DEF GroupsReboot, GroupsTypeOK, GroupSteps
<1>3. ASSUME NEW t \in Threads, NEW n \in Names, GroupFind(t, n)
      PROVE  GroupsTypeOK'
  BY <1>3 DEF GroupFind, GroupsTypeOK, GroupSteps, vars, TypeOK
<1>4. ASSUME NEW t \in Threads, GroupInsert(t) PROVE GroupsTypeOK'
  BY <1>4 DEF GroupInsert, GroupsTypeOK, GroupSteps, vars, TypeOK
<1>5. ASSUME NEW t \in Threads, GroupDeleteRows(t) PROVE GroupsTypeOK'
  BY <1>5 DEF GroupDeleteRows, GroupsTypeOK, GroupSteps, TypeOK
<1>6. ASSUME NEW t \in Threads, GroupClone(t) PROVE GroupsTypeOK'
  <2>1. settings' \in [Keys \X Scopes -> Row \cup {NoRow}]
    <3>1. \A k \in Keys : CloneRow(settings[<<k, 0>>]) \in Row \cup {NoRow}
      BY <1>0, ScopesFacts, CloneRowType DEF TypeOK
    <3>2. QED BY <1>0, <1>6, <3>1, ScopesFacts DEF GroupClone, TypeOK
  <2>2. QED BY <1>6, <2>1 DEF GroupClone, GroupsTypeOK, GroupSteps, TypeOK
<1>7. ASSUME NEW t \in Threads, GroupDeleteArchival(t) PROVE GroupsTypeOK'
  BY <1>7 DEF GroupDeleteArchival, GroupsTypeOK, GroupSteps, vars, TypeOK
<1>8. ASSUME NEW t \in Threads, GroupCloneArchival(t) PROVE GroupsTypeOK'
  <2>1. -gid[t] \in Scopes
    <3>1. CASE gid[t] = 0 BY <3>1, ScopesFacts
    <3>2. CASE gid[t] \in Groups BY <3>2, ScopesFacts
    <3>3. QED BY <3>1, <3>2 DEF GroupsTypeOK
  <2>2. QED BY <1>8, <2>1, ScopesFacts
            DEF GroupCloneArchival, GroupsTypeOK, GroupSteps, TypeOK
<1>9. ASSUME NEW t \in Threads, NEW g \in Groups, GroupRemove(t, g)
      PROVE  GroupsTypeOK'
  BY <1>9 DEF GroupRemove, GroupsTypeOK, TypeOK
<1>10. ASSUME NEW t \in Threads, NEW c \in Clients, NEW g \in Groups \cup {0},
              MemberSetting(t, c, g)
       PROVE  GroupsTypeOK'
  BY <1>10 DEF MemberSetting, GroupsTypeOK, GroupSteps, vars, TypeOK
<1>11. ASSUME NEW t \in Threads, MemberClient(t) PROVE GroupsTypeOK'
  BY <1>11 DEF MemberClient, GroupsTypeOK, GroupSteps, vars, TypeOK
<1>12. CASE UNCHANGED allVars
  BY <1>12 DEF allVars, vars, groupVars, GroupsTypeOK, TypeOK
<1>13. QED
  BY <1>1, <1>2, <1>3, <1>4, <1>5, <1>6, <1>7, <1>8, <1>9, <1>10, <1>11,
     <1>12 DEF GroupsNext

(* The initial states are typed.                                           *)
LEMMA GroupsInitType == GroupsInit => GroupsTypeOK
<1> SUFFICES ASSUME GroupsInit PROVE GroupsTypeOK OBVIOUS
<1>1. TypeOK BY ScopesFacts DEF GroupsInit, Init, TypeOK
<1>2. archival \subseteq Scopes BY ScopesFacts DEF GroupsInit
<1>3. QED BY <1>1, <1>2 DEF GroupsInit, GroupsTypeOK, GroupSteps

(* The table and the group state keep their types in every reachable      *)
(* state of the composed specification.                                    *)
THEOREM GroupsTypeCorrect == GroupsSpec => []GroupsTypeOK
BY GroupsInitType, GroupsTypeInvariance, PTL DEF GroupsSpec

====
