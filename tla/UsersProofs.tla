----------------------------- MODULE UsersProofs -----------------------------
(***************************************************************************)
(* Proofs about Users: type correctness of the tables, the workers'      *)
(* locals and the history, for any number of workers.                      *)
(***************************************************************************)
EXTENDS Users, TLAPS

USE UsersAssumption

(* A posted rights list is a sequence of entries.                          *)
LEMMA RightsListsAreSeqs ==
    ASSUME NEW l \in RightsLists
    PROVE  /\ l \in Seq(Rights)
           /\ \A i \in 1..Len(l) : l[i] \in Rights
<1>1. PICK n \in 0..MaxRights : l \in [1..n -> Rights] BY DEF RightsLists
<1>2. l \in Seq(Rights) BY <1>1
<1>3. Len(l) = n BY <1>1, <1>2
<1>4. QED BY <1>1, <1>2, <1>3

LEMMA NoneAreRequests == NoRequest \in Request /\ NoId \in UserIds
<1>1. <<>> \in RightsLists
  <2>1. 0 \in 0..MaxRights OBVIOUS
  <2>2. <<>> \in [1..0 -> Rights] OBVIOUS
  <2>3. QED BY <2>1, <2>2 DEF RightsLists
<1>2. PICK n \in UserNames, d \in Pws : TRUE OBVIOUS
<1>3. [name |-> n, pw |-> d, rights |-> <<>>] \in Request BY <1>1, <1>2 DEF Request
<1>4. \E u \in UserIds : TRUE OBVIOUS
<1>5. QED BY <1>3, <1>4 DEF NoRequest, NoId

(* Every step keeps the types of the tables and of the workers' locals.    *)
LEMMA UsersTypeInvariance ==
    UsersTypeOK /\ [UsersNext]_vars => UsersTypeOK'
<1> SUFFICES ASSUME UsersTypeOK, [UsersNext]_vars PROVE UsersTypeOK'
  OBVIOUS
<1>0. NoRequest \in Request /\ NoId \in UserIds BY NoneAreRequests
<1>1. ASSUME NEW t \in Workers, NEW r \in Request, UserAddFind(t, r)
      PROVE  UsersTypeOK'
  BY <1>1 DEF UserAddFind, UsersTypeOK
<1>2. ASSUME NEW t \in Workers, UserInsert(t) PROVE UsersTypeOK'
  BY <1>2 DEF UserInsert, UsersTypeOK, User, Request
<1>3. ASSUME NEW t \in Workers, NEW u \in UserIds, NEW l \in RightsLists,
             UpdateRightsStart(t, u, [NoRequest EXCEPT !.rights = l])
      PROVE  UsersTypeOK'
  <2>1. [NoRequest EXCEPT !.rights = l] \in Request BY <1>0 DEF Request
  <2>2. QED BY <1>3, <2>1 DEF UpdateRightsStart, UsersTypeOK
<1>4. ASSUME NEW t \in Workers, RightsDelete(t) PROVE UsersTypeOK'
  BY <1>4 DEF RightsDelete, UsersTypeOK
<1>5. ASSUME NEW t \in Workers, RightsInsert(t) PROVE UsersTypeOK'
  <2>1. wreq[t].rights[wnext[t]] \in Rights
    <3>1. wreq[t].rights \in RightsLists BY DEF UsersTypeOK, Request
    <3>2. wnext[t] \in 1..Len(wreq[t].rights) BY <1>5 DEF RightsInsert, UsersTypeOK
    <3>3. QED BY <3>1, <3>2, RightsListsAreSeqs
  <2>2. QED BY <1>5, <2>1 DEF RightsInsert, UsersTypeOK
<1>6. ASSUME NEW t \in Workers, RightsDone(t) PROVE UsersTypeOK'
  <2>1. EntrySet(wreq[t].rights) \subseteq Rights
    <3>1. wreq[t].rights \in RightsLists BY DEF UsersTypeOK, Request
    <3>2. QED BY <3>1, RightsListsAreSeqs DEF EntrySet
  <2>2. doneRights' \in [UserIds -> SUBSET SUBSET Rights]
    <3>1. wuid[t] \in UserIds BY DEF UsersTypeOK
    <3>2. QED BY <1>6, <2>1, <3>1 DEF RightsDone, UsersTypeOK
  <2>3. QED BY <1>0, <1>6, <2>1, <2>2 DEF RightsDone, UsersTypeOK
<1>7. ASSUME NEW t \in Workers, NEW u \in UserIds, RemoveUser(t, u)
      PROVE  UsersTypeOK'
  BY <1>7 DEF RemoveUser, UsersTypeOK
<1>8. ASSUME NEW t \in Workers, NEW u \in UserIds, NEW d \in Pws,
             ChangePw(t, u, d)
      PROVE  UsersTypeOK'
  BY <1>8 DEF ChangePw, UsersTypeOK, User
<1>9. CASE UNCHANGED vars BY <1>9 DEF vars, UsersTypeOK
<1>10. QED BY <1>1, <1>2, <1>3, <1>4, <1>5, <1>6, <1>7, <1>8, <1>9
           DEF UsersNext

(* The tables and the workers' locals keep their types in every reachable *)
(* state, for any numbers of ids, names, rights and workers.               *)
THEOREM UsersTypeCorrect == UsersSpec => []UsersTypeOK
<1>1. UsersInit => UsersTypeOK BY NoneAreRequests DEF UsersInit, UsersTypeOK
<1>2. QED BY <1>1, UsersTypeInvariance, PTL DEF UsersSpec
====
