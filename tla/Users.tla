-------------------------------- MODULE Users --------------------------------
(***************************************************************************)
(* The web interface's users and their rights (settings.cpp):             *)
(*   - useradd: look the name up in si_users, insert the user, then       *)
(*     updateRights for the new id (lines 979-1021);                       *)
(*   - updaterights: updateRights for a posted id (lines 1075-1082);       *)
(*   - updateRights: DELETE every si_permissions row of the id, then one   *)
(*     INSERT per complete entry of the posted list (lines 36-71);         *)
(*   - removeuser: DELETE the si_users row (lines 1083-1092);              *)
(*   - changepw: UPDATE the salt and digest of an id (lines 1023-1073).    *)
(* None of these runs in a transaction: every statement is a step of the  *)
(* worker thread that serves the request, and several workers interleave. *)
(* A rights list is a sequence of (domain, right) entries in "idx" order;  *)
(* an entry without its _domain or _right field inserts nothing and is     *)
(* left out of the list.                                                   *)
(***************************************************************************)
EXTENDS Naturals, Sequences, FiniteSets

CONSTANTS
    UserIds,    \* ids si_users may give out
    UserNames,  \* user names, already lower-cased by strlower
    Pws,        \* password digests (with their salt)
    Rights,     \* (domain, right) entries of si_permissions
    Workers,    \* HTTP worker threads running the settings action
    MaxRights,  \* bound on the length of a posted rights list
    NoUser      \* the absent si_users row

ASSUME UsersAssumption ==
    /\ UserIds \subseteq Nat \ {0} /\ UserIds # {}
    /\ UserNames # {} /\ Pws # {}
    /\ MaxRights \in Nat
    /\ NoUser \notin [name : UserNames, pw : Pws]

User == [name : UserNames, pw : Pws]

(* The rights lists a request may post: entries in idx order.             *)
RightsLists == UNION {[1..n -> Rights] : n \in 0..MaxRights}

VARIABLES
    users,      \* si_users: id -> row
    perms,      \* si_permissions: set of <<clientid, entry>>
    wpc,        \* the statement each worker runs next
    wuid,       \* the user id a worker's updateRights writes
    wreq,       \* the request a worker serves: name, digest, rights list
    wnext,      \* the index of the next entry updateRights inserts
    lastRights, \* history: the list of the last updateRights done per id
    doneRights  \* history: the lists of every updateRights done per id

vars == <<users, perms, wpc, wuid, wreq, wnext, lastRights, doneRights>>

Request == [name : UserNames, pw : Pws, rights : RightsLists]

(* The locals of an idle worker, which no step reads.                     *)
NoRequest == CHOOSE r \in Request : TRUE
NoId == CHOOSE u \in UserIds : TRUE

UsersTypeOK ==
    /\ users \in [UserIds -> User \cup {NoUser}]
    /\ perms \subseteq UserIds \X Rights
    /\ wpc \in [Workers -> {"idle", "add_insert", "rights_delete",
                            "rights_insert"}]
    /\ wuid \in [Workers -> UserIds]
    /\ wreq \in [Workers -> Request]
    /\ wnext \in [Workers -> Nat \ {0}]
    /\ lastRights \in [UserIds -> SUBSET Rights]
    /\ doneRights \in [UserIds -> SUBSET SUBSET Rights]

(* The entries of a rights list, and the rights rows of an id.            *)
EntrySet(l) == {l[i] : i \in DOMAIN l}
RightsOf(u) == {r \in Rights : <<u, r>> \in perms}

(* The names of the rows of si_users.                                     *)
TakenNames == {users[u].name : u \in {v \in UserIds : users[v] # NoUser}}

(* A worker is inside updateRights for id u.                              *)
Busy(u) == \E t \in Workers : wpc[t] \in {"rights_delete", "rights_insert"}
                              /\ wuid[t] = u

UsersInit ==
    /\ users = [u \in UserIds |-> NoUser]
    /\ perms = {}
    /\ wpc = [t \in Workers |-> "idle"]
    /\ wuid = [t \in Workers |-> NoId]
    /\ wreq = [t \in Workers |-> NoRequest]
    /\ wnext = [t \in Workers |-> 1]
    /\ lastRights = [u \in UserIds |-> {}]
    /\ doneRights = [u \in UserIds |-> {}]

(* useradd, lines 983-991: SELECT id FROM si_users WHERE name=?. A name   *)
(* that is taken ends the request with alread_exists and changes nothing. *)
UserAddFind(t, r) ==
    /\ wpc[t] = "idle"
    /\ r.name \notin TakenNames
    /\ wpc' = [wpc EXCEPT ![t] = "add_insert"]
    /\ wreq' = [wreq EXCEPT ![t] = r]
    /\ UNCHANGED <<users, perms, wuid, wnext, lastRights, doneRights>>

(* useradd, lines 993-1016: the INSERT into si_users, getLastInsertID,    *)
(* and the call of updateRights for that id. The id is any free one.      *)
UserInsert(t) ==
    /\ wpc[t] = "add_insert"
    /\ \E u \in UserIds :
          /\ users[u] = NoUser
          /\ users' = [users EXCEPT ![u] = [name |-> wreq[t].name,
                                            pw |-> wreq[t].pw]]
          /\ wuid' = [wuid EXCEPT ![t] = u]
    /\ wpc' = [wpc EXCEPT ![t] = "rights_delete"]
    /\ wnext' = [wnext EXCEPT ![t] = 1]
    /\ UNCHANGED <<perms, wreq, lastRights, doneRights>>

(* updaterights, lines 1075-1082: updateRights for the posted user id,    *)
(* which nothing checks against si_users.                                  *)
UpdateRightsStart(t, u, r) ==
    /\ wpc[t] = "idle"
    /\ wpc' = [wpc EXCEPT ![t] = "rights_delete"]
    /\ wuid' = [wuid EXCEPT ![t] = u]
    /\ wreq' = [wreq EXCEPT ![t] = r]
    /\ wnext' = [wnext EXCEPT ![t] = 1]
    /\ UNCHANGED <<users, perms, lastRights, doneRights>>

(* updateRights, lines 41-44: DELETE FROM si_permissions WHERE clientid=? *)
RightsDeleteNoop(t) ==
    /\ wpc[t] = "rights_delete"
    /\ wpc' = [wpc EXCEPT ![t] = "rights_insert"]
    /\ UNCHANGED <<users, perms, wuid, wreq, wnext, lastRights, doneRights>>
RightsDelete(t) ==
    /\ wpc[t] = "rights_delete"
    /\ perms' = {p \in perms : p[1] # wuid[t]}
    /\ wpc' = [wpc EXCEPT ![t] = "rights_insert"]
    /\ UNCHANGED <<users, wuid, wreq, wnext, lastRights, doneRights>>

(* updateRights, lines 55-67: the INSERT of the next entry of the list.   *)
RightsInsert(t) ==
    /\ wpc[t] = "rights_insert"
    /\ wnext[t] <= Len(wreq[t].rights)
    /\ perms' = perms \cup {<<wuid[t], wreq[t].rights[wnext[t]]>>}
    /\ wnext' = [wnext EXCEPT ![t] = wnext[t] + 1]
    /\ UNCHANGED <<users, wpc, wuid, wreq, lastRights, doneRights>>

(* updateRights returns when the list is done; the history records it.    *)
RightsDone(t) ==
    /\ wpc[t] = "rights_insert"
    /\ wnext[t] > Len(wreq[t].rights)
    /\ wpc' = [wpc EXCEPT ![t] = "idle"]
    /\ lastRights' = [lastRights EXCEPT ![wuid[t]] = EntrySet(wreq[t].rights)]
    /\ doneRights' = [doneRights EXCEPT ![wuid[t]] =
                         @ \cup {EntrySet(wreq[t].rights)}]
    /\ wuid' = [wuid EXCEPT ![t] = NoId]
    /\ wreq' = [wreq EXCEPT ![t] = NoRequest]
    /\ wnext' = [wnext EXCEPT ![t] = 1]
    /\ UNCHANGED <<users, perms>>

(* removeuser, lines 1083-1092: only the si_users row is deleted; the     *)
(* si_permissions rows of the id stay.                                     *)
RemoveUser(t, u) ==
    /\ wpc[t] = "idle"
    /\ users' = [users EXCEPT ![u] = NoUser]
    /\ UNCHANGED <<perms, wpc, wuid, wreq, wnext, lastRights, doneRights>>

(* changepw, lines 1023-1073: one UPDATE of the row with id u, which does *)
(* nothing when there is none (the old-password check is the session's).  *)
ChangePw(t, u, d) ==
    /\ wpc[t] = "idle"
    /\ users[u] # NoUser
    /\ users' = [users EXCEPT ![u].pw = d]
    /\ UNCHANGED <<perms, wpc, wuid, wreq, wnext, lastRights, doneRights>>

UsersNext ==
    \E t \in Workers :
        \/ \E r \in Request : UserAddFind(t, r)
        \/ UserInsert(t)
        \/ \E u \in UserIds, l \in RightsLists :
              UpdateRightsStart(t, u, [NoRequest EXCEPT !.rights = l])
        \/ RightsDelete(t)
        \/ RightsInsert(t)
        \/ RightsDone(t)
        \/ \E u \in UserIds : RemoveUser(t, u)
        \/ \E u \in UserIds, d \in Pws : ChangePw(t, u, d)

UsersSpec == UsersInit /\ [][UsersNext]_vars
-----------------------------------------------------------------------------
(* Spec section 5 commits a multi-row mutation all or nothing: the rights *)
(* rows of a user that no updateRights is writing are exactly the list of *)
(* the last updateRights done for the id, whose DELETE and INSERTs (lines  *)
(* 36-71) run outside a transaction.                                       *)
RightsFromOneRequest ==
    \A u \in UserIds :
        (users[u] # NoUser /\ ~Busy(u)) => RightsOf(u) = lastRights[u]

(* Spec section 5, weakened to what serialisable requests would give: the *)
(* rights rows of a user that no updateRights is writing are the list of   *)
(* some updateRights done for the id, whichever of two concurrent ones     *)
(* finished last. The DELETE of lines 41-44 and the INSERTs of lines 55-67 *)
(* are separate statements, so two requests can interleave their rows.     *)
RightsFromSomeRequest ==
    \A u \in UserIds :
        (users[u] # NoUser /\ ~Busy(u)) => RightsOf(u) \in doneRights[u]
====
