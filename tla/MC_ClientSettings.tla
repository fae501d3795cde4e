------------------------- MODULE MC_ClientSettings -------------------------
(* Model-checking instances of ClientSettings. Keys come in the three      *)
(* policy classes of getSettingsList: kMerge (configurable and mergeable,  *)
(* like "archive"), kPlain (neither), kLoc (configurable, localized) and   *)
(* kConf (configurable, neither mergeable nor localized).                  *)
EXTENDS ClientSettings, TLC

CONSTANTS kMerge, kPlain, kLoc, kConf, v1, v2, t1, t2

NoKeys == {}
KeysMerge == {kMerge}
KeysPlain == {kPlain}
KeysLoc == {kLoc}
KeysPolicy == {kPlain, kLoc}
KeysAll == {kMerge, kPlain, kLoc}
KeysConfigurable == {kMerge, kLoc}
KeysConf == {kConf}

MCValues == {v1, v2}
OneClient == {1}
TwoClients == {1, 2}
OneGroup == {1}
MCClientGroup == [c \in Clients |-> IF c = 1 /\ 1 \in Groups THEN 1 ELSE 0]
OneThread == {t1}
TwoThreads == {t1, t2}

(* The classes of "<key>.use" the normalisation tells apart: undefined,   *)
(* value, group and the merge composite (value_client is kept only for    *)
(* configurable non-mergeable keys, which no run has).                     *)
MCUseInputs == {c_use_undefined, c_use_value, c_use_group, c_use_merge}

(* Requests post one key each: the rows of a save are written by          *)
(* independent updateSetting calls inside one transaction.                 *)
MCPosted == UNION {[K -> Field] : K \in {{}} \cup {{k} : k \in Keys}}

ValueSymmetry == Permutations(MCValues)
====
