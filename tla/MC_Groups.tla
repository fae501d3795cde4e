----------------------------- MODULE MC_Groups -----------------------------
(* Model-checking instances of Groups. Two posted names that strlower maps *)
(* to the same name: nLow ("a") and nUp ("A").                             *)
EXTENDS Groups, MC_ClientSettings

CONSTANTS nLow, nUp

MCNames == {nLow, nUp}
MCLower == [n \in MCNames |-> nLow]

(* The group statements tell rows apart by presence and use only.         *)
OneValue == {v1}
GroupUseInputs == {c_use_value, c_use_group}
TwoGroups == {1, 2}
====
