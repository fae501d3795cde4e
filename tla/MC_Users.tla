------------------------------ MODULE MC_Users ------------------------------
(* Model-checking instances of Users: two ids, so that a removed user's id *)
(* is reused while the other is taken, one name, so that every second add *)
(* is a duplicate, and rights lists of up to two of two entries.           *)
EXTENDS Users

CONSTANTS n1, p1, p2, r1, r2, w1, w2

MCUserIds == {1, 2}
MCUserNames == {n1}
MCPws == {p1, p2}
MCRights == {r1, r2}
OneWorker == {w1}
TwoWorkers == {w1, w2}
====
