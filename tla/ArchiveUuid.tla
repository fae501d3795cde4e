---------------------------- MODULE ArchiveUuid ----------------------------
(***************************************************************************)
(* The codec of the composite "archive" setting (settings.cpp):           *)
(*   - archiveParamsSetUuid, run on every save before the table is        *)
(*     written: it parses POST["archive"] as key=value pairs, replaces    *)
(*     every uuid_<i> of odd length or with a non-hex character by fresh  *)
(*     random bytes, gives every backup_type_<i> without a uuid_<i> one,  *)
(*     and, if it changed anything, re-serialises the map in key order;   *)
(*   - addNextArchival, run on every read of the setting: it appends      *)
(*     next_archival_<i> and timeleft_<i> for each uuid_<i> that has a    *)
(*     row in settings_db.automatic_archival.                             *)
(* The value is a sequence of <<key, value>> pairs, a key <<kind, i>>     *)
(* standing for the string kind_i. A uuid is abstracted to its length in  *)
(* hex digits, whether all digits are hex, and which generator call made  *)
(* it (0 for one the client posted); every other field value is "x".      *)
(***************************************************************************)
EXTENDS Naturals, Sequences, FiniteSets

CONSTANTS
    Idx,        \* the sub-record indexes <i> a request uses
    Lens,       \* lengths of the uuid strings a client may post
    MaxPairs,   \* bound on the number of pairs in a posted value
    LastWins,   \* ParseParamStrHttp keeps the last of duplicate keys
    Absent      \* the request has no "archive" field

ASSUME ArchiveAssumption ==
    /\ Idx \subseteq Nat \ {0} /\ Lens \subseteq Nat
    /\ MaxPairs \in Nat /\ LastWins \in BOOLEAN

VARIABLES
    draw,     \* which secureRandomFill call the next fresh id comes from
    stored,   \* the archive row of the scope in settings_db.settings
    posted,   \* the archive field of the last save request, or Absent
    sched,    \* uuids with a row in settings_db.automatic_archival
    page      \* sub-records shown with next_archival in the last resolve

(* The field kinds, ranked in the order std::map sorts their names.       *)
Rank == [backup_type |-> 1, every |-> 2, next_archival |-> 3,
         timeleft |-> 4, uuid |-> 5]
Kinds == DOMAIN Rank

(* A uuid string: its number of digits, whether all are hex and, for one  *)
(* the server drew, the draw and the sub-record (0 for one that a client  *)
(* posted).                                                                *)
UuidVal == [len : Nat, hex : BOOLEAN, gen : 0..2, at : {0} \cup Idx]
PostedUuid == [len : Lens, hex : BOOLEAN, gen : {0}, at : {0}]

Pair == ({<<"uuid", i>> : i \in Idx} \X UuidVal)
          \cup ({<<k, i>> : k \in {"backup_type", "every"}, i \in Idx} \X {"x"})
          \cup ({<<k, i>> : k \in {"next_archival", "timeleft"}, i \in Idx} \X {"t"})
PostedPair == ({<<"uuid", i>> : i \in Idx} \X PostedUuid)
                \cup ({<<k, i>> : k \in {"backup_type", "every"}, i \in Idx} \X {"x"})
Inputs == UNION {[1..n -> PostedPair] : n \in 0..MaxPairs}

(* ParseParamStrHttp: the pairs of a value as a map from key to value.    *)
KeysOf(s) == {s[j][1] : j \in 1..Len(s)}
Parse(s) ==
    LET at(k) == {j \in 1..Len(s) : s[j][1] = k}
        pick(k) == CHOOSE j \in at(k) :
                      \A l \in at(k) : IF LastWins THEN l <= j ELSE j <= l
    IN  [k \in KeysOf(s) |-> s[pick(k)][2]]

(* The order of std::map<std::string, ...> on the key strings kind_i.     *)
KeyBefore(a, b) ==
    \/ Rank[a[1]] < Rank[b[1]]
    \/ Rank[a[1]] = Rank[b[1]] /\ a[2] < b[2]

(* Lines 484-499: the pairs of a map, joined in key order.                *)
Serialize(m) ==
    LET D == DOMAIN m
        pos(k) == Cardinality({l \in D : KeyBefore(l, k)}) + 1
        at(n) == CHOOSE k \in D : pos(k) = n
    IN  [n \in 1..Cardinality(D) |-> <<at(n), m[at(n)]>>]

(* Lines 455-458: the test that keeps a posted uuid.                      *)
IsHexId(v) == v.len % 2 = 0 /\ v.hex

(* secureRandomFill of 16 bytes and bytesToHex: 32 hex digits drawn for  *)
(* the sub-record <i> by the current request. Two requests that draw in  *)
(* a row get different values; the stored ids all come from the last one. *)
FreshId(i) == [len |-> 32, hex |-> TRUE, gen |-> draw, at |-> i]

(* Lines 453-466: the posted uuids that are replaced.                     *)
Regen(params) == {k \in DOMAIN params : k[1] = "uuid" /\ ~IsHexId(params[k])}

(* Lines 467-479: the sub-records with a backup type and no uuid.         *)
MissingNone(params) == {}
Missing(params) == {i \in Idx : /\ <<"backup_type", i>> \in DOMAIN params
                               /\ <<"uuid", i>> \notin DOMAIN params}

(* mod of archiveParamsSetUuid: whether the value has to be rewritten.     *)
Mod(s) == Regen(Parse(s)) # {} \/ Missing(Parse(s)) # {}

(* archiveParamsSetUuid, lines 444-500, on the value of POST["archive"]:  *)
(* unchanged when nothing is replaced or added (line 482), otherwise the  *)
(* new uuids are merged in and the map is re-serialised.                   *)
SetUuidRegenAll(s) ==
    LET params == Parse(s)
        D == DOMAIN params \cup {<<"uuid", i>> : i \in Missing(params)}
    IN  IF ~Mod(s) THEN s
        ELSE Serialize([k \in D |->
                 IF k[1] = "uuid" THEN FreshId(k[2]) ELSE params[k]])
SetUuid(s) ==
    LET params == Parse(s)
        D == DOMAIN params \cup {<<"uuid", i>> : i \in Missing(params)}
    IN  IF ~Mod(s) THEN s
        ELSE Serialize([k \in D |->
                 IF k \in Regen(params) \/ k \notin DOMAIN params
                 THEN FreshId(k[2]) ELSE params[k]])

(* Line 446: POST["archive"] inserts the empty string when the request    *)
(* has no archive field, and the loop of updateClientSettings then writes *)
(* it like a posted one.                                                   *)
EncodePostNull(post) == IF post = Absent THEN Absent ELSE SetUuid(post)
EncodePost(post) == IF post = Absent THEN <<>> ELSE SetUuid(post)

(* addNextArchival, lines 127-159: the pairs appended for each uuid_<i>   *)
(* that has a schedule row, in the order of the parsed map.                *)
AddNextArchival(s, rows) ==
    LET params == Parse(s)
        found == {k \in DOMAIN params : k[1] = "uuid" /\ params[k] \in rows}
        extra == [k \in found |-> <<<<<<"next_archival", k[2]>>, "t">>,
                                    <<<<"timeleft", k[2]>>, "t">>>>]
        order == Serialize(extra)
    IN  s \o [n \in 1..2 * Len(order) |->
                  order[(n + 1) \div 2][2][2 - (n % 2)]]

vars == <<draw, stored, posted, sched, page>>

ArchiveTypeOK ==
    /\ draw \in {1, 2}
    /\ stored \in Seq(Pair)
    /\ posted \in Inputs \cup {Absent}
    /\ sched \subseteq UuidVal
    /\ page \subseteq Idx

ArchiveInit ==
    /\ draw = 1
    /\ stored = <<>>
    /\ posted = Absent
    /\ sched = {}
    /\ page = {}

(* A save of the scope's settings: archiveParamsSetUuid and the write of  *)
(* the archive key by updateClientSettings (lines 502-553).               *)
Save(post) ==
    /\ posted' = post
    /\ stored' = EncodePost(post)
    /\ draw' = IF post # Absent /\ Mod(post) THEN 3 - draw ELSE draw
    /\ UNCHANGED <<sched, page>>

(* The archiver registers a schedule row for each sub-record's uuid.      *)
Schedule ==
    /\ sched' = {Parse(stored)[k] : k \in {k \in DOMAIN Parse(stored) :
                                              k[1] = "uuid"}}
    /\ UNCHANGED <<draw, stored, posted, page>>

(* getJSONClientSettings, lines 162-193: the archive value of the         *)
(* resolved document carries the schedule telemetry; the model keeps the  *)
(* sub-records it annotates.                                               *)
Resolve ==
    /\ page' = {i \in Idx : <<"next_archival", i>> \in
                               DOMAIN Parse(AddNextArchival(stored, sched))}
    /\ UNCHANGED <<draw, stored, posted, sched>>

ArchiveNext ==
    \/ \E post \in Inputs \cup {Absent} : Save(post)
    \/ Schedule
    \/ Resolve

ArchiveSpec == ArchiveInit /\ [][ArchiveNext]_vars
-----------------------------------------------------------------------------
(* The uuid the properties accept: an even number of hex digits.          *)
WellFormedId(v) == v.hex /\ v.len % 2 = 0

(* Identity completeness as the code ensures it: after a save, every      *)
(* sub-record of the stored value with a backup_type_<i> or a uuid_<i>    *)
(* has a uuid_<i> of an even number of hex digits (archiveParamsSetUuid). *)
IdsComplete ==
    LET m == Parse(stored)
    IN  \A i \in Idx :
           (<<"backup_type", i>> \in DOMAIN m \/ <<"uuid", i>> \in DOMAIN m)
              => <<"uuid", i>> \in DOMAIN m /\ WellFormedId(m[<<"uuid", i>>])

(* Identity stability: every well-formed uuid the client posted is the    *)
(* one stored for its sub-record, also when another sub-record of the     *)
(* same value made archiveParamsSetUuid re-serialise it.                   *)
IdsStable ==
    posted # Absent =>
        LET p == Parse(posted)
            m == Parse(stored)
        IN  \A k \in DOMAIN p :
               k[1] = "uuid" /\ WellFormedId(p[k])
                  => k \in DOMAIN m /\ m[k] = p[k]

(* Spec section 4.4: every identity is 16 bytes, 32 hex digits; a uuid    *)
(* of a wrong length is replaced on save.                                  *)
IdsAre16Bytes ==
    LET m == Parse(stored)
    IN  \A k \in DOMAIN m : k[1] = "uuid" => m[k].len = 32

(* A save whose request has no archive field leaves the archive setting   *)
(* as it was: updateClientSettings writes only the keys POST contains      *)
(* (line 522).                                                             *)
ArchiveKeptWhenNotPosted ==
    [][posted' = Absent => stored' = stored]_vars
====
