-------------------------- MODULE MC_ArchiveUuid --------------------------
(* Model-checking instance of ArchiveUuid: two sub-records, posted uuids   *)
(* of an even (2) and an odd (3) number of digits, hex or not, and values *)
(* of up to two pairs, so that duplicates, a missing uuid next to a kept  *)
(* one and two regenerated ids all occur.                                  *)
EXTENDS ArchiveUuid

MCIdx == {1, 2}
MCLens == {2, 3}

(* The three classes of posted uuid the check of lines 458-459 tells     *)
(* apart: kept (even, hex), replaced for a non-hex digit, replaced for an  *)
(* odd length.                                                             *)
MCPostedUuid == {[len |-> 2, hex |-> TRUE, gen |-> 0, at |-> 0],
                 [len |-> 2, hex |-> FALSE, gen |-> 0, at |-> 0],
                 [len |-> 3, hex |-> TRUE, gen |-> 0, at |-> 0]}

(* The posted pairs: uuids and backup types; the "every" fields only pass *)
(* through the codec, so the runs leave them out.                          *)
MCPostedPair == ({<<"uuid", i>> : i \in Idx} \X MCPostedUuid)
                  \cup ({<<"backup_type", i>> : i \in Idx} \X {"x"})
====
