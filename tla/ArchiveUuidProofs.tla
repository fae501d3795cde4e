--------------------------- MODULE ArchiveUuidProofs ---------------------------
(***************************************************************************)
(* Proofs about the archive codec: ParseParamStrHttp reads back what the  *)
(* std::map serialisation of archiveParamsSetUuid writes, and from that    *)
(* the stored value is typed, complete, keeps the posted ids and is a      *)
(* fixpoint of the next save, for every index set and posted length.       *)
(***************************************************************************)
EXTENDS ArchiveUuid, FiniteSetTheorems, WellFoundedInduction, TLAPS

USE ArchiveAssumption DEF ArchiveAssumption

(* The less-than relation on the naturals, as a set of pairs.            *)
NatLess == {ss \in Nat \X Nat : ss[1] < ss[2]}

(* A nonempty set of naturals has a least element.                        *)
LEMMA NatHasMin ==
    ASSUME NEW T \in SUBSET Nat, T # {}
    PROVE  \E x \in T : \A y \in T : x <= y
<1>1. IsWellFoundedOn(NatLess, Nat)
  BY NatLessThanWellFounded DEF OpToRel, NatLess
<1>2. \E x \in T : \A y \in T : ~(<<y, x>> \in NatLess)
  BY <1>1, WFMin
<1>3. PICK x \in T : \A y \in T : ~(<<y, x>> \in NatLess)
  BY <1>2
<1>4. \A y \in T : ~(y < x)
  BY <1>3 DEF NatLess
<1>5. QED BY <1>4

(* A nonempty bounded set of naturals has a greatest element: the least  *)
(* of its upper bounds.                                                    *)
LEMMA NatHasMax ==
    ASSUME NEW T \in SUBSET Nat, T # {}, NEW N \in Nat, \A t \in T : t <= N
    PROVE  \E x \in T : \A y \in T : y <= x
<1> DEFINE Ub == {u \in Nat : \A t \in T : t <= u}
<1>1. PICK u \in Ub : \A v \in Ub : u <= v
  <2>1. N \in Ub
    BY DEF Ub
  <2>2. QED BY <2>1, NatHasMin
<1>2. u \in T
  <2>1. SUFFICES ASSUME u \notin T PROVE FALSE
    OBVIOUS
  <2>2. \A t \in T : t <= u - 1 /\ u - 1 \in Nat
    BY <1>1, <2>1 DEF Ub
  <2>3. u - 1 \in Ub
    BY <2>2 DEF Ub
  <2>4. QED BY <1>1, <2>3
<1>3. QED BY <1>1, <1>2 DEF Ub

(* ParseParamStrHttp keeps, for each key of the value, the value of one   *)
(* pair with that key (the first or the last of its duplicates).          *)
LEMMA ParseFacts ==
    ASSUME NEW X, NEW s \in Seq(X)
    PROVE  /\ Parse(s) = [k \in KeysOf(s) |-> Parse(s)[k]]
           /\ DOMAIN Parse(s) = KeysOf(s)
           /\ \A k \in KeysOf(s) : \E j \in 1..Len(s) :
                  s[j][1] = k /\ Parse(s)[k] = s[j][2]
<1> DEFINE at(k) == {j \in 1..Len(s) : s[j][1] = k}
           ok(k, j) == \A l \in at(k) : IF LastWins THEN l <= j ELSE j <= l
           pick(k) == CHOOSE j \in at(k) : ok(k, j)
<1>1. Parse(s) = [k \in KeysOf(s) |-> s[pick(k)][2]]
  BY DEF Parse
<1>2. ASSUME NEW k \in KeysOf(s) PROVE \E j \in at(k) : ok(k, j)
  <2>0. Len(s) \in Nat
    OBVIOUS
  <2>1. at(k) \in SUBSET Nat /\ at(k) # {} /\ \A t \in at(k) : t <= Len(s)
    BY DEF KeysOf, at
  <2>2. CASE LastWins
    <3>1. PICK x \in at(k) : \A y \in at(k) : y <= x
      BY <2>0, <2>1, NatHasMax
    <3>2. QED BY <3>1, <2>2 DEF ok
  <2>3. CASE ~LastWins
    <3>1. PICK x \in at(k) : \A y \in at(k) : x <= y
      BY <2>1, NatHasMin
    <3>2. QED BY <3>1, <2>3 DEF ok
  <2>4. QED BY <2>2, <2>3
<1>3. ASSUME NEW k \in KeysOf(s) PROVE pick(k) \in at(k)
  BY <1>2 DEF pick
<1>4. QED BY <1>1, <1>3 DEF at

-----------------------------------------------------------------------------
(* The keys kind_i of the value, and the keys of a map D that std::map    *)
(* puts before k.                                                          *)
KeySpace == Kinds \X Idx
Before(D, k) == {l \in D : KeyBefore(l, k)}
PosIn(D, k) == Cardinality(Before(D, k)) + 1

(* The five field kinds have distinct ranks.                              *)
LEMMA RankInjective ==
    /\ Kinds = {"backup_type", "every", "next_archival", "timeleft", "uuid"}
    /\ \A x \in Kinds : Rank[x] \in Nat
    /\ \A x, y \in Kinds : Rank[x] = Rank[y] => x = y
BY DEF Kinds, Rank

(* A key is a pair of a kind and a sub-record index.                      *)
LEMMA KeyParts ==
    ASSUME NEW x \in KeySpace
    PROVE  x[1] \in Kinds /\ x[2] \in Idx /\ x = <<x[1], x[2]>>
BY DEF KeySpace

(* The order of std::map on the key strings kind_i is a strict total      *)
(* order on the keys.                                                      *)
LEMMA KeyOrder ==
    ASSUME NEW a \in KeySpace, NEW b \in KeySpace, NEW c \in KeySpace
    PROVE  /\ ~KeyBefore(a, a)
           /\ KeyBefore(a, b) /\ KeyBefore(b, c) => KeyBefore(a, c)
           /\ a # b => KeyBefore(a, b) \/ KeyBefore(b, a)
<1>0. ASSUME NEW x \in KeySpace
      PROVE  x[1] \in Kinds /\ x[2] \in Nat /\ x = <<x[1], x[2]>>
  BY KeyParts
<1>1. /\ a[1] \in Kinds /\ b[1] \in Kinds /\ c[1] \in Kinds
      /\ a[2] \in Nat /\ b[2] \in Nat /\ c[2] \in Nat
      /\ a = <<a[1], a[2]>> /\ b = <<b[1], b[2]>>
  BY <1>0
<1>2. Rank[a[1]] \in Nat /\ Rank[b[1]] \in Nat /\ Rank[c[1]] \in Nat
  BY <1>1, RankInjective
<1>3. ~KeyBefore(a, a)
  BY <1>1, <1>2 DEF KeyBefore
<1>4. KeyBefore(a, b) /\ KeyBefore(b, c) => KeyBefore(a, c)
  BY <1>1, <1>2 DEF KeyBefore
<1>5. ASSUME a # b PROVE KeyBefore(a, b) \/ KeyBefore(b, a)
  <2>1. CASE a[1] = b[1]
    <3>1. a[2] # b[2]
      BY <1>1, <1>5, <2>1
    <3>2. QED BY <1>1, <2>1, <3>1 DEF KeyBefore
  <2>2. CASE a[1] # b[1]
    <3>1. Rank[a[1]] # Rank[b[1]]
      BY <1>1, <2>2, RankInjective
    <3>2. QED BY <1>2, <3>1 DEF KeyBefore
  <2>3. QED BY <2>1, <2>2
<1>6. QED BY <1>3, <1>4, <1>5

(* The position Serialize gives a key of a finite map is between 1 and    *)
(* the number of keys.                                                     *)
LEMMA PosRange ==
    ASSUME NEW D \in SUBSET KeySpace, IsFiniteSet(D), NEW k \in D
    PROVE  PosIn(D, k) \in 1..Cardinality(D)
<1>1. Before(D, k) \subseteq D \ {k}
  BY KeyOrder DEF Before
<1>2. IsFiniteSet(D \ {k}) /\ Cardinality(D \ {k}) = Cardinality(D) - 1
  BY FS_RemoveElement
<1>3. IsFiniteSet(Before(D, k))
      /\ Cardinality(Before(D, k)) <= Cardinality(D \ {k})
  BY <1>1, <1>2, FS_Subset
<1>4. Cardinality(Before(D, k)) \in Nat /\ Cardinality(D) \in Nat
  BY <1>3, FS_CardinalityType
<1>5. QED BY <1>2, <1>3, <1>4 DEF PosIn

(* Two keys of a map get different positions: the keys before the lesser *)
(* are a strict subset of those before the greater.                       *)
LEMMA PosInjective ==
    ASSUME NEW D \in SUBSET KeySpace, IsFiniteSet(D),
           NEW k1 \in D, NEW k2 \in D, KeyBefore(k1, k2)
    PROVE  PosIn(D, k1) < PosIn(D, k2)
<1>1. Before(D, k1) \subseteq Before(D, k2)
  BY KeyOrder DEF Before
<1>2. k1 \in Before(D, k2) /\ k1 \notin Before(D, k1)
  BY KeyOrder DEF Before
<1>3. IsFiniteSet(Before(D, k2))
  BY FS_Subset DEF Before
<1>4. /\ Cardinality(Before(D, k1)) <= Cardinality(Before(D, k2))
      /\ Cardinality(Before(D, k1)) # Cardinality(Before(D, k2))
  BY <1>1, <1>2, <1>3, FS_Subset
<1>5. Cardinality(Before(D, k1)) \in Nat /\ Cardinality(Before(D, k2)) \in Nat
  BY <1>1, <1>3, FS_Subset, FS_CardinalityType
<1>6. QED BY <1>4, <1>5 DEF PosIn

(* Every position 1..|D| is the position of a key of the map.             *)
LEMMA PosOnto ==
    ASSUME NEW D \in SUBSET KeySpace, IsFiniteSet(D),
           NEW n \in 1..Cardinality(D)
    PROVE  \E k \in D : PosIn(D, k) = n
<1> DEFINE f == [k \in D |-> PosIn(D, k)]
<1>1. Cardinality(D) \in Nat
  BY FS_CardinalityType
<1>2. f \in Injection(D, 1..Cardinality(D))
  <2>1. f \in [D -> 1..Cardinality(D)]
    BY PosRange
  <2>2. ASSUME NEW a \in D, NEW b \in D, a # b PROVE f[a] # f[b]
    <3>1. KeyBefore(a, b) \/ KeyBefore(b, a)
      BY <2>2, KeyOrder
    <3>2. PosIn(D, a) \in Nat /\ PosIn(D, b) \in Nat
      BY PosRange
    <3>3. PosIn(D, a) # PosIn(D, b)
      BY <3>1, <3>2, PosInjective
    <3>4. QED BY <3>3 DEF f
  <2>3. QED BY <2>1, <2>2 DEF Injection, IsInjective
<1>3. IsFiniteSet(1..Cardinality(D)) /\ Cardinality(1..Cardinality(D)) = Cardinality(D)
  BY <1>1, FS_Interval
<1>4. f \in Surjection(D, 1..Cardinality(D))
  BY <1>2, <1>3, FS_Injection
<1>5. QED BY <1>4 DEF Surjection

(* The key Serialize writes at position n.                                *)
AtPos(D, n) == CHOOSE k \in D : PosIn(D, k) = n

(* Each position holds one key, and each key is at its position.          *)
LEMMA AtPosFacts ==
    ASSUME NEW D \in SUBSET KeySpace, IsFiniteSet(D)
    PROVE  /\ \A n \in 1..Cardinality(D) : AtPos(D, n) \in D /\ PosIn(D, AtPos(D, n)) = n
           /\ \A k \in D : AtPos(D, PosIn(D, k)) = k
<1>1. ASSUME NEW n \in 1..Cardinality(D) PROVE AtPos(D, n) \in D /\ PosIn(D, AtPos(D, n)) = n
  BY PosOnto DEF AtPos
<1>2. ASSUME NEW k \in D PROVE AtPos(D, PosIn(D, k)) = k
  <2>1. PosIn(D, k) \in 1..Cardinality(D)
    BY PosRange
  <2>2. AtPos(D, PosIn(D, k)) \in D /\ PosIn(D, AtPos(D, PosIn(D, k))) = PosIn(D, k)
    BY <2>1, <1>1
  <2>3. SUFFICES ASSUME AtPos(D, PosIn(D, k)) # k PROVE FALSE
    OBVIOUS
  <2>4. KeyBefore(AtPos(D, PosIn(D, k)), k) \/ KeyBefore(k, AtPos(D, PosIn(D, k)))
    BY <2>2, <2>3, KeyOrder
  <2>5. PosIn(D, AtPos(D, PosIn(D, k))) \in Nat /\ PosIn(D, k) \in Nat
    BY <2>1, <2>2, PosRange
  <2>6. QED BY <2>2, <2>4, <2>5, PosInjective
<1>3. QED BY <1>1, <1>2

(* Serialize lists the keys of a map by position, each with its value.    *)
LEMMA SerializeShape ==
    ASSUME NEW m, IsFiniteSet(DOMAIN m)
    PROVE  Serialize(m) = [n \in 1..Cardinality(DOMAIN m) |->
                              <<AtPos(DOMAIN m, n), m[AtPos(DOMAIN m, n)]>>]
BY DEF Serialize, AtPos, PosIn, Before

(* ParseParamStrHttp reads back the map archiveParamsSetUuid serialised.  *)
LEMMA ParseSerialize ==
    ASSUME NEW D \in SUBSET KeySpace, IsFiniteSet(D),
           NEW m, m \in [D -> {m[k] : k \in D}]
    PROVE  Parse(Serialize(m)) = m
<1> DEFINE s == [n \in 1..Cardinality(D) |-> <<AtPos(D, n), m[AtPos(D, n)]>>]
<1>0. Cardinality(D) \in Nat
  BY FS_CardinalityType
<1>1. Serialize(m) = s
  BY SerializeShape
<1>2. s \in Seq({<<k, m[k]>> : k \in D}) /\ Len(s) = Cardinality(D)
  BY <1>0, AtPosFacts
<1>3. KeysOf(s) = D
  <2>1. \A j \in 1..Len(s) : s[j][1] \in D
    BY <1>2, AtPosFacts
  <2>2. ASSUME NEW k \in D PROVE \E j \in 1..Len(s) : s[j][1] = k
    <3>1. PosIn(D, k) \in 1..Len(s)
      BY <1>2, PosRange
    <3>2. s[PosIn(D, k)][1] = k
      BY <3>1, <1>2, AtPosFacts
    <3>3. QED BY <3>1, <3>2
  <2>3. QED BY <2>1, <2>2 DEF KeysOf
<1>4. ASSUME NEW k \in D PROVE Parse(s)[k] = m[k]
  <2>1. PICK j \in 1..Len(s) : s[j][1] = k /\ Parse(s)[k] = s[j][2]
    BY <1>2, <1>3, ParseFacts
  <2>2. AtPos(D, j) = k /\ s[j][2] = m[AtPos(D, j)]
    BY <1>2, <2>1
  <2>3. QED BY <2>1, <2>2
<1>5. Parse(s) = [k \in D |-> Parse(s)[k]]
  BY <1>2, <1>3, ParseFacts
<1>6. QED BY <1>1, <1>4, <1>5

-----------------------------------------------------------------------------
(* The value a field of each kind holds.                                   *)
FieldOK(k, v) ==
    \/ k[1] = "uuid" /\ v \in UuidVal
    \/ k[1] \in {"backup_type", "every"} /\ v = "x"
    \/ k[1] \in {"next_archival", "timeleft"} /\ v = "t"

(* A pair of the value is a key and a value of the key's kind.            *)
LEMMA PairIff ==
    /\ \A p \in Pair : p = <<p[1], p[2]>> /\ p[1] \in KeySpace /\ FieldOK(p[1], p[2])
    /\ \A k \in KeySpace, v \in UuidVal \cup {"x", "t"} :
          FieldOK(k, v) => <<k, v>> \in Pair
<1>1. Kinds = {"backup_type", "every", "next_archival", "timeleft", "uuid"}
  BY RankInjective
<1>2. ASSUME NEW p \in Pair
      PROVE  p = <<p[1], p[2]>> /\ p[1] \in KeySpace /\ FieldOK(p[1], p[2])
  BY <1>1 DEF Pair, KeySpace, FieldOK
<1>3. ASSUME NEW k \in KeySpace, NEW v \in UuidVal \cup {"x", "t"}, FieldOK(k, v)
      PROVE  <<k, v>> \in Pair
  <2>1. k = <<k[1], k[2]>> /\ k[2] \in Idx /\ k[1] \in Kinds
    BY KeyParts
  <2>2. QED BY <1>1, <1>3, <2>1 DEF Pair, FieldOK
<1>4. QED BY <1>2, <1>3

(* A posted value is a sequence of pairs.                                  *)
LEMMA InputsArePairs == Inputs \subseteq Seq(Pair)
<1>0. ASSUME NEW r \in PostedUuid PROVE r \in UuidVal
  <2>1. r = [len |-> r.len, hex |-> r.hex, gen |-> r.gen, at |-> r.at]
        /\ r.len \in Lens /\ r.hex \in BOOLEAN /\ r.gen = 0 /\ r.at = 0
    BY DEF PostedUuid
  <2>2. r.len \in Nat
    BY <2>1
  <2>3. QED BY <2>1, <2>2 DEF UuidVal
<1>1. PostedPair \subseteq Pair
  BY <1>0 DEF PostedPair, Pair
<1>2. ASSUME NEW n \in 0..MaxPairs PROVE [1..n -> PostedPair] \subseteq Seq(Pair)
  BY <1>1
<1>3. QED BY <1>2 DEF Inputs

(* The parsed map of a value: its keys, and the keys and values of the   *)
(* map archiveParamsSetUuid serialises when it changed something.         *)
NewDom(s) == DOMAIN Parse(s) \cup {<<"uuid", i>> : i \in Missing(Parse(s))}
NewMap(s) == [k \in NewDom(s) |->
                 IF k \in Regen(Parse(s)) \/ k \notin DOMAIN Parse(s)
                 THEN FreshId(k[2]) ELSE Parse(s)[k]]

(* archiveParamsSetUuid returns its input unless it changed something,    *)
(* and then the serialised merged map.                                     *)
LEMMA SetUuidCases ==
    ASSUME NEW s
    PROVE  /\ ~Mod(s) => SetUuid(s) = s
           /\ Mod(s) => SetUuid(s) = Serialize(NewMap(s))
BY DEF SetUuid, NewMap, NewDom

(* The keys of a value form a finite set.                                  *)
LEMMA KeysFinite ==
    ASSUME NEW X, NEW s \in Seq(X)
    PROVE  IsFiniteSet(KeysOf(s))
<1> DEFINE f == [j \in 1..Len(s) |-> s[j][1]]
<1>1. f \in Surjection(1..Len(s), KeysOf(s))
  BY DEF Surjection, KeysOf
<1>2. IsFiniteSet(1..Len(s))
  BY FS_Interval
<1>3. QED BY <1>1, <1>2, FS_Surjection

(* The map parsed from a sequence of pairs has finitely many keys, and    *)
(* each holds a value of its kind.                                         *)
LEMMA ParamsFacts ==
    ASSUME NEW s \in Seq(Pair)
    PROVE  /\ DOMAIN Parse(s) \subseteq KeySpace
           /\ IsFiniteSet(DOMAIN Parse(s))
           /\ \A k \in DOMAIN Parse(s) :
                 FieldOK(k, Parse(s)[k]) /\ Parse(s)[k] \in UuidVal \cup {"x", "t"}
<1>1. DOMAIN Parse(s) = KeysOf(s)
  BY ParseFacts
<1>2. ASSUME NEW k \in DOMAIN Parse(s)
      PROVE  /\ k \in KeySpace
             /\ FieldOK(k, Parse(s)[k]) /\ Parse(s)[k] \in UuidVal \cup {"x", "t"}
  <2>1. PICK j \in 1..Len(s) : s[j][1] = k /\ Parse(s)[k] = s[j][2]
    BY <1>1, ParseFacts
  <2>2. s[j] \in Pair
    OBVIOUS
  <2>3. s[j][1] \in KeySpace /\ FieldOK(s[j][1], s[j][2])
    BY <2>2, PairIff
  <2>4. QED BY <2>1, <2>3 DEF FieldOK
<1>3. QED BY <1>1, <1>2, KeysFinite

(* The merged map has finitely many keys, and each holds a value of its  *)
(* kind: a fresh id is a uuid value.                                       *)
LEMMA NewMapFacts ==
    ASSUME NEW s \in Seq(Pair), draw \in {1, 2}
    PROVE  /\ NewDom(s) \subseteq KeySpace
           /\ IsFiniteSet(NewDom(s))
           /\ NewMap(s) \in [NewDom(s) -> {NewMap(s)[k] : k \in NewDom(s)}]
           /\ \A k \in NewDom(s) : <<k, NewMap(s)[k]>> \in Pair
<1> DEFINE P == Parse(s)
           A == {<<"uuid", i>> : i \in Missing(P)}
           B == {k \in DOMAIN P : k[1] = "backup_type"}
           g == [k \in B |-> <<"uuid", k[2]>>]
           G == {g[k] : k \in B}
<1>1. DOMAIN P \subseteq KeySpace /\ IsFiniteSet(DOMAIN P)
  BY ParamsFacts
<1>2. Kinds = {"backup_type", "every", "next_archival", "timeleft", "uuid"}
  BY RankInjective
<1>3. A \subseteq KeySpace
  <2>1. ASSUME NEW i \in Missing(P) PROVE <<"uuid", i>> \in KeySpace
    <3>1. i \in Idx /\ "uuid" \in Kinds
      BY <1>2 DEF Missing
    <3>2. QED BY <3>1 DEF KeySpace
  <2>2. QED BY <2>1 DEF A
<1>4. IsFiniteSet(A)
  <2>1. IsFiniteSet(B)
    BY <1>1, FS_Subset
  <2>2. g \in Surjection(B, G)
    BY DEF Surjection
  <2>3. IsFiniteSet(G)
    BY <2>1, <2>2, FS_Surjection
  <2>4. ASSUME NEW i \in Missing(P) PROVE <<"uuid", i>> \in G
    <3>1. <<"backup_type", i>> \in B
      BY DEF Missing, B
    <3>2. g[<<"backup_type", i>>] = <<"uuid", i>>
      BY <3>1 DEF g
    <3>3. QED BY <3>1, <3>2 DEF G
  <2>5. A \subseteq G
    BY <2>4 DEF A
  <2>6. QED BY <2>3, <2>5, FS_Subset
<1>5. NewDom(s) = DOMAIN P \cup A
  BY DEF NewDom
<1>6. NewDom(s) \subseteq KeySpace /\ IsFiniteSet(NewDom(s))
  BY <1>1, <1>3, <1>4, <1>5, FS_Union
<1>7. ASSUME NEW k \in NewDom(s) PROVE <<k, NewMap(s)[k]>> \in Pair
  <2>1. CASE k \in Regen(P) \/ k \notin DOMAIN P
    <3>1. k[1] = "uuid"
      BY <1>5, <2>1 DEF Regen
    <3>2. k[2] \in Idx
      BY <1>6, KeyParts
    <3>3. FreshId(k[2]) \in UuidVal
      BY <3>2 DEF FreshId, UuidVal
    <3>4. NewMap(s)[k] = FreshId(k[2])
      BY <2>1 DEF NewMap
    <3>5. QED BY <1>6, <3>1, <3>3, <3>4, PairIff DEF FieldOK
  <2>2. CASE ~(k \in Regen(P) \/ k \notin DOMAIN P)
    <3>1. NewMap(s)[k] = P[k] /\ k \in DOMAIN P
      BY <2>2 DEF NewMap
    <3>2. FieldOK(k, P[k]) /\ P[k] \in UuidVal \cup {"x", "t"}
      BY <3>1, ParamsFacts
    <3>3. QED BY <1>6, <3>1, <3>2, PairIff
  <2>3. QED BY <2>1, <2>2
<1>8. NewMap(s) \in [NewDom(s) -> {NewMap(s)[k] : k \in NewDom(s)}]
  BY DEF NewMap
<1>9. QED BY <1>6, <1>7, <1>8

(* Serialising a map of pairs of the value gives a sequence of pairs.    *)
LEMMA SerializePairs ==
    ASSUME NEW D \in SUBSET KeySpace, IsFiniteSet(D),
           NEW m, m \in [D -> {m[k] : k \in D}],
           \A k \in D : <<k, m[k]>> \in Pair
    PROVE  Serialize(m) \in Seq(Pair)
<1>1. Cardinality(D) \in Nat
  BY FS_CardinalityType
<1>2. Serialize(m) = [n \in 1..Cardinality(D) |-> <<AtPos(D, n), m[AtPos(D, n)]>>]
  BY SerializeShape
<1>3. Serialize(m) \in [1..Cardinality(D) -> Pair]
  BY <1>2, AtPosFacts
<1>4. QED BY <1>1, <1>3

(* IdsComplete and IdsStable of a value t saved for the posted value p0.  *)
Complete(t) ==
    LET m == Parse(t)
    IN  \A i \in Idx :
           (<<"backup_type", i>> \in DOMAIN m \/ <<"uuid", i>> \in DOMAIN m)
              => <<"uuid", i>> \in DOMAIN m /\ WellFormedId(m[<<"uuid", i>>])
Keeps(p0, t) ==
    LET p == Parse(p0)
        m == Parse(t)
    IN  \A k \in DOMAIN p :
           k[1] = "uuid" /\ WellFormedId(p[k]) => k \in DOMAIN m /\ m[k] = p[k]

(* What archiveParamsSetUuid returns for a value of pairs: a value of     *)
(* pairs in which every sub-record with a backup type or a uuid has a     *)
(* well-formed uuid, and which keeps every well-formed uuid of the input. *)
LEMMA SetUuidResult ==
    ASSUME NEW s \in Seq(Pair), draw \in {1, 2}
    PROVE  /\ SetUuid(s) \in Seq(Pair)
           /\ Complete(SetUuid(s))
           /\ Keeps(s, SetUuid(s))
<1>1. CASE ~Mod(s)
  <2>1. SetUuid(s) = s
    BY <1>1, SetUuidCases
  <2>2. Regen(Parse(s)) = {} /\ Missing(Parse(s)) = {}
    BY <1>1 DEF Mod
  <2>3. Complete(s)
    BY <2>2 DEF Complete, Regen, Missing, IsHexId, WellFormedId
  <2>4. Keeps(s, s)
    BY DEF Keeps
  <2>5. QED BY <2>1, <2>3, <2>4
<1>2. CASE Mod(s)
  <2>1. SetUuid(s) = Serialize(NewMap(s))
    BY <1>2, SetUuidCases
  <2>2. Parse(SetUuid(s)) = NewMap(s)
    BY <2>1, NewMapFacts, ParseSerialize
  <2>3. SetUuid(s) \in Seq(Pair)
    BY <2>1, NewMapFacts, SerializePairs
  <2>4. ASSUME NEW i \in Idx,
               <<"backup_type", i>> \in NewDom(s) \/ <<"uuid", i>> \in NewDom(s)
        PROVE  <<"uuid", i>> \in NewDom(s) /\ WellFormedId(NewMap(s)[<<"uuid", i>>])
    <3>1. <<"uuid", i>> \in NewDom(s)
      <4>1. CASE <<"uuid", i>> \in DOMAIN Parse(s)
        BY <4>1 DEF NewDom
      <4>2. CASE <<"uuid", i>> \notin DOMAIN Parse(s) /\ <<"uuid", i>> \in NewDom(s)
        BY <4>2
      <4>3. CASE <<"uuid", i>> \notin DOMAIN Parse(s) /\ <<"backup_type", i>> \in NewDom(s)
        <5>1. <<"backup_type", i>> \in DOMAIN Parse(s)
          BY <4>3 DEF NewDom
        <5>2. i \in Missing(Parse(s))
          BY <4>3, <5>1 DEF Missing
        <5>3. QED BY <5>2 DEF NewDom
      <4>4. QED BY <2>4, <4>1, <4>2, <4>3
    <3>2. CASE <<"uuid", i>> \in Regen(Parse(s)) \/ <<"uuid", i>> \notin DOMAIN Parse(s)
      <4>1. NewMap(s)[<<"uuid", i>>] = FreshId(i)
        BY <3>1, <3>2 DEF NewMap
      <4>2. QED BY <3>1, <4>1 DEF FreshId, WellFormedId
    <3>3. CASE ~(<<"uuid", i>> \in Regen(Parse(s)) \/ <<"uuid", i>> \notin DOMAIN Parse(s))
      <4>1. NewMap(s)[<<"uuid", i>>] = Parse(s)[<<"uuid", i>>]
        BY <3>1, <3>3 DEF NewMap
      <4>2. IsHexId(Parse(s)[<<"uuid", i>>])
        BY <3>3 DEF Regen
      <4>3. QED BY <3>1, <4>1, <4>2 DEF IsHexId, WellFormedId
    <3>4. QED BY <3>1, <3>2, <3>3
  <2>5. DOMAIN NewMap(s) = NewDom(s)
    BY DEF NewMap
  <2>6. Complete(SetUuid(s))
    BY <2>2, <2>4, <2>5 DEF Complete
  <2>7. ASSUME NEW k \in DOMAIN Parse(s), k[1] = "uuid", WellFormedId(Parse(s)[k])
        PROVE  k \in NewDom(s) /\ NewMap(s)[k] = Parse(s)[k]
    <3>1. k \notin Regen(Parse(s))
      BY <2>7 DEF Regen, IsHexId, WellFormedId
    <3>2. QED BY <3>1 DEF NewDom, NewMap
  <2>8. Keeps(s, SetUuid(s))
    BY <2>2, <2>7, <2>5 DEF Keeps
  <2>9. QED BY <2>3, <2>6, <2>8
<1>3. QED BY <1>1, <1>2

-----------------------------------------------------------------------------
(* The invariants of the archive setting, together.                       *)
ArchiveInv == ArchiveTypeOK /\ IdsComplete /\ IdsStable

(* A save stores the empty value or archiveParamsSetUuid's result: a      *)
(* complete value of pairs that keeps the posted ids.                      *)
LEMMA SaveStep ==
    ASSUME ArchiveTypeOK, NEW post \in Inputs \cup {Absent}, Save(post)
    PROVE  ArchiveInv'
<1>1. /\ stored' \in Seq(Pair) /\ Complete(stored')
      /\ post # Absent => Keeps(post, stored')
  <2>1. CASE post = Absent
    <3>1. stored' = <<>>
      BY <2>1 DEF Save, EncodePost
    <3>2. DOMAIN Parse(<<>>) = {}
      BY DEF Parse, KeysOf
    <3>3. QED BY <2>1, <3>1, <3>2 DEF Complete
  <2>2. CASE post # Absent
    <3>1. stored' = SetUuid(post) /\ post \in Seq(Pair)
      BY <2>2, InputsArePairs DEF Save, EncodePost
    <3>2. draw \in {1, 2}
      BY DEF ArchiveTypeOK
    <3>3. QED BY <2>2, <3>1, <3>2, SetUuidResult
  <2>3. QED BY <2>1, <2>2
<1>4. ArchiveTypeOK'
  BY <1>1 DEF Save, ArchiveTypeOK
<1>5. IdsComplete'
  BY <1>1 DEF IdsComplete, Complete
<1>6. IdsStable'
  BY <1>1 DEF Save, IdsStable, Keeps
<1>7. QED BY <1>4, <1>5, <1>6 DEF ArchiveInv

(* The archiver registers schedule rows only for uuid values.             *)
LEMMA ScheduleStep ==
    ASSUME ArchiveInv, Schedule
    PROVE  ArchiveInv'
<1>1. stored \in Seq(Pair)
  BY DEF ArchiveInv, ArchiveTypeOK
<1>2. ASSUME NEW k \in DOMAIN Parse(stored), k[1] = "uuid"
      PROVE  Parse(stored)[k] \in UuidVal
  <2>1. FieldOK(k, Parse(stored)[k])
    BY <1>1, ParamsFacts
  <2>2. QED BY <1>2, <2>1 DEF FieldOK
<1>3. sched' \subseteq UuidVal
  BY <1>2 DEF Schedule
<1>4. UNCHANGED <<draw, stored, posted, page>>
  BY DEF Schedule
<1>5. ArchiveTypeOK'
  BY <1>3, <1>4 DEF ArchiveInv, ArchiveTypeOK
<1>6. IdsComplete' /\ IdsStable'
  BY <1>4 DEF ArchiveInv, IdsComplete, IdsStable
<1>7. QED BY <1>5, <1>6 DEF ArchiveInv

(* A resolve changes only which sub-records the page annotates.           *)
LEMMA ResolveStep ==
    ASSUME ArchiveInv, Resolve
    PROVE  ArchiveInv'
<1>1. UNCHANGED <<draw, stored, posted, sched>> /\ page' \subseteq Idx
  BY DEF Resolve
<1>2. ArchiveTypeOK'
  BY <1>1 DEF ArchiveInv, ArchiveTypeOK
<1>3. IdsComplete' /\ IdsStable'
  BY <1>1 DEF ArchiveInv, IdsComplete, IdsStable
<1>4. QED BY <1>2, <1>3 DEF ArchiveInv

(* Nothing is stored before the first save.                                *)
LEMMA ArchiveInvInit ==
    ArchiveInit => ArchiveInv
<1> SUFFICES ASSUME ArchiveInit PROVE ArchiveInv
  OBVIOUS
<1>1. DOMAIN Parse(stored) = {}
  BY DEF ArchiveInit, Parse, KeysOf
<1>2. ArchiveTypeOK
  BY DEF ArchiveInit, ArchiveTypeOK
<1>3. IdsComplete /\ IdsStable
  BY <1>1 DEF ArchiveInit, IdsComplete, IdsStable
<1>4. QED BY <1>2, <1>3 DEF ArchiveInv

(* Every step of the archive setting keeps the invariants.                *)
LEMMA ArchiveInvStep ==
    ArchiveInv /\ [ArchiveNext]_vars => ArchiveInv'
<1> SUFFICES ASSUME ArchiveInv, [ArchiveNext]_vars PROVE ArchiveInv'
  OBVIOUS
<1>1. CASE \E post \in Inputs \cup {Absent} : Save(post)
  BY <1>1, SaveStep DEF ArchiveInv
<1>2. CASE Schedule
  BY <1>2, ScheduleStep
<1>3. CASE Resolve
  BY <1>3, ResolveStep
<1>4. CASE UNCHANGED vars
  BY <1>4 DEF vars, ArchiveInv, ArchiveTypeOK, IdsComplete, IdsStable
<1>5. QED BY <1>1, <1>2, <1>3, <1>4 DEF ArchiveNext

(* The archive setting holds an inductive invariant.                       *)
LEMMA ArchiveInvHolds ==
    ArchiveSpec => []ArchiveInv
BY ArchiveInvInit, ArchiveInvStep, PTL DEF ArchiveSpec

(* The stored archive value is always a sequence of pairs of the value's  *)
(* kinds, and the posted value, the schedule and the page have their types *)
(* (archiveParamsSetUuid, updateClientSettings, the archiver, addNextArchival). *)
THEOREM ArchiveTypeCorrect ==
    ArchiveSpec => []ArchiveTypeOK
BY ArchiveInvHolds, PTL DEF ArchiveInv

(* After every save, each sub-record of the stored archive value with a  *)
(* backup_type_<i> or a uuid_<i> has a uuid_<i> of an even number of hex  *)
(* digits (archiveParamsSetUuid with its re-serialisation), for every     *)
(* index set, posted length and duplicate-key policy of ParseParamStrHttp. *)
THEOREM IdsCompleteHolds ==
    ArchiveSpec => []IdsComplete
BY ArchiveInvHolds, PTL DEF ArchiveInv

(* Every well-formed uuid the client posted is the one stored for its     *)
(* sub-record, also when archiveParamsSetUuid re-serialised the value.    *)
THEOREM IdsStableHolds ==
    ArchiveSpec => []IdsStable
BY ArchiveInvHolds, PTL DEF ArchiveInv

====
