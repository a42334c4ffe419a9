--------------------- MODULE FragmentationProofs ---------------------
(* Proofs about the reassembly of fragments, for any number of sources, any
   sizes, limits and timeouts. *)
EXTENDS Fragmentation, TLAPS, FiniteSetTheorems, WellFoundedInduction,
        SequenceTheorems

-----------------------------------------------------------------------------
(* The sum of the bytes reserved.  MapThenSumSet is a recursive function over
   the subsets of a set; what follows shows that for finite sets it exists, and
   that the order in which it picks elements does not matter.  Induction is by
   a smallest counterexample (WFMin). *)

Pick(S) == CHOOSE x \in S : TRUE
SumStep(ps, g, S) ==
    IF S = {} THEN 0 ELSE ps[Pick(S)].total + g[S \ {Pick(S)}]
IsSum(ps, g, T) == g = [S \in SUBSET T |-> SumStep(ps, g, S)]
SumOver(ps, T) == CHOOSE g : IsSum(ps, g, T)
KeysOf(ps, ss) == {k \in DOMAIN ps : k[1] \in ss}
Bytes(ps, T) == SumOver(ps, T)[T]

LEMMA UsageIsSum ==
    ASSUME NEW ps, NEW ss
    PROVE  Usage(ps, ss) = [messages |-> Cardinality(KeysOf(ps, ss)),
                            bytes |-> Bytes(ps, KeysOf(ps, ss))]
BY DEF Usage, KeysOf, MapThenSumSet, MapThenFoldSet, Bytes, SumOver, IsSum,
       SumStep, Pick

LEMMA PickMember ==
    ASSUME NEW S, S # {}
    PROVE  Pick(S) \in S
BY Zenon DEF Pick

(* Every set of finite sets has a minimal member. *)
LEMMA MinimalSet ==
    ASSUME NEW U, NEW Bad, Bad # {}, \A S \in Bad : S \in SUBSET U /\ IsFiniteSet(S)
    PROVE  \E S \in Bad : \A T \in SUBSET S : T # S => T \notin Bad
<1>1. IsWellFoundedOn(StrictSubsetOrdering(U), FiniteSubsetsOf(U))
  BY FS_StrictSubsetOrderingWellFounded
<1>2. Bad \subseteq FiniteSubsetsOf(U)
  BY DEF FiniteSubsetsOf
<1>3. PICK S \in Bad : \A T \in Bad : ~(<<T, S>> \in StrictSubsetOrdering(U))
  BY <1>1, <1>2, WFMin
<1>. QED  BY <1>3, <1>2 DEF StrictSubsetOrdering, FiniteSubsetsOf

(* Two such functions agree where both are defined. *)
LEMMA SumUnique ==
    ASSUME NEW ps, NEW qs, NEW T, NEW R, NEW g, NEW h,
           IsSum(ps, g, T), IsSum(qs, h, R),
           NEW V, V \subseteq T, V \subseteq R, IsFiniteSet(V),
           \A k \in V : ps[k].total = qs[k].total
    PROVE  g[V] = h[V]
<1>. DEFINE Bad == {S \in SUBSET V : g[S] # h[S]}
<1>. SUFFICES ASSUME Bad # {} PROVE FALSE
  OBVIOUS
<1>1. \A S \in Bad : S \in SUBSET V /\ IsFiniteSet(S)
  BY FS_Subset
<1>2. PICK S \in Bad : \A W \in SUBSET S : W # S => W \notin Bad
  <2>. HIDE DEF Bad
  <2>. QED  BY <1>1, MinimalSet
<1>3. /\ g[S] = SumStep(ps, g, S)
      /\ h[S] = SumStep(qs, h, S)
  BY <1>1 DEF IsSum
<1>4. CASE S = {}
  BY <1>3, <1>4 DEF SumStep
<1>5. CASE S # {}
  <2>1. Pick(S) \in S
    BY <1>5, PickMember
  <2>2. g[S \ {Pick(S)}] = h[S \ {Pick(S)}]
    BY <2>1, <1>2
  <2>. QED  BY <2>1, <2>2, <1>3, <1>5 DEF SumStep
<1>. QED  BY <1>4, <1>5

(* They exist for every finite set. *)
LEMMA SumExists ==
    ASSUME NEW ps, NEW T, IsFiniteSet(T)
    PROVE  IsSum(ps, SumOver(ps, T), T)
<1>. DEFINE Bad == {S \in SUBSET T : ~ IsSum(ps, SumOver(ps, S), S)}
<1>. SUFFICES ASSUME Bad # {} PROVE FALSE
  OBVIOUS
<1>1. \A S \in Bad : S \in SUBSET T /\ IsFiniteSet(S)
  BY FS_Subset
<1>2. PICK S \in Bad : \A W \in SUBSET S : W # S => W \notin Bad
  <2>. HIDE DEF Bad
  <2>. QED  BY <1>1, MinimalSet
<1>3. \A W \in SUBSET S : W # S => IsSum(ps, SumOver(ps, W), W)
  BY <1>2
<1>. DEFINE G == [W \in SUBSET S |-> IF W = S THEN SumStep(ps, [V \in SUBSET S |-> SumOver(ps, V)[V]], S)
                                     ELSE SumOver(ps, W)[W]]
<1>4. ASSUME NEW W \in SUBSET S, W # S
      PROVE  G[W] = SumStep(ps, G, W)
  <2>1. IsSum(ps, SumOver(ps, W), W)
    BY <1>3, <1>4
  <2>2. G[W] = SumStep(ps, SumOver(ps, W), W)
    BY <2>1, <1>4 DEF IsSum
  <2>3. CASE W = {}
    BY <2>2, <2>3 DEF SumStep
  <2>4. CASE W # {}
    <3>. DEFINE V == W \ {Pick(W)}
    <3>1. V \in SUBSET W /\ V \in SUBSET S /\ V # S
      BY <1>4, <2>4
    <3>2. IsSum(ps, SumOver(ps, V), V) /\ IsFiniteSet(V)
      BY <3>1, <1>3, <1>1, FS_Subset
    <3>3. SumOver(ps, W)[V] = SumOver(ps, V)[V]
      BY <3>1, <3>2, <2>1, SumUnique
    <3>4. G[V] = SumOver(ps, V)[V]
      BY <3>1
    <3>. QED  BY <3>3, <3>4, <2>2, <2>4 DEF SumStep
  <2>. QED  BY <2>3, <2>4
<1>5. G[S] = SumStep(ps, G, S)
  <2>1. CASE S = {}
    BY <2>1 DEF SumStep
  <2>2. CASE S # {}
    <3>1. Pick(S) \in S
      BY <2>2, PickMember
    <3>. QED  BY <3>1, <2>2 DEF SumStep
  <2>. QED  BY <2>1, <2>2
<1>6. IsSum(ps, G, S)
  <2>1. \A W \in SUBSET S : G[W] = SumStep(ps, G, W)
    BY <1>4, <1>5
  <2>. QED  BY <2>1 DEF IsSum
<1>7. IsSum(ps, SumOver(ps, S), S)
  <2>. HIDE DEF G
  <2>. QED  BY <1>6, Zenon DEF SumOver
<1>. QED  BY <1>7, <1>2

LEMMA BytesEmpty ==
    ASSUME NEW ps
    PROVE  Bytes(ps, {}) = 0
<1>1. IsSum(ps, SumOver(ps, {}), {})
  BY SumExists, FS_EmptySet
<1>. QED  BY <1>1 DEF IsSum, SumStep, Bytes

LEMMA BytesStep ==
    ASSUME NEW ps, NEW T, IsFiniteSet(T), T # {}
    PROVE  Bytes(ps, T) = ps[Pick(T)].total + Bytes(ps, T \ {Pick(T)})
<1>. DEFINE V == T \ {Pick(T)}
<1>1. IsFiniteSet(V) /\ V \subseteq T
  BY FS_Subset
<1>2. IsSum(ps, SumOver(ps, T), T) /\ IsSum(ps, SumOver(ps, V), V)
  BY <1>1, SumExists
<1>3. SumOver(ps, T)[V] = SumOver(ps, V)[V]
  BY <1>1, <1>2, SumUnique
<1>4. SumOver(ps, T)[T] = SumStep(ps, SumOver(ps, T), T)
  BY <1>2 DEF IsSum
<1>. QED  BY <1>3, <1>4 DEF Bytes, SumStep

LEMMA BytesSame ==
    ASSUME NEW ps, NEW qs, NEW T, IsFiniteSet(T),
           \A k \in T : ps[k].total = qs[k].total
    PROVE  Bytes(ps, T) = Bytes(qs, T)
<1>1. IsSum(ps, SumOver(ps, T), T) /\ IsSum(qs, SumOver(qs, T), T)
  BY SumExists
<1>. QED  BY <1>1, SumUnique DEF Bytes

LEMMA BytesNat ==
    ASSUME NEW ps, NEW T, IsFiniteSet(T), \A k \in T : ps[k].total \in Nat
    PROVE  Bytes(ps, T) \in Nat
<1>. DEFINE Bad == {S \in SUBSET T : Bytes(ps, S) \notin Nat}
<1>. SUFFICES ASSUME Bad # {} PROVE FALSE
  OBVIOUS
<1>1. \A S \in Bad : S \in SUBSET T /\ IsFiniteSet(S)
  BY FS_Subset
<1>2. PICK S \in Bad : \A W \in SUBSET S : W # S => W \notin Bad
  <2>. HIDE DEF Bad
  <2>. QED  BY <1>1, MinimalSet
<1>3. S # {}
  BY BytesEmpty
<1>4. Pick(S) \in S /\ Bytes(ps, S) = ps[Pick(S)].total + Bytes(ps, S \ {Pick(S)})
  BY <1>1, <1>3, PickMember, BytesStep
<1>5. Bytes(ps, S \ {Pick(S)}) \in Nat
  BY <1>2, <1>4
<1>. QED  BY <1>1, <1>4, <1>5

(* Any element may be taken first. *)
LEMMA BytesRemove ==
    ASSUME NEW ps, NEW T, IsFiniteSet(T), \A k \in T : ps[k].total \in Nat,
           NEW x \in T
    PROVE  Bytes(ps, T) = ps[x].total + Bytes(ps, T \ {x})
<1>. DEFINE Bad == {S \in SUBSET T :
                      \E y \in S : Bytes(ps, S) # ps[y].total + Bytes(ps, S \ {y})}
<1>. SUFFICES ASSUME Bad # {} PROVE FALSE
  OBVIOUS
<1>1. \A S \in Bad : S \in SUBSET T /\ IsFiniteSet(S)
  BY FS_Subset
<1>2. PICK S \in Bad : \A W \in SUBSET S : W # S => W \notin Bad
  <2>. HIDE DEF Bad
  <2>. QED  BY <1>1, MinimalSet
<1>3. PICK y \in S : Bytes(ps, S) # ps[y].total + Bytes(ps, S \ {y})
  OBVIOUS
<1>. DEFINE z == Pick(S)
<1>4. z \in S /\ Bytes(ps, S) = ps[z].total + Bytes(ps, S \ {z})
  BY <1>1, <1>3, PickMember, BytesStep
<1>5. z # y
  BY <1>3, <1>4
<1>. HIDE DEF z
<1>6. /\ S \ {z} \notin Bad /\ y \in S \ {z}
      /\ S \ {y} \notin Bad /\ z \in S \ {y}
  BY <1>2, <1>4, <1>5
<1>7. Bytes(ps, S \ {z}) = ps[y].total + Bytes(ps, (S \ {z}) \ {y})
  BY <1>1, <1>6
<1>8. Bytes(ps, S \ {y}) = ps[z].total + Bytes(ps, (S \ {y}) \ {z})
  BY <1>1, <1>6
<1>9. (S \ {z}) \ {y} = (S \ {y}) \ {z}
  OBVIOUS
<1>10. /\ ps[y].total \in Nat /\ ps[z].total \in Nat
       /\ Bytes(ps, (S \ {y}) \ {z}) \in Nat
  <2>1. IsFiniteSet((S \ {y}) \ {z}) /\ (S \ {y}) \ {z} \subseteq T
    BY <1>1, FS_Subset
  <2>. QED  BY <1>1, <1>4, <2>1, BytesNat
<1>11. Bytes(ps, S \ {y}) = ps[z].total + Bytes(ps, (S \ {z}) \ {y})
  BY <1>8, <1>9
<1>12. Bytes(ps, S) = ps[z].total + (ps[y].total + Bytes(ps, (S \ {z}) \ {y}))
  BY <1>4, <1>7
<1>13. \A a, b, c \in Nat : a + (b + c) = b + (a + c)
  OBVIOUS
<1>14. Bytes(ps, (S \ {z}) \ {y}) \in Nat
  BY <1>9, <1>10
<1>15. Bytes(ps, S) = ps[y].total + (ps[z].total + Bytes(ps, (S \ {z}) \ {y}))
  BY <1>10, <1>12, <1>13, <1>14
<1>. QED  BY <1>3, <1>11, <1>15

LEMMA BytesUnion ==
    ASSUME NEW ps, NEW A, NEW B, IsFiniteSet(A), IsFiniteSet(B), A \cap B = {},
           \A k \in A \cup B : ps[k].total \in Nat
    PROVE  Bytes(ps, A \cup B) = Bytes(ps, A) + Bytes(ps, B)
<1>. DEFINE Bad == {S \in SUBSET B : Bytes(ps, A \cup S) # Bytes(ps, A) + Bytes(ps, S)}
<1>. SUFFICES ASSUME Bad # {} PROVE FALSE
  OBVIOUS
<1>1. \A S \in Bad : S \in SUBSET B /\ IsFiniteSet(S)
  BY FS_Subset
<1>2. PICK S \in Bad : \A W \in SUBSET S : W # S => W \notin Bad
  <2>. HIDE DEF Bad
  <2>. QED  BY <1>1, MinimalSet
<1>3. Bytes(ps, A) \in Nat
  BY BytesNat
<1>4. CASE S = {}
  <2>1. A \cup S = A
    BY <1>4
  <2>. QED  BY <1>2, <1>3, <1>4, <2>1, BytesEmpty
<1>5. CASE S # {}
  <2>1. PICK x : x \in S
    BY <1>5
  <2>2. Bytes(ps, A \cup (S \ {x})) = Bytes(ps, A) + Bytes(ps, S \ {x})
    BY <1>1, <1>2, <2>1
  <2>3. Bytes(ps, S) = ps[x].total + Bytes(ps, S \ {x})
    BY <1>1, <2>1, BytesRemove
  <2>4. IsFiniteSet(A \cup S)
    BY <1>1, FS_Union
  <2>5. Bytes(ps, A \cup S) = ps[x].total + Bytes(ps, (A \cup S) \ {x})
    BY <1>1, <2>1, <2>4, BytesRemove
  <2>6. (A \cup S) \ {x} = A \cup (S \ {x})
    BY <1>1, <2>1
  <2>7. ps[x].total \in Nat /\ Bytes(ps, S \ {x}) \in Nat
    <3>1. IsFiniteSet(S \ {x}) /\ S \ {x} \subseteq B
      BY <1>1, FS_Subset
    <3>. QED  BY <1>1, <2>1, <3>1, BytesNat
  <2>8. \A a, b, c \in Nat : a + (b + c) = b + (a + c)
    OBVIOUS
  <2>9. Bytes(ps, A \cup S) = ps[x].total + (Bytes(ps, A) + Bytes(ps, S \ {x}))
    BY <2>2, <2>5, <2>6
  <2>10. Bytes(ps, A \cup S) = Bytes(ps, A) + Bytes(ps, S)
    BY <1>3, <2>3, <2>7, <2>8, <2>9
  <2>. QED  BY <1>2, <2>10
<1>. QED  BY <1>4, <1>5

LEMMA BytesSubset ==
    ASSUME NEW ps, NEW A, NEW B, IsFiniteSet(B), A \subseteq B,
           \A k \in B : ps[k].total \in Nat
    PROVE  Bytes(ps, A) <= Bytes(ps, B)
<1>1. IsFiniteSet(A) /\ IsFiniteSet(B \ A) /\ B = A \cup (B \ A)
  BY FS_Subset
<1>2. Bytes(ps, B) = Bytes(ps, A) + Bytes(ps, B \ A)
  BY <1>1, BytesUnion
<1>3. Bytes(ps, A) \in Nat /\ Bytes(ps, B \ A) \in Nat
  BY <1>1, BytesNat
<1>. QED  BY <1>2, <1>3

-----------------------------------------------------------------------------
(* The usage of a set of sources *)

(* What TypeOK says of the incomplete messages. *)
PartialsType(ps) ==
    /\ DOMAIN ps \subseteq Sources \X Nat
    /\ IsFiniteSet(DOMAIN ps)
    /\ ps \in [DOMAIN ps -> Partial]

LEMMA KeysFinite ==
    ASSUME NEW ps, PartialsType(ps), NEW ss
    PROVE  /\ IsFiniteSet(KeysOf(ps, ss))
           /\ \A k \in KeysOf(ps, ss) : ps[k].total \in Nat
           /\ Cardinality(KeysOf(ps, ss)) \in Nat
           /\ Bytes(ps, KeysOf(ps, ss)) \in Nat
<1>1. KeysOf(ps, ss) \in SUBSET DOMAIN ps
  BY DEF KeysOf
<1>2. IsFiniteSet(KeysOf(ps, ss))
  BY <1>1, FS_Subset DEF PartialsType
<1>3. \A k \in KeysOf(ps, ss) : ps[k].total \in Nat
  BY <1>1, SizesAssumption DEF PartialsType, Partial
<1>. QED  BY <1>2, <1>3, FS_CardinalityType, BytesNat

(* Removing messages frees room. *)
LEMMA UsageShrinks ==
    ASSUME NEW ps, PartialsType(ps), NEW qs, DOMAIN qs \subseteq DOMAIN ps,
           \A k \in DOMAIN qs : qs[k].total = ps[k].total, NEW ss
    PROVE  /\ Usage(qs, ss).messages \in Nat /\ Usage(qs, ss).bytes \in Nat
           /\ Usage(qs, ss).messages <= Usage(ps, ss).messages
           /\ Usage(qs, ss).bytes <= Usage(ps, ss).bytes
<1>. DEFINE P == KeysOf(ps, ss)
            Q == KeysOf(qs, ss)
<1>1. Q \subseteq P
  BY DEF KeysOf
<1>2. /\ IsFiniteSet(P) /\ \A k \in P : ps[k].total \in Nat
      /\ Cardinality(P) \in Nat /\ Bytes(ps, P) \in Nat
  BY KeysFinite
<1>3. IsFiniteSet(Q) /\ Cardinality(Q) <= Cardinality(P) /\ Cardinality(Q) \in Nat
  BY <1>1, <1>2, FS_Subset, FS_CardinalityType
<1>4. \A k \in Q : qs[k].total = ps[k].total
  BY DEF KeysOf
<1>5. Bytes(qs, Q) = Bytes(ps, Q)
  BY <1>3, <1>4, BytesSame
<1>6. Bytes(ps, Q) <= Bytes(ps, P) /\ Bytes(ps, Q) \in Nat
  BY <1>1, <1>2, <1>3, BytesSubset, BytesNat
<1>. QED  BY <1>3, <1>5, <1>6, UsageIsSum

(* A new message counts once, for its own source and pool. *)
LEMMA UsageOfPut ==
    ASSUME NEW ps, PartialsType(ps), NEW k \in Sources \X Nat, k \notin DOMAIN ps,
           NEW p \in Partial, NEW ss
    PROVE  IF k[1] \in ss
           THEN /\ Usage(Put(ps, k, p), ss).messages = Usage(ps, ss).messages + 1
                /\ Usage(Put(ps, k, p), ss).bytes = Usage(ps, ss).bytes + p.total
           ELSE /\ Usage(Put(ps, k, p), ss).messages = Usage(ps, ss).messages
                /\ Usage(Put(ps, k, p), ss).bytes = Usage(ps, ss).bytes
<1>. DEFINE qs == Put(ps, k, p)
            P == KeysOf(ps, ss)
            Q == KeysOf(qs, ss)
<1>0. p.total \in Nat
  BY SizesAssumption DEF Partial
<1>1. /\ DOMAIN qs = DOMAIN ps \cup {k}
      /\ qs[k] = p
      /\ \A j \in DOMAIN ps : qs[j] = ps[j]
  BY DEF Put
<1>2. /\ IsFiniteSet(P) /\ \A j \in P : ps[j].total \in Nat
      /\ Cardinality(P) \in Nat /\ Bytes(ps, P) \in Nat
  BY KeysFinite
<1>3. k \notin P /\ \A j \in P : qs[j] = ps[j]
  BY <1>1 DEF KeysOf
<1>4. Bytes(qs, P) = Bytes(ps, P)
  BY <1>2, <1>3, BytesSame
<1>5. CASE k[1] \in ss
  <2>1. Q = P \cup {k}
    BY <1>1, <1>5 DEF KeysOf
  <2>2. IsFiniteSet(Q) /\ Cardinality(Q) = Cardinality(P) + 1
    <3>. HIDE DEF P, Q
    <3>. QED  BY <1>2, <1>3, <2>1, FS_AddElement
  <2>3. \A j \in Q : qs[j].total \in Nat
    <3>. HIDE DEF P, Q
    <3>. QED  BY <1>0, <1>1, <1>2, <1>3, <2>1
  <2>4. Bytes(qs, Q) = qs[k].total + Bytes(qs, Q \ {k})
    BY <2>1, <2>2, <2>3, BytesRemove
  <2>5. Q \ {k} = P
    BY <1>3, <2>1
  <2>6. Bytes(qs, Q) = p.total + Bytes(ps, P)
    <3>. HIDE DEF P, Q, qs
    <3>. QED  BY <1>1, <1>4, <2>4, <2>5
  <2>. QED  BY <1>0, <1>2, <1>5, <2>2, <2>6, UsageIsSum
<1>6. CASE k[1] \notin ss
  <2>1. Q = P
    BY <1>1, <1>6 DEF KeysOf
  <2>. QED  BY <1>4, <1>6, <2>1, UsageIsSum
<1>. QED  BY <1>5, <1>6

(* A message that goes on keeps what it reserved. *)
LEMMA UsageOfUpdate ==
    ASSUME NEW ps, PartialsType(ps), NEW k \in DOMAIN ps,
           NEW p, p.total = ps[k].total, NEW ss
    PROVE  /\ Usage(Put(ps, k, p), ss).messages = Usage(ps, ss).messages
           /\ Usage(Put(ps, k, p), ss).bytes = Usage(ps, ss).bytes
<1>. DEFINE qs == Put(ps, k, p)
            P == KeysOf(ps, ss)
<1>1. DOMAIN qs = DOMAIN ps /\ \A j \in DOMAIN ps : qs[j].total = ps[j].total
  BY DEF Put
<1>2. KeysOf(qs, ss) = P /\ \A j \in P : qs[j].total = ps[j].total
  BY <1>1 DEF KeysOf
<1>3. Bytes(qs, P) = Bytes(ps, P)
  BY <1>2, BytesSame, KeysFinite
<1>. QED  BY <1>2, <1>3, UsageIsSum

-----------------------------------------------------------------------------
(* Fragments *)

LEMMA DivBounds ==
    ASSUME NEW a \in Nat, NEW b \in Nat, b > 0
    PROVE  /\ a \div b \in Nat
           /\ (a \div b) * b <= a
           /\ a < (a \div b) * b + b
OBVIOUS

LEMMA Multiples ==
    ASSUME NEW i \in Nat, NEW c \in Nat, NEW F \in Nat, i < c
    PROVE  i * F + F <= c * F
<1>1. PICK d \in Nat : c = i + 1 + d
  <2>1. c - i - 1 \in Nat /\ c = i + 1 + (c - i - 1)
    OBVIOUS
  <2>. QED  BY <2>1
<1>2. c * F = i * F + F + d * F
  BY <1>1
<1>3. d * F \in Nat /\ i * F \in Nat
  OBVIOUS
<1>. QED  BY <1>2, <1>3

LEMMA MinOfTwo ==
    ASSUME NEW a \in Nat, NEW b \in Nat
    PROVE  Min({a, b}) = IF a <= b THEN a ELSE b
BY DEF Min

LEMMA FragmentLenNat == FragmentLen \in Nat
BY SizesAssumption DEF FragmentLen

(* The i-th fragment starts within the message, and only the last one ends
   with it. *)
LEMMA FragmentBounds ==
    ASSUME NEW len \in Nat, FragmentLen > 0, NEW i \in Nat, i < FragmentCount(len)
    PROVE  /\ FragmentCount(len) \in Nat
           /\ i * FragmentLen \in Nat /\ (i + 1) * FragmentLen \in Nat
           /\ (i + 1) * FragmentLen = i * FragmentLen + FragmentLen
           /\ i * FragmentLen < len
           /\ i + 1 < FragmentCount(len) => (i + 1) * FragmentLen < len
           /\ i + 1 = FragmentCount(len) => len <= (i + 1) * FragmentLen
<1>. DEFINE F == FragmentLen
            c == FragmentCount(len)
<1>1. F \in Nat
  BY FragmentLenNat
<1>2. len + F - 1 \in Nat
  BY <1>1
<1>3. c \in Nat /\ c * F <= len + F - 1 /\ len + F - 1 < c * F + F
  <2>. HIDE DEF F
  <2>. QED  BY <1>1, <1>2, DivBounds DEF FragmentCount, F
<1>. HIDE DEF F, c
<1>4. /\ i * F \in Nat /\ (i + 1) * F = i * F + F /\ c * F \in Nat
  BY <1>1, <1>3
<1>5. i * F + F <= c * F
  BY <1>1, <1>3, Multiples DEF c
<1>6. i * F < len
  BY <1>1, <1>3, <1>4, <1>5
<1>7. ASSUME i + 1 < c PROVE (i + 1) * F < len
  <2>1. (i + 1) * F + F <= c * F
    BY <1>1, <1>3, <1>7, Multiples
  <2>. QED  BY <1>1, <1>3, <1>4, <2>1
<1>8. ASSUME i + 1 = c PROVE len <= (i + 1) * F
  BY <1>1, <1>3, <1>4, <1>8
<1>. QED  BY <1>1, <1>3, <1>4, <1>6, <1>7, <1>8 DEF F, c

LEMMA PayloadSeq ==
    ASSUME NEW s \in Sources, NEW n \in Nat, NEW len \in Nat
    PROVE  Payload(s, n, len) \in Seq(Byte) /\ Len(Payload(s, n, len)) = len
<1>1. Payload(s, n, len) \in [1 .. len -> Byte]
  BY DEF Payload, Byte
<1>. QED  BY <1>1, IsASeq

(* Where the next fragment of m ends. *)
FragmentEnd(m) == Min({m.len, m.next * FragmentLen + FragmentLen})

(* A task of which a fragment is left. *)
Unfinished(m) ==
    /\ m.id = m.no /\ FragmentLen > 0 /\ m.len <= MaxPayloadSize
    /\ m.next < FragmentCount(m.len)

LEMMA FragmentProps ==
    ASSUME NEW s \in Correct, NEW m \in Task, Unfinished(m),
           NEW f, f = FragmentOf(s, m, m.next)
    PROVE  /\ f \in Fragment /\ IsValid(f)
           /\ f.id = m.no /\ f.index = m.next /\ f.total = m.len /\ f.topic = m.topic
           /\ f.data = SubSeq(Payload(s, m.no, m.len),
                              m.next * FragmentLen + 1, FragmentEnd(m))
           /\ FragmentEnd(m) \in Nat /\ m.next * FragmentLen \in Nat
           /\ m.next * FragmentLen < FragmentEnd(m) /\ FragmentEnd(m) <= m.len
           /\ Len(f.data) = FragmentEnd(m) - m.next * FragmentLen
           /\ m.next + 1 < FragmentCount(m.len) =>
                FragmentEnd(m) = (m.next + 1) * FragmentLen /\ FragmentEnd(m) < m.len
           /\ m.next + 1 = FragmentCount(m.len) => FragmentEnd(m) = m.len
           /\ m.next + 1 <= FragmentCount(m.len)
<1>. DEFINE st == m.next * FragmentLen
            e == FragmentEnd(m)
            P == Payload(s, m.no, m.len)
            D == SubSeq(P, st + 1, e)
<1>1. /\ m.no \in Nat /\ m.len \in Nat /\ m.next \in Nat /\ m.id \in Nat
      /\ m.topic \in Topics
  BY DEF Task
<1>2. /\ FragmentCount(m.len) \in Nat /\ st \in Nat
      /\ (m.next + 1) * FragmentLen = st + FragmentLen
      /\ st < m.len
      /\ m.next + 1 < FragmentCount(m.len) => (m.next + 1) * FragmentLen < m.len
      /\ m.next + 1 = FragmentCount(m.len) => m.len <= (m.next + 1) * FragmentLen
  BY <1>1, FragmentBounds DEF Unfinished
<1>3. st + FragmentLen \in Nat /\ FragmentLen \in Nat /\ FragmentLen > 0
  BY <1>2, FragmentLenNat DEF Unfinished
<1>4. e = IF m.len <= st + FragmentLen THEN m.len ELSE st + FragmentLen
  BY <1>1, <1>3, MinOfTwo DEF FragmentEnd
<1>5. e \in Nat /\ st < e /\ e <= m.len
  BY <1>1, <1>2, <1>3, <1>4
<1>6. P \in Seq(Byte) /\ Len(P) = m.len
  BY <1>1, PayloadSeq DEF Sources
<1>7. f = [id |-> m.id, index |-> m.next, total |-> m.len, topic |-> m.topic,
           data |-> D]
  BY DEF FragmentOf, FragmentEnd
<1>8. D \in Seq(Byte) /\ Len(D) = e - st
  <2>. HIDE DEF P, st, e
  <2>1. \A i \in st + 1 .. e : P[i] \in Byte
    BY <1>1, <1>2, <1>5, <1>6, ElementOfSeq
  <2>2. st + 1 \in 1 .. Len(P) + 1 /\ e \in st .. Len(P)
    BY <1>1, <1>2, <1>5, <1>6
  <2>. QED  BY <1>2, <1>5, <1>6, <2>1, <2>2, SubSeqProperties
<1>. HIDE DEF D
<1>9. f \in Fragment
  BY <1>1, <1>7, <1>8 DEF Fragment
<1>10. f.data # <<>>
  <2>. HIDE DEF P, st, e
  <2>. QED  BY <1>2, <1>5, <1>7, <1>8
<1>11. IsValid(f)
  BY <1>7, <1>10 DEF IsValid, Unfinished
<1>12. /\ m.next + 1 < FragmentCount(m.len) =>
            e = (m.next + 1) * FragmentLen /\ e < m.len
       /\ m.next + 1 = FragmentCount(m.len) => e = m.len
       /\ m.next + 1 <= FragmentCount(m.len)
  <2>. HIDE DEF st, e
  <2>. QED  BY <1>1, <1>2, <1>3, <1>4 DEF Unfinished
<1>13. /\ f.id = m.no /\ f.index = m.next /\ f.total = m.len /\ f.topic = m.topic
       /\ f.data = D
  BY <1>7 DEF Unfinished
<1>. HIDE DEF P
<1>. QED  BY <1>2, <1>5, <1>8, <1>9, <1>11, <1>12, <1>13 DEF P, D

-----------------------------------------------------------------------------
(* What accept() does *)

LEMMA LiveProps ==
    ASSUME TypeOK, NEW live, live = RemoveExpired(partials)
    PROVE  /\ PartialsType(partials) /\ PartialsType(live)
           /\ DOMAIN live = {k \in DOMAIN partials : partials[k].expires > now}
           /\ \A k \in DOMAIN live : live[k] = partials[k]
<1>1. PartialsType(partials)
  BY DEF TypeOK, PartialsType
<1>2. /\ DOMAIN live = {k \in DOMAIN partials : partials[k].expires > now}
      /\ live = [k \in DOMAIN live |-> partials[k]]
  BY DEF RemoveExpired, Only
<1>3. IsFiniteSet(DOMAIN live)
  BY <1>1, <1>2, FS_Subset DEF PartialsType
<1>. QED  BY <1>1, <1>2, <1>3 DEF PartialsType

(* A message before its first fragment, or after any. *)
Draft == [deadline : Nat, expires : Nat, total : 0 .. MaxPayloadSize,
          topic : Topics, next : Nat, payload : Seq(Byte)]

(* The message f belongs to, before f is appended: known or new. *)
LEMMA PartialForProps ==
    ASSUME TypeOK, NEW s \in Sources, NEW f \in Fragment, IsValid(f),
           NEW live, live = RemoveExpired(partials),
           NEW p, p = PartialFor(live, s, f)
    PROVE  /\ p \in Draft
           /\ <<s, f.id>> \in DOMAIN live =>
                <<s, f.id>> \in DOMAIN partials /\ p = partials[<<s, f.id>>]
           /\ <<s, f.id>> \notin DOMAIN live =>
                /\ p.deadline = now + ReassemblyTimeout /\ p.next = 0
                /\ p.payload = <<>> /\ p.total = f.total /\ p.topic = f.topic
<1>. DEFINE key == <<s, f.id>>
<1>1. now \in Nat /\ ReassemblyTimeout \in Nat /\ MaxPayloadSize \in Nat
  BY TimesAssumption, SizesAssumption DEF TypeOK
<1>2. CASE key \in DOMAIN live
  <2>1. p = live[key] /\ live[key] \in Partial /\ live[key] = partials[key]
    BY <1>2, LiveProps DEF PartialFor, MessageKey, PartialsType
  <2>2. key \in DOMAIN partials
    BY <1>2, LiveProps
  <2>3. p \in Draft
    BY <2>1 DEF Partial, Draft
  <2>. QED  BY <1>2, <2>1, <2>2, <2>3
<1>3. CASE key \notin DOMAIN live
  <2>1. p = NewPartial(f)
    BY <1>3 DEF PartialFor, MessageKey
  <2>2. f.total \in 0 .. MaxPayloadSize /\ f.topic \in Topics
    BY <1>1 DEF IsValid, Fragment
  <2>3. <<>> \in Seq(Byte)
    OBVIOUS
  <2>4. p \in Draft
    BY <1>1, <2>1, <2>2, <2>3 DEF NewPartial, Draft
  <2>. QED  BY <1>3, <2>1, <2>4 DEF NewPartial
<1>. QED  BY <1>2, <1>3

LEMMA AppendToProps ==
    ASSUME TypeOK, NEW f \in Fragment, NEW p \in Draft
    PROVE  /\ AppendTo(p, f) \in Partial
           /\ AppendTo(p, f).deadline = p.deadline
           /\ AppendTo(p, f).total = p.total /\ AppendTo(p, f).topic = p.topic
           /\ AppendTo(p, f).next = p.next + 1
           /\ AppendTo(p, f).payload = p.payload \o f.data
           /\ AppendTo(p, f).expires = Min({p.deadline, now + IdleTimeout})
           /\ AppendTo(p, f).expires <= p.deadline
<1>. DEFINE q == AppendTo(p, f)
<1>0. /\ p.deadline \in Nat /\ p.next \in Nat /\ p.payload \in Seq(Byte)
      /\ p.total \in 0 .. MaxPayloadSize /\ p.topic \in Topics
  BY DEF Draft
<1>1. now + IdleTimeout \in Nat
  BY TimesAssumption DEF TypeOK
<1>2. Expiry(p) \in Nat /\ Expiry(p) <= p.deadline
  BY <1>0, <1>1, MinOfTwo DEF Expiry
<1>. DEFINE w == p.payload \o f.data
<1>3. w \in Seq(Byte)
  BY <1>0, ConcatProperties DEF Fragment
<1>4. p.next + 1 \in Nat \ {0}
  BY <1>0
<1>5. q = [p EXCEPT !.payload = w, !.next = p.next + 1, !.expires = Expiry(p)]
  BY DEF AppendTo
<1>. HIDE DEF q, w
<1>6. q = [deadline |-> p.deadline, expires |-> Expiry(p), total |-> p.total,
           topic |-> p.topic, next |-> p.next + 1, payload |-> w]
  BY <1>5 DEF Draft
<1>7. q \in Partial
  BY <1>0, <1>2, <1>3, <1>4, <1>6 DEF Partial
<1>8. /\ q.deadline = p.deadline /\ q.total = p.total /\ q.topic = p.topic
      /\ q.next = p.next + 1 /\ q.payload = w /\ q.expires = Expiry(p)
  BY <1>6
<1>. QED  BY <1>2, <1>7, <1>8 DEF q, w, Expiry

(* All other messages only expire; the message of f is stored only if f is its
   next fragment and it is incomplete, and delivered only if f completes it. *)
Stored(s, f) ==
    LET live == RemoveExpired(partials)
        p == PartialFor(live, s, f)
        q == AppendTo(p, f)
    IN  /\ Check(p, f) /\ Len(q.payload) < q.total
        /\ partials' = Put(live, <<s, f.id>>, q)
        /\ <<s, f.id>> \in DOMAIN live \/ (f.index = 0 /\ Admit(live, s, f.total))
        /\ UNCHANGED delivered
Completed(s, f) ==
    LET live == RemoveExpired(partials)
        p == PartialFor(live, s, f)
        q == AppendTo(p, f)
    IN  /\ Check(p, f) /\ Len(q.payload) = q.total
        /\ <<s, f.id>> \in DOMAIN live \/ f.index = 0
        /\ Deliver(s, [topic |-> q.topic, payload |-> q.payload])

LEMMA AcceptEffect ==
    ASSUME TypeOK, NEW s \in Sources, NEW f \in Fragment, Accept(s, f), IsValid(f),
           NEW live, live = RemoveExpired(partials),
           NEW key, key = <<s, f.id>>
    PROVE  /\ swept' = now
           /\ \A k \in DOMAIN partials' : k # key =>
                k \in DOMAIN live /\ partials'[k] = partials[k]
           /\ \A k \in DOMAIN live : k # key => k \in DOMAIN partials'
           /\ key \in DOMAIN partials' => Stored(s, f)
           /\ Stored(s, f) \/ (DOMAIN partials' \subseteq DOMAIN live /\ key \notin DOMAIN partials')
           /\ UNCHANGED delivered \/ Completed(s, f)
           /\ PartialsType(partials')
<1>. DEFINE p == PartialFor(live, s, f)
            q == AppendTo(p, f)
<1>1. MessageKey(s, f.id) = key
  BY DEF MessageKey
<1>2. /\ PartialsType(live)
      /\ \A k \in DOMAIN live : live[k] = partials[k]
  BY LiveProps
<1>3. q \in Partial /\ q.total = p.total
  <2>. HIDE DEF q, p
  <2>1. p \in Draft
    BY PartialForProps DEF p
  <2>. QED  BY <2>1, AppendToProps DEF q
<1>4. swept' = now
  BY DEF Accept
<1>5. \/ /\ key \notin DOMAIN live
         /\ partials' = live /\ UNCHANGED delivered
      \/ /\ partials' = Only(live, DOMAIN live \ {key})
         /\ UNCHANGED delivered \/ Completed(s, f)
      \/ Stored(s, f)
  BY <1>1, Zenon DEF Accept, Stored, Completed
<1>. HIDE DEF p, q
<1>6. CASE key \notin DOMAIN live /\ partials' = live /\ UNCHANGED delivered
  BY <1>2, <1>4, <1>6
<1>7. CASE /\ partials' = Only(live, DOMAIN live \ {key})
           /\ UNCHANGED delivered \/ Completed(s, f)
  <2>1. /\ DOMAIN partials' = DOMAIN live \ {key}
        /\ \A k \in DOMAIN partials' : partials'[k] = live[k]
        /\ partials' = [k \in DOMAIN partials' |-> live[k]]
    BY <1>7 DEF Only
  <2>2. IsFiniteSet(DOMAIN partials')
    BY <1>2, <2>1, FS_Subset DEF PartialsType
  <2>3. PartialsType(partials')
    BY <1>2, <2>1, <2>2 DEF PartialsType
  <2>. QED  BY <1>2, <1>4, <1>7, <2>1, <2>3
<1>8. CASE Stored(s, f)
  <2>1. partials' = Put(live, key, q) /\ UNCHANGED delivered
    BY <1>8 DEF Stored, p, q
  <2>2. /\ DOMAIN partials' = DOMAIN live \cup {key}
        /\ partials'[key] = q
        /\ \A k \in DOMAIN live : k # key => partials'[k] = live[k]
        /\ partials' = [k \in DOMAIN partials' |-> IF k = key THEN q ELSE live[k]]
    BY <2>1 DEF Put
  <2>3. key \in Sources \X Nat
    BY DEF Fragment
  <2>4. IsFiniteSet(DOMAIN partials')
    BY <1>2, <2>2, FS_AddElement DEF PartialsType
  <2>5. PartialsType(partials')
    BY <1>2, <1>3, <2>2, <2>3, <2>4 DEF PartialsType
  <2>. QED  BY <1>2, <1>4, <1>8, <2>1, <2>2, <2>5
<1>. QED  BY <1>5, <1>6, <1>7, <1>8

LEMMA DeliverProps ==
    ASSUME TypeOK, NEW s \in Sources, NEW m, s \in Correct => m \in Message,
           Deliver(s, m)
    PROVE  /\ delivered' \in [Correct -> Seq(Message)]
           /\ s \in Correct => delivered'[s] = Append(delivered[s], m)
           /\ \A r \in Correct : r # s => delivered'[r] = delivered[r]
           /\ s \in Faulty => delivered' = delivered
BY SourcesAssumption DEF Deliver, TypeOK, Sources

(* accept() keeps the types. *)
LEMMA AcceptType ==
    ASSUME TypeOK, NEW s \in Sources, NEW f \in Fragment, Accept(s, f), now' = now
    PROVE  /\ PartialsType(partials')
           /\ swept' \in 0 .. now'
           /\ delivered' \in [Correct -> Seq(Message)]
<1>1. PartialsType(partials) /\ swept \in 0 .. now /\ now \in Nat
      /\ delivered \in [Correct -> Seq(Message)]
  BY TimesAssumption DEF TypeOK, PartialsType
<1>2. CASE ~IsValid(f)
  BY <1>1, <1>2 DEF Accept
<1>3. CASE IsValid(f)
  <2>1. /\ PartialsType(partials') /\ swept' = now
        /\ UNCHANGED delivered \/ Completed(s, f)
    BY <1>3, AcceptEffect
  <2>2. CASE Completed(s, f)
    <3>. DEFINE p == PartialFor(RemoveExpired(partials), s, f)
                q == AppendTo(p, f)
    <3>1. p \in Draft
      BY <1>3, PartialForProps
    <3>2. q \in Partial
      <4>. HIDE DEF p
      <4>. QED  BY <3>1, AppendToProps
    <3>3. Deliver(s, [topic |-> q.topic, payload |-> q.payload])
      BY <2>2 DEF Completed
    <3>. HIDE DEF q
    <3>4. [topic |-> q.topic, payload |-> q.payload] \in Message
      BY <3>2 DEF Partial, Message
    <3>5. delivered' \in [Correct -> Seq(Message)]
      BY <3>3, <3>4, DeliverProps
    <3>. QED  BY <1>1, <2>1, <3>5
  <2>. QED  BY <1>1, <2>1, <2>2
<1>. QED  BY <1>2, <1>3

-----------------------------------------------------------------------------
(* What a send does to its task *)

LEMMA TaskUnfinished ==
    ASSUME TypeOK, TasksInv, NEW s \in Correct, NEW m \in sends[s]
    PROVE  /\ m \in Task /\ Unfinished(m)
           /\ m.no \in DOMAIN sent[s]
           /\ sent[s][m.no] = [topic |-> m.topic, payload |-> Payload(s, m.no, m.len)]
           /\ \A o \in sends[s] : o.no = m.no => o = m
BY DEF TypeOK, TasksInv, Unfinished

LEMMA AdvanceProps ==
    ASSUME TypeOK, NEW s \in Correct, NEW m \in sends[s], Unfinished(m),
           NEW b \in BOOLEAN, NEW n, n = Advanced(s, m, b), AdvanceTo(s, m, n)
    PROVE  /\ n \in Task
           /\ n.no = m.no /\ n.id = m.id /\ n.len = m.len /\ n.topic = m.topic
           /\ n.next = m.next + 1 /\ n.last = now
           /\ n.first = IF m.next = 0 THEN now ELSE m.first
           /\ n.intact => b /\ Intact(s, m)
           /\ sends' \in [Correct -> SUBSET Task]
           /\ \A r \in Correct : r # s => sends'[r] = sends[r]
           /\ \/ /\ n.next < FragmentCount(n.len)
                 /\ sends'[s] = (sends[s] \ {m}) \cup {n}
                 /\ timely' = timely
              \/ /\ n.next = FragmentCount(n.len)
                 /\ sends'[s] = sends[s] \ {m}
                 /\ timely' = IF n.intact THEN timely \cup {<<s, m.no>>} ELSE timely
<1>1. m \in Task /\ now \in Nat
  BY TimesAssumption DEF TypeOK
<1>2. (b /\ Intact(s, m)) \in BOOLEAN
  BY Zenon
<1>. DEFINE x == b /\ Intact(s, m)
<1>3. n = [no |-> m.no, id |-> m.id, len |-> m.len, topic |-> m.topic,
           next |-> m.next + 1, first |-> IF m.next = 0 THEN now ELSE m.first,
           last |-> now, intact |-> x]
  <2>1. x \in BOOLEAN
    BY <1>2
  <2>2. n = [m EXCEPT !.next = m.next + 1, !.last = now,
              !.first = IF m.next = 0 THEN now ELSE m.first, !.intact = x]
    BY DEF Advanced
  <2>. HIDE DEF x
  <2>. QED  BY <1>1, <2>1, <2>2 DEF Task
<1>4. /\ n.no = m.no /\ n.id = m.id /\ n.len = m.len /\ n.topic = m.topic
      /\ n.next = m.next + 1 /\ n.last = now
      /\ n.first = IF m.next = 0 THEN now ELSE m.first
      /\ n.intact = x
  <2>. HIDE DEF x
  <2>. QED  BY <1>3
<1>5. n.intact => b /\ Intact(s, m)
  BY <1>4, Zenon
<1>6. n \in Task
  <2>1. x \in BOOLEAN
    BY <1>2
  <2>2. m.next + 1 \in Nat /\ (IF m.next = 0 THEN now ELSE m.first) \in Nat
    BY <1>1 DEF Task
  <2>. HIDE DEF x
  <2>. QED  BY <1>1, <1>3, <2>1, <2>2 DEF Task
<1>7. /\ sends' \in [Correct -> SUBSET Task]
      /\ \A r \in Correct : r # s => sends'[r] = sends[r]
      /\ \/ /\ n.next < FragmentCount(n.len)
            /\ sends'[s] = (sends[s] \ {m}) \cup {n}
            /\ timely' = timely
         \/ /\ n.next = FragmentCount(n.len)
            /\ sends'[s] = sends[s] \ {m}
            /\ timely' = IF n.intact THEN timely \cup {<<s, n.no>>} ELSE timely
  <2>1. sends \in [Correct -> SUBSET Task]
    BY DEF TypeOK
  <2>. QED  BY <1>6, <2>1 DEF AdvanceTo
<1>. QED  BY <1>4, <1>5, <1>6, <1>7

(* The task of a source is gone after its last fragment. *)
LEMMA AdvanceLast ==
    ASSUME TypeOK, NEW s \in Correct, NEW m \in sends[s], Unfinished(m),
           NEW b \in BOOLEAN, AdvanceTo(s, m, Advanced(s, m, b)),
           m.next + 1 = FragmentCount(m.len), FragmentCount(m.len) \in Nat
    PROVE  sends'[s] = sends[s] \ {m}
<1>. DEFINE n == Advanced(s, m, b)
<1>0. n = Advanced(s, m, b) /\ AdvanceTo(s, m, n)
  OBVIOUS
<1>. HIDE DEF n
<1>1. m \in Task
  BY DEF TypeOK
<1>2. m.next \in Nat
  BY <1>1 DEF Task
<1>3. n.next = m.next + 1 /\ n.len = m.len
  BY <1>0, <1>1, <1>2, AdvanceProps
<1>4. n.next < FragmentCount(n.len) \/ sends'[s] = sends[s] \ {m}
  BY <1>0, AdvanceProps, Zenon
<1>5. ~(n.next < FragmentCount(n.len))
  BY <1>2, <1>3
<1>. QED  BY <1>4, <1>5, Zenon

(* The tasks of a source are those of before, one of them perhaps moved on or
   gone. *)
LEMMA AdvanceTasks ==
    ASSUME TypeOK, TasksInv, NEW s \in Correct, NEW m \in sends[s],
           NEW b \in BOOLEAN, AdvanceTo(s, m, Advanced(s, m, b)), sent' = sent
    PROVE  /\ TasksInv'
           /\ \A r \in Correct : \A o \in sends'[r] :
                IF r = s /\ o.no = m.no
                THEN o = Advanced(s, m, b) /\ o.next = m.next + 1
                ELSE o \in sends[r]
<1>. DEFINE n == Advanced(s, m, b)
<1>1. m \in Task /\ Unfinished(m)
  BY TaskUnfinished
<1>2. /\ n \in Task
      /\ n.no = m.no /\ n.id = m.id /\ n.len = m.len /\ n.topic = m.topic
      /\ n.next = m.next + 1
      /\ \A r \in Correct : r # s => sends'[r] = sends[r]
      /\ \/ n.next < FragmentCount(n.len) /\ sends'[s] = (sends[s] \ {m}) \cup {n}
         \/ sends'[s] = sends[s] \ {m}
  BY <1>1, AdvanceProps
<1>. HIDE DEF n
<1>a. \A o \in sends[s] : o.no = m.no => o = m
  BY TaskUnfinished
<1>b. \A o \in sends'[s] :
          IF o.no = m.no
          THEN o = n /\ o.next = m.next + 1 /\ n.next < FragmentCount(n.len)
          ELSE o \in sends[s]
  BY <1>2, <1>a
<1>3. \A r \in Correct : \A o \in sends'[r] :
          IF r = s /\ o.no = m.no
          THEN o = n /\ o.next = m.next + 1 /\ n.next < FragmentCount(n.len)
          ELSE o \in sends[r]
  BY <1>2, <1>b
<1>4. TasksInv'
  <2>. SUFFICES ASSUME NEW r \in Correct, NEW o \in sends'[r]
                PROVE  /\ o.id = o.no /\ o.no \in DOMAIN sent[r]
                       /\ sent[r][o.no] = [topic |-> o.topic, payload |-> Payload(r, o.no, o.len)]
                       /\ FragmentLen > 0 /\ o.len <= MaxPayloadSize
                       /\ o.next < FragmentCount(o.len)
                       /\ \A u \in sends'[r] : u.no = o.no => u = o
    BY DEF TasksInv
  <2>1. ASSUME NEW u \in sends'[r], u.no = o.no PROVE u = o
    <3>1. CASE r = s /\ o.no = m.no
      BY <1>3, <2>1, <3>1
    <3>2. CASE ~(r = s /\ o.no = m.no)
      <4>1. o \in sends[r] /\ u \in sends[r]
        BY <1>3, <2>1, <3>2
      <4>. QED  BY <2>1, <4>1 DEF TasksInv
    <3>. QED  BY <3>1, <3>2
  <2>2. CASE r = s /\ o.no = m.no
    BY <1>2, <1>3, <2>1, <2>2 DEF TasksInv
  <2>3. CASE ~(r = s /\ o.no = m.no)
    BY <1>3, <2>1, <2>3 DEF TasksInv
  <2>. QED  BY <2>2, <2>3
<1>. QED  BY <1>3, <1>4 DEF n

(* The task that a split message becomes. *)
NewTask(n, len, topic) ==
    [no |-> n, id |-> n, len |-> len, topic |-> topic, next |-> 0,
     first |-> now, last |-> now, intact |-> TRUE]

(* No sent message is ever changed. *)
SentGrows ==
    \A r \in Correct : \A i \in DOMAIN sent[r] :
        i \in DOMAIN sent'[r] /\ sent'[r][i] = sent[r][i]

LEMMA SendProps ==
    ASSUME TypeOK, NEW s \in Correct, NEW len \in Lengths, NEW topic \in Topics,
           Send(s, len, topic),
           NEW n, n = Len(sent[s]) + 1,
           NEW m, m = [topic |-> topic, payload |-> Payload(s, n, len)]
    PROVE  /\ n \in Nat /\ n \notin DOMAIN sent[s] /\ len \in Nat /\ len <= MaxPayloadSize
           /\ m \in Message
           /\ sent' \in [Correct -> Seq(Message)]
           /\ \A r \in Correct : r # s => sent'[r] = sent[r]
           /\ DOMAIN sent'[s] = DOMAIN sent[s] \cup {n} /\ sent'[s][n] = m
           /\ SentGrows
           /\ \/ /\ Deliver(s, m) /\ sends' = sends
              \/ /\ NewTask(n, len, topic) \in Task
                 /\ FragmentLen > 0 /\ 0 < FragmentCount(len)
                 /\ sends' \in [Correct -> SUBSET Task]
                 /\ sends'[s] = sends[s] \cup {NewTask(n, len, topic)}
                 /\ \A r \in Correct : r # s => sends'[r] = sends[r]
                 /\ delivered' = delivered
           /\ UNCHANGED <<partials, now, timely, swept>>
<1>1. /\ sent \in [Correct -> Seq(Message)] /\ sends \in [Correct -> SUBSET Task]
      /\ now \in Nat
  BY TimesAssumption DEF TypeOK
<1>2. sent[s] \in Seq(Message) /\ Len(sent[s]) \in Nat /\ DOMAIN sent[s] = 1 .. Len(sent[s])
  BY <1>1
<1>3. n \in Nat /\ n \notin DOMAIN sent[s] /\ len \in Nat /\ len <= MaxPayloadSize
  BY <1>2, SizesAssumption DEF Send
<1>4. m \in Message
  BY <1>3, PayloadSeq DEF Message, Sources
<1>5. sent' = [sent EXCEPT ![s] = Append(sent[s], m)]
  BY DEF Send
<1>6. /\ Append(sent[s], m) \in Seq(Message)
      /\ Len(Append(sent[s], m)) = n
      /\ Append(sent[s], m)[n] = m
      /\ \A i \in 1 .. Len(sent[s]) : Append(sent[s], m)[i] = sent[s][i]
  BY <1>2, <1>4, AppendProperties
<1>. DEFINE a == Append(sent[s], m)
<1>. HIDE DEF a
<1>7. /\ sent' \in [Correct -> Seq(Message)]
      /\ sent'[s] = a
      /\ \A r \in Correct : r # s => sent'[r] = sent[r]
  BY <1>1, <1>5, <1>6 DEF a
<1>8. /\ DOMAIN a = 1 .. n /\ a[n] = m
      /\ \A i \in DOMAIN sent[s] : i \in DOMAIN a /\ a[i] = sent[s][i]
  <2>1. a \in Seq(Message) /\ Len(a) = n
    BY <1>6 DEF a
  <2>2. DOMAIN a = 1 .. n
    BY <1>3, <2>1
  <2>. QED  BY <1>2, <1>3, <1>6, <2>2 DEF a
<1>9. DOMAIN sent'[s] = DOMAIN sent[s] \cup {n} /\ sent'[s][n] = m
  BY <1>2, <1>7, <1>8
<1>10. SentGrows
  BY <1>7, <1>8 DEF SentGrows
<1>11. \/ Deliver(s, m) /\ sends' = sends
       \/ /\ len > MaxPayloadLen /\ FragmentLen > 0
          /\ sends' = [sends EXCEPT ![s] = @ \cup {NewTask(n, len, topic)}]
          /\ delivered' = delivered
  BY DEF Send, NewTask
<1>12. NewTask(n, len, topic) \in Task
  BY <1>1, <1>3 DEF NewTask, Task
<1>13. len > MaxPayloadLen /\ FragmentLen > 0 => 0 < FragmentCount(len)
  <2>. SUFFICES ASSUME len > MaxPayloadLen, FragmentLen > 0 PROVE 0 < FragmentCount(len)
    OBVIOUS
  <2>1. FragmentLen \in Nat /\ len + FragmentLen - 1 \in Nat /\ len > 0
    BY <1>3, FragmentLenNat, SizesAssumption
  <2>2. /\ FragmentCount(len) \in Nat
        /\ len + FragmentLen - 1 < FragmentCount(len) * FragmentLen + FragmentLen
    BY <2>1, DivBounds DEF FragmentCount
  <2>3. FragmentCount(len) # 0
    BY <1>3, <2>1, <2>2
  <2>. QED  BY <2>2, <2>3
<1>14. UNCHANGED <<partials, now, timely, swept>>
  BY DEF Send
<1>15. CASE Deliver(s, m) /\ sends' = sends
  BY <1>3, <1>4, <1>7, <1>9, <1>10, <1>14, <1>15
<1>16. CASE /\ len > MaxPayloadLen /\ FragmentLen > 0
            /\ sends' = [sends EXCEPT ![s] = @ \cup {NewTask(n, len, topic)}]
            /\ delivered' = delivered
  <2>1. /\ sends' \in [Correct -> SUBSET Task]
        /\ sends'[s] = sends[s] \cup {NewTask(n, len, topic)}
        /\ \A r \in Correct : r # s => sends'[r] = sends[r]
    BY <1>1, <1>12, <1>16
  <2>. QED  BY <1>3, <1>4, <1>7, <1>9, <1>10, <1>12, <1>13, <1>14, <1>16, <2>1
<1>. QED  BY <1>11, <1>15, <1>16

-----------------------------------------------------------------------------
(* Types *)

LEMMA TypeInit == Init => TypeOK
BY FS_EmptySet, TimesAssumption DEF Init, TypeOK

(* The steps, one by one. *)
LEMMA NextCases ==
    ASSUME [Next]_vars
    PROVE  \/ \E s \in Correct, len \in Lengths, topic \in Topics : Send(s, len, topic)
           \/ \E s \in Correct : \E m \in sends[s] : SendFragment(s, m)
           \/ \E s \in Correct : \E m \in sends[s] : LoseFragment(s, m)
           \/ \E s \in Correct : \E m \in sends[s] : SendFails(s, m)
           \/ \E s \in Faulty, f \in FaultyFragments : FaultyFragment(s, f)
           \/ Tick
           \/ UNCHANGED vars
BY DEF Next

LEMMA TypeNext ==
    ASSUME TypeOK, TasksInv, [Next]_vars
    PROVE  TypeOK'
<1>0. /\ sends \in [Correct -> SUBSET Task] /\ PartialsType(partials)
      /\ now \in 0 .. MaxTime /\ swept \in 0 .. now
      /\ sent \in [Correct -> Seq(Message)]
      /\ delivered \in [Correct -> Seq(Message)]
      /\ timely \subseteq Correct \X Nat
  BY DEF TypeOK, PartialsType
<1>. USE DEF TypeOK, PartialsType
<1>1. ASSUME NEW s \in Correct, NEW len \in Lengths, NEW topic \in Topics,
             Send(s, len, topic)
      PROVE  TypeOK'
  <2>. DEFINE m == [topic |-> topic, payload |-> Payload(s, Len(sent[s]) + 1, len)]
  <2>1. /\ m \in Message /\ sent' \in [Correct -> Seq(Message)]
        /\ Deliver(s, m) \/ delivered' = delivered
        /\ sends' \in [Correct -> SUBSET Task]
        /\ UNCHANGED <<partials, now, timely, swept>>
    BY <1>0, <1>1, SendProps
  <2>. HIDE DEF m
  <2>2. delivered' \in [Correct -> Seq(Message)]
    BY <1>0, <2>1, DeliverProps DEF Sources
  <2>. QED  BY <1>0, <2>1, <2>2
<1>2. ASSUME NEW s \in Correct, NEW m \in sends[s], SendFragment(s, m)
      PROVE  TypeOK'
  <2>1. m \in Task /\ Unfinished(m) /\ s \in Sources
    BY TaskUnfinished DEF Sources
  <2>2. FragmentOf(s, m, m.next) \in Fragment
    BY <2>1, FragmentProps
  <2>3. now' = now /\ sent' = sent
    BY <1>2 DEF SendFragment
  <2>4. /\ PartialsType(partials') /\ swept' \in 0 .. now'
        /\ delivered' \in [Correct -> Seq(Message)]
    BY <1>2, <2>1, <2>2, <2>3, AcceptType DEF SendFragment
  <2>5. sends' \in [Correct -> SUBSET Task] /\ timely' \subseteq timely \cup {<<s, m.no>>}
    BY <1>2, <2>1, AdvanceProps DEF SendFragment
  <2>6. <<s, m.no>> \in Correct \X Nat
    BY <2>1 DEF Task
  <2>. QED  BY <1>0, <2>3, <2>4, <2>5, <2>6
<1>3. ASSUME NEW s \in Correct, NEW m \in sends[s], LoseFragment(s, m)
      PROVE  TypeOK'
  <2>1. m \in Task /\ Unfinished(m)
    BY TaskUnfinished
  <2>2. sends' \in [Correct -> SUBSET Task] /\ timely' \subseteq timely \cup {<<s, m.no>>}
    BY <1>3, <2>1, AdvanceProps DEF LoseFragment
  <2>3. <<s, m.no>> \in Correct \X Nat
    BY <2>1 DEF Task
  <2>. QED  BY <1>0, <1>3, <2>2, <2>3 DEF LoseFragment
<1>4. ASSUME NEW s \in Correct, NEW m \in sends[s], SendFails(s, m)
      PROVE  TypeOK'
  BY <1>0, <1>4 DEF SendFails
<1>5. ASSUME NEW s \in Faulty, NEW f \in FaultyFragments, FaultyFragment(s, f)
      PROVE  TypeOK'
  <2>1. f \in Fragment /\ s \in Sources
    BY SourcesAssumption DEF Sources
  <2>2. /\ PartialsType(partials') /\ swept' \in 0 .. now'
        /\ delivered' \in [Correct -> Seq(Message)]
    BY <1>5, <2>1, AcceptType DEF FaultyFragment
  <2>. QED  BY <1>0, <1>5, <2>2 DEF FaultyFragment
<1>6. CASE Tick
  BY <1>0, <1>6, TimesAssumption DEF Tick
<1>7. CASE UNCHANGED vars
  BY <1>0, <1>7 DEF vars
<1>. QED  BY <1>1, <1>2, <1>3, <1>4, <1>5, <1>6, <1>7, NextCases

-----------------------------------------------------------------------------
(* Whole messages *)

LEMMA TasksNext ==
    ASSUME TypeOK, TasksInv, [Next]_vars
    PROVE  TasksInv'
<1>1. ASSUME NEW s \in Correct, NEW len \in Lengths, NEW topic \in Topics,
             Send(s, len, topic)
      PROVE  TasksInv'
  <2>. DEFINE n == Len(sent[s]) + 1
              t == NewTask(n, len, topic)
  <2>1. /\ n \in Nat /\ n \notin DOMAIN sent[s] /\ len <= MaxPayloadSize
        /\ DOMAIN sent'[s] = DOMAIN sent[s] \cup {n}
        /\ sent'[s][n] = [topic |-> topic, payload |-> Payload(s, n, len)]
        /\ SentGrows
        /\ \A r \in Correct : r # s => sends'[r] = sends[r]
        /\ \/ sends'[s] = sends[s]
           \/ /\ FragmentLen > 0 /\ 0 < FragmentCount(len)
              /\ sends'[s] = sends[s] \cup {t}
    BY <1>1, SendProps
  <2>2. t.no = n /\ t.id = n /\ t.len = len /\ t.topic = topic /\ t.next = 0
    BY DEF NewTask
  <2>. HIDE DEF t, n
  <2>3. \A o \in sends[s] : o.no # n
    <3>1. n \notin DOMAIN sent[s]
      BY <2>1
    <3>. QED  BY <3>1, TaskUnfinished, Zenon
  <2>. SUFFICES ASSUME NEW r \in Correct, NEW o \in sends'[r]
                PROVE  /\ o.id = o.no /\ o.no \in DOMAIN sent'[r]
                       /\ sent'[r][o.no] = [topic |-> o.topic, payload |-> Payload(r, o.no, o.len)]
                       /\ FragmentLen > 0 /\ o.len <= MaxPayloadSize
                       /\ o.next < FragmentCount(o.len)
                       /\ \A u \in sends'[r] : u.no = o.no => u = o
    BY DEF TasksInv
  <2>4. CASE o \in sends[r]
    <3>1. \A u \in sends'[r] : u.no = o.no => u = o
      <4>1. \A u \in sends[r] : u.no = o.no => u = o
        BY <2>4, TaskUnfinished
      <4>. QED  BY <2>1, <2>2, <2>3, <2>4, <4>1
    <3>. QED  BY <2>1, <2>4, <3>1 DEF TasksInv, SentGrows
  <2>5. CASE o \notin sends[r]
    <3>1. r = s /\ o = t /\ sends'[s] = sends[s] \cup {t}
          /\ FragmentLen > 0 /\ 0 < FragmentCount(len)
      BY <2>1, <2>5
    <3>. QED  BY <2>1, <2>2, <2>3, <3>1
  <2>. QED  BY <2>4, <2>5
<1>2. ASSUME NEW s \in Correct, NEW m \in sends[s], SendFragment(s, m)
      PROVE  TasksInv'
  BY <1>2, AdvanceTasks DEF SendFragment
<1>3. ASSUME NEW s \in Correct, NEW m \in sends[s], LoseFragment(s, m)
      PROVE  TasksInv'
  BY <1>3, AdvanceTasks DEF LoseFragment
<1>4. ASSUME NEW s \in Correct, NEW m \in sends[s], SendFails(s, m)
      PROVE  TasksInv'
  <2>1. \A r \in Correct : sends'[r] \subseteq sends[r]
    BY <1>4 DEF SendFails, TypeOK
  <2>2. sent' = sent
    BY <1>4 DEF SendFails
  <2>. QED  BY <2>1, <2>2 DEF TasksInv
<1>5. ASSUME NEW s \in Faulty, NEW f \in FaultyFragments, FaultyFragment(s, f)
      PROVE  TasksInv'
  BY <1>5 DEF FaultyFragment, TasksInv
<1>6. CASE Tick
  BY <1>6 DEF Tick, TasksInv
<1>7. CASE UNCHANGED vars
  BY <1>7 DEF vars, TasksInv
<1>. QED  BY <1>1, <1>2, <1>3, <1>4, <1>5, <1>6, <1>7, NextCases

(* A fragment that is accepted continues the beginning of its message. *)
LEMMA Joined ==
    ASSUME TypeOK, TasksInv, PartialsInv, NEW s \in Correct, NEW m \in sends[s],
           NEW f, f = FragmentOf(s, m, m.next),
           NEW live, live = RemoveExpired(partials),
           NEW p, p = PartialFor(live, s, f), NEW q, q = AppendTo(p, f),
           Check(p, f), <<s, f.id>> \in DOMAIN live \/ f.index = 0
    PROVE  /\ q.payload = SubSeq(Payload(s, m.no, m.len), 1, FragmentEnd(m))
           /\ Len(q.payload) = FragmentEnd(m)
           /\ q.total = m.len /\ q.next = m.next + 1 /\ q.topic = m.topic
           /\ q \in Partial
<1>. DEFINE P == Payload(s, m.no, m.len)
            st == m.next * FragmentLen
            e == FragmentEnd(m)
<1>1. /\ m \in Task /\ Unfinished(m) /\ s \in Sources
      /\ sent[s][m.no] = [topic |-> m.topic, payload |-> P]
  BY TaskUnfinished DEF Sources
<1>2. /\ f \in Fragment /\ IsValid(f) /\ f.id = m.no /\ f.index = m.next
      /\ f.total = m.len /\ f.topic = m.topic
      /\ f.data = SubSeq(P, st + 1, e)
      /\ e \in Nat /\ st \in Nat /\ st < e /\ e <= m.len
  BY <1>1, FragmentProps
<1>3. P \in Seq(Byte) /\ Len(P) = m.len /\ m.len \in Nat
  BY <1>1, PayloadSeq DEF Task
<1>4. p \in Draft
  BY <1>1, <1>2, PartialForProps
<1>5. p.next = m.next /\ p.total = m.len /\ p.topic = m.topic
  BY <1>2 DEF Check
<1>. HIDE DEF P, e
<1>6. p.payload = SubSeq(P, 1, st)
  <2>1. CASE <<s, f.id>> \in DOMAIN live
    <3>1. <<s, f.id>> \in DOMAIN partials /\ p = partials[<<s, f.id>>]
      BY <1>1, <1>2, <2>1, PartialForProps
    <3>2. p.payload = SubSeq(sent[s][m.no].payload, 1, p.next * FragmentLen)
      BY <1>2, <3>1 DEF PartialsInv
    <3>3. sent[s][m.no].payload = P
      BY <1>1
    <3>. QED  BY <1>5, <3>2, <3>3
  <2>2. CASE <<s, f.id>> \notin DOMAIN live
    <3>1. p.payload = <<>> /\ m.next = 0
      BY <1>1, <1>2, <2>2, PartialForProps
    <3>2. st = 0
      BY <3>1, FragmentLenNat
    <3>3. SubSeq(P, 1, 0) = <<>>
      BY SubSeqEmpty
    <3>. QED  BY <3>1, <3>2, <3>3
  <2>. QED  BY <2>1, <2>2
<1>. HIDE DEF st
<1>7. SubSeq(P, 1, st) \o SubSeq(P, st + 1, e) = SubSeq(P, 1, e)
  <2>1. 1 \in 1 .. Len(P) + 1 /\ st \in 1 - 1 .. Len(P) /\ e \in st .. Len(P)
    BY <1>2, <1>3
  <2>. QED  BY <1>3, <2>1, ConcatAdjacentSubSeq
<1>8. Len(SubSeq(P, 1, e)) = e
  <2>1. \A i \in 1 .. e : P[i] \in Byte
    BY <1>2, <1>3, ElementOfSeq
  <2>. QED  BY <1>2, <2>1, SubSeqProperties
<1>9. /\ q \in Partial /\ q.total = p.total /\ q.topic = p.topic
      /\ q.next = p.next + 1 /\ q.payload = p.payload \o f.data
  <2>1. f \in Fragment
    BY <1>2
  <2>. QED  BY <1>4, <2>1, AppendToProps
<1>10. q.payload = SubSeq(P, 1, e)
  <2>1. p.payload \o f.data = SubSeq(P, 1, st) \o SubSeq(P, st + 1, e)
    BY <1>2, <1>6
  <2>. QED  BY <1>7, <1>9, <2>1, Zenon
<1>11. Len(q.payload) = e
  BY <1>8, <1>10, Zenon
<1>. QED  BY <1>5, <1>9, <1>10, <1>11 DEF P, e

LEMMA PartialsNext ==
    ASSUME TypeOK, TasksInv, PartialsInv, [Next]_vars
    PROVE  PartialsInv'
<1>1. ASSUME NEW s \in Correct, NEW len \in Lengths, NEW topic \in Topics,
             Send(s, len, topic)
      PROVE  PartialsInv'
  <2>. DEFINE n == Len(sent[s]) + 1
              t == NewTask(n, len, topic)
  <2>0. partials' = partials
    BY <1>1 DEF Send
  <2>1. /\ n \in Nat /\ n \notin DOMAIN sent[s]
        /\ sent'[s][n] = [topic |-> topic, payload |-> Payload(s, n, len)]
        /\ SentGrows /\ partials' = partials
        /\ \A r \in Correct : r # s => sends'[r] = sends[r]
        /\ \/ sends'[s] = sends[s]
           \/ sends'[s] = sends[s] \cup {t}
    BY <1>1, <2>0, SendProps
  <2>2. t.no = n
    BY DEF NewTask
  <2>. HIDE DEF t, n
  <2>3. ASSUME NEW k \in DOMAIN partials, k[1] \in Correct, NEW m \in sends'[k[1]], m.no = k[2]
        PROVE  m \in sends[k[1]]
    <3>1. k[2] \in DOMAIN sent[k[1]]
      BY <2>3 DEF PartialsInv
    <3>. QED  BY <2>1, <2>2, <2>3, <3>1
  <2>. QED  BY <2>1, <2>3 DEF PartialsInv, SentGrows
<1>2. ASSUME NEW s \in Correct, NEW m \in sends[s], SendFragment(s, m)
      PROVE  PartialsInv'
  <2>. DEFINE f == FragmentOf(s, m, m.next)
              live == RemoveExpired(partials)
              p == PartialFor(live, s, f)
              q == AppendTo(p, f)
              key == <<s, f.id>>
  <2>1. /\ m \in Task /\ Unfinished(m) /\ s \in Sources /\ m.no \in DOMAIN sent[s]
        /\ sent[s][m.no] = [topic |-> m.topic, payload |-> Payload(s, m.no, m.len)]
    BY TaskUnfinished DEF Sources
  <2>2. /\ f \in Fragment /\ IsValid(f) /\ f.id = m.no
        /\ m.next + 1 < FragmentCount(m.len) => FragmentEnd(m) = (m.next + 1) * FragmentLen
        /\ m.next + 1 = FragmentCount(m.len) => FragmentEnd(m) = m.len
        /\ m.next + 1 <= FragmentCount(m.len)
    BY <2>1, FragmentProps
  <2>3. sent' = sent /\ Accept(s, f) /\ AdvanceTo(s, m, Advanced(s, m, TRUE))
    BY <1>2 DEF SendFragment
  <2>4. \A r \in Correct : \A o \in sends'[r] :
            IF r = s /\ o.no = m.no THEN o.next = m.next + 1 ELSE o \in sends[r]
    BY <2>3, AdvanceTasks
  <2>5. /\ \A k \in DOMAIN partials' : k # key =>
               k \in DOMAIN live /\ partials'[k] = partials[k]
        /\ key \in DOMAIN partials' => Stored(s, f)
    <3>. HIDE DEF f
    <3>. QED  BY <2>1, <2>2, <2>3, AcceptEffect
  <2>6. DOMAIN live \subseteq DOMAIN partials
    BY LiveProps
  <2>. SUFFICES ASSUME NEW k \in DOMAIN partials', k[1] \in Correct
                PROVE  /\ k[2] \in DOMAIN sent[k[1]]
                       /\ partials'[k].topic = sent[k[1]][k[2]].topic
                       /\ partials'[k].total = Len(sent[k[1]][k[2]].payload)
                       /\ partials'[k].next * FragmentLen < partials'[k].total
                       /\ partials'[k].payload = SubSeq(sent[k[1]][k[2]].payload, 1,
                                                   partials'[k].next * FragmentLen)
                       /\ \A o \in sends'[k[1]] : o.no = k[2] => partials'[k].next <= o.next
    BY <2>3 DEF PartialsInv
  <2>. HIDE DEF live, f
  <2>7. CASE k # key
    <3>1. k \in DOMAIN partials /\ partials'[k] = partials[k]
      BY <2>5, <2>6, <2>7
    <3>2. ~(k[1] = s /\ k[2] = m.no)
      <4>1. k \in Sources \X Nat
        BY <3>1 DEF TypeOK
      <4>. QED  BY <2>2, <2>7, <4>1
    <3>3. \A o \in sends'[k[1]] : o.no = k[2] => o \in sends[k[1]]
      BY <2>4, <3>2
    <3>. QED  BY <3>1, <3>3 DEF PartialsInv
  <2>8. CASE k = key
    <3>1. /\ Check(p, f) /\ Len(q.payload) < q.total /\ partials' = Put(live, key, q)
          /\ key \in DOMAIN live \/ f.index = 0
      BY <2>5, <2>8 DEF Stored, live
    <3>2. /\ q.payload = SubSeq(Payload(s, m.no, m.len), 1, FragmentEnd(m))
          /\ Len(q.payload) = FragmentEnd(m)
          /\ q.total = m.len /\ q.next = m.next + 1 /\ q.topic = m.topic
      BY <3>1, Joined DEF f, live
    <3>3. partials'[k] = q /\ k[1] = s /\ k[2] = m.no
      BY <2>2, <2>8, <3>1 DEF Put
    <3>. HIDE DEF p, q
    <3>4. FragmentEnd(m) = q.next * FragmentLen /\ FragmentEnd(m) < m.len
      <4>1. /\ m.len \in Nat /\ m.next \in Nat
        BY <2>1 DEF Task
      <4>2. FragmentEnd(m) # m.len
        BY <3>1, <3>2, <4>1
      <4>3. m.next + 1 # FragmentCount(m.len) /\ FragmentCount(m.len) \in Nat
        BY <2>1, <2>2, <4>1, <4>2, FragmentBounds DEF Unfinished
      <4>4. m.next + 1 < FragmentCount(m.len)
        BY <2>2, <4>1, <4>3
      <4>. QED  BY <2>2, <3>1, <3>2, <4>4
    <3>5. Len(Payload(s, m.no, m.len)) = m.len
      BY <2>1, PayloadSeq DEF Task
    <3>6. \A o \in sends'[s] : o.no = m.no => o.next = m.next + 1
      BY <2>4
    <3>7. m.next + 1 <= m.next + 1
      BY <2>1 DEF Task
    <3>8. sent[s][m.no].topic = m.topic /\ sent[s][m.no].payload = Payload(s, m.no, m.len)
      BY <2>1
    <3>. QED  BY <2>1, <3>2, <3>3, <3>4, <3>5, <3>6, <3>7, <3>8
  <2>. QED  BY <2>7, <2>8
<1>3. ASSUME NEW s \in Correct, NEW m \in sends[s], LoseFragment(s, m)
      PROVE  PartialsInv'
  <2>1. partials' = partials /\ sent' = sent /\ m \in Task
    BY <1>3, TaskUnfinished DEF LoseFragment
  <2>2. \A r \in Correct : \A o \in sends'[r] :
            IF r = s /\ o.no = m.no THEN o.next = m.next + 1 ELSE o \in sends[r]
    BY <1>3, AdvanceTasks DEF LoseFragment
  <2>3. ASSUME NEW k \in DOMAIN partials, k[1] \in Correct,
               NEW o \in sends'[k[1]], o.no = k[2]
        PROVE  partials[k].next <= o.next
    <3>1. CASE k[1] = s /\ k[2] = m.no
      <4>1. partials[k].next <= m.next /\ o.next = m.next + 1
        BY <2>2, <2>3, <3>1 DEF PartialsInv
      <4>2. partials[k].next \in Nat /\ m.next \in Nat
        BY <2>1 DEF TypeOK, Partial, Task
      <4>. QED  BY <4>1, <4>2
    <3>2. CASE ~(k[1] = s /\ k[2] = m.no)
      BY <2>2, <2>3, <3>2 DEF PartialsInv
    <3>. QED  BY <3>1, <3>2
  <2>. QED  BY <2>1, <2>3 DEF PartialsInv
<1>4. ASSUME NEW s \in Correct, NEW m \in sends[s], SendFails(s, m)
      PROVE  PartialsInv'
  <2>1. \A r \in Correct : sends'[r] \subseteq sends[r]
    BY <1>4 DEF SendFails, TypeOK
  <2>2. sent' = sent /\ partials' = partials
    BY <1>4 DEF SendFails
  <2>. QED  BY <2>1, <2>2 DEF PartialsInv
<1>5. ASSUME NEW s \in Faulty, NEW f \in FaultyFragments, FaultyFragment(s, f)
      PROVE  PartialsInv'
  <2>1. f \in Fragment /\ s \in Sources /\ s \notin Correct
    BY SourcesAssumption DEF Sources
  <2>2. sends' = sends /\ sent' = sent /\ Accept(s, f)
    BY <1>5 DEF FaultyFragment
  <2>3. \A k \in DOMAIN partials' : k[1] \in Correct =>
            k \in DOMAIN partials /\ partials'[k] = partials[k]
    <3>1. CASE ~IsValid(f)
      BY <2>2, <3>1 DEF Accept
    <3>2. CASE IsValid(f)
      <4>1. \A k \in DOMAIN partials' : k # <<s, f.id>> =>
                k \in DOMAIN RemoveExpired(partials) /\ partials'[k] = partials[k]
        BY <2>1, <2>2, <3>2, AcceptEffect
      <4>2. DOMAIN RemoveExpired(partials) \subseteq DOMAIN partials
        BY LiveProps
      <4>. QED  BY <2>1, <4>1, <4>2
    <3>. QED  BY <3>1, <3>2
  <2>. QED  BY <2>2, <2>3 DEF PartialsInv
<1>6. CASE Tick
  BY <1>6 DEF Tick, PartialsInv
<1>7. CASE UNCHANGED vars
  BY <1>7 DEF vars, PartialsInv
<1>. QED  BY <1>1, <1>2, <1>3, <1>4, <1>5, <1>6, <1>7, NextCases

(* The messages delivered from s are those that f names, and none of them is
   still being sent. *)
Settled(s, f) ==
    /\ f \in [DOMAIN delivered[s] -> DOMAIN sent[s]]
    /\ Accounts(s, f)
    /\ \A m \in sends[s] : \A i \in DOMAIN delivered[s] : f[i] # m.no

(* One message more. *)
LEMMA OneMore ==
    ASSUME TypeOK, TypeOK', SentGrows, NEW s \in Correct, NEW f, Settled(s, f),
           NEW n \in DOMAIN sent'[s], \A i \in DOMAIN delivered[s] : f[i] # n,
           delivered'[s] = Append(delivered[s], sent'[s][n]),
           \A m \in sends'[s] : m \in sends[s] /\ m.no # n
    PROVE  \E g : Settled(s, g)'
<1>. DEFINE g == [i \in DOMAIN delivered'[s] |->
                    IF i \in DOMAIN delivered[s] THEN f[i] ELSE n]
            D == delivered[s]
            E == delivered'[s]
<1>1. D \in Seq(Message) /\ sent'[s][n] \in Message
  BY DEF TypeOK
<1>2. /\ Len(E) = Len(D) + 1 /\ Len(D) \in Nat
      /\ E[Len(D) + 1] = sent'[s][n]
      /\ \A i \in 1 .. Len(D) : E[i] = D[i]
      /\ E \in Seq(Message)
  BY <1>1, AppendProperties
<1>. HIDE DEF E
<1>3. DOMAIN D = 1 .. Len(D) /\ DOMAIN E = 1 .. Len(D) + 1
  BY <1>1, <1>2
<1>4. \A i \in DOMAIN E : i \in DOMAIN D \/ i = Len(D) + 1
  BY <1>2, <1>3
<1>5. Len(D) + 1 \notin DOMAIN D
  BY <1>2, <1>3
<1>6. /\ f \in [DOMAIN D -> DOMAIN sent[s]]
      /\ \A i \in DOMAIN D : D[i] = sent[s][f[i]]
      /\ \A i, j \in DOMAIN D : f[i] = f[j] => i = j
      /\ \A m \in sends[s] : \A i \in DOMAIN D : f[i] # m.no
  BY DEF Settled, Accounts
<1>. HIDE DEF D
<1>7. g = [i \in DOMAIN E |-> IF i \in DOMAIN D THEN f[i] ELSE n]
  BY DEF D, E
<1>. HIDE DEF g
<1>8. g \in [DOMAIN E -> DOMAIN sent'[s]]
  BY <1>6, <1>7 DEF SentGrows
<1>9. \A i \in DOMAIN E : E[i] = sent'[s][g[i]]
  BY <1>2, <1>3, <1>4, <1>5, <1>6, <1>7 DEF SentGrows
<1>10. \A i \in DOMAIN D : f[i] # n
  BY DEF D
<1>11. \A i, j \in DOMAIN E : g[i] = g[j] => i = j
  BY <1>4, <1>5, <1>6, <1>7, <1>10
<1>12. \A m \in sends'[s] : \A i \in DOMAIN E : g[i] # m.no
  BY <1>4, <1>6, <1>7
<1>. QED  BY <1>8, <1>9, <1>11, <1>12 DEF Settled, Accounts, E

(* The same messages as before. *)
LEMMA NoMore ==
    ASSUME SentGrows, NEW s \in Correct, NEW f, Settled(s, f),
           delivered'[s] = delivered[s],
           \A m \in sends'[s] : \E o \in sends[s] \cup sends'[s] :
               /\ o.no = m.no
               /\ o \in sends[s] \/ o.no \notin DOMAIN sent[s]
    PROVE  Settled(s, f)'
<1>1. /\ f \in [DOMAIN delivered[s] -> DOMAIN sent[s]]
      /\ \A i \in DOMAIN delivered[s] : delivered[s][i] = sent[s][f[i]]
      /\ \A i, j \in DOMAIN delivered[s] : f[i] = f[j] => i = j
      /\ \A m \in sends[s] : \A i \in DOMAIN delivered[s] : f[i] # m.no
  BY DEF Settled, Accounts
<1>2. \A m \in sends'[s] : \A i \in DOMAIN delivered[s] : f[i] # m.no
  BY <1>1
<1>3. f \in [DOMAIN delivered'[s] -> DOMAIN sent'[s]]
  BY <1>1 DEF SentGrows
<1>4. \A i \in DOMAIN delivered[s] : sent'[s][f[i]] = sent[s][f[i]]
  BY <1>1 DEF SentGrows
<1>. QED  BY <1>1, <1>2, <1>3, <1>4 DEF Settled, Accounts

LEMMA DeliveredIsSettled ==
    DeliveredInv <=> \A s \in Correct : \E f : Settled(s, f)
BY DEF DeliveredInv, Settled

LEMMA DeliveredNext ==
    ASSUME TypeOK, TasksInv, PartialsInv, DeliveredInv, TypeOK', [Next]_vars
    PROVE  DeliveredInv'
<1>0. \A s \in Correct : \E f : Settled(s, f)
  BY DeliveredIsSettled
<1>. SUFFICES ASSUME NEW r \in Correct PROVE \E g : Settled(r, g)'
  BY DEF DeliveredInv, Settled
<1>. PICK h : Settled(r, h)
  BY <1>0
<1>a. ASSUME sent' = sent PROVE SentGrows
  BY <1>a DEF SentGrows
<1>1. ASSUME NEW s \in Correct, NEW len \in Lengths, NEW topic \in Topics,
             Send(s, len, topic)
      PROVE  \E g : Settled(r, g)'
  <2>. DEFINE n == Len(sent[s]) + 1
              t == NewTask(n, len, topic)
              m == [topic |-> topic, payload |-> Payload(s, n, len)]
  <2>1. /\ n \in Nat /\ n \notin DOMAIN sent[s]
        /\ DOMAIN sent'[s] = DOMAIN sent[s] \cup {n} /\ sent'[s][n] = m
        /\ m \in Message /\ SentGrows
        /\ \/ Deliver(s, m) /\ sends' = sends
           \/ /\ sends'[s] = sends[s] \cup {t}
              /\ \A u \in Correct : u # s => sends'[u] = sends[u]
              /\ delivered' = delivered
    BY <1>1, SendProps
  <2>2. t.no = n
    BY DEF NewTask
  <2>. HIDE DEF t, m, n
  <2>3. CASE Deliver(s, m) /\ sends' = sends
    <3>1. /\ delivered'[s] = Append(delivered[s], m)
          /\ \A u \in Correct : u # s => delivered'[u] = delivered[u]
      BY <2>1, <2>3, DeliverProps DEF Sources
    <3>2. CASE r = s
      <4>1. \A i \in DOMAIN delivered[s] : h[i] # n
        BY <2>1, <3>2 DEF Settled
      <4>a. n \notin DOMAIN sent[s] /\ sends' = sends
        BY <2>1, <2>3
      <4>b. \A o \in sends[s] : o.no \in DOMAIN sent[s]
        BY TaskUnfinished
      <4>2. \A o \in sends'[s] : o \in sends[s] /\ o.no # n
        BY <4>a, <4>b
      <4>3. n \in DOMAIN sent'[s] /\ delivered'[s] = Append(delivered[s], sent'[s][n])
        BY <2>1, <3>1
      <4>4. SentGrows
        BY <2>1
      <4>. QED  BY <3>2, <4>1, <4>2, <4>3, <4>4, OneMore
    <3>3. CASE r # s
      <4>1. delivered'[r] = delivered[r] /\ sends'[r] = sends[r] /\ SentGrows
        BY <2>1, <2>3, <3>1, <3>3
      <4>. QED  BY <4>1, NoMore
    <3>. QED  BY <3>2, <3>3
  <2>4. CASE /\ sends'[s] = sends[s] \cup {t}
             /\ \A u \in Correct : u # s => sends'[u] = sends[u]
             /\ delivered' = delivered
    <3>1. \A o \in sends'[r] : o \in sends[r] \/ o.no \notin DOMAIN sent[r]
      BY <2>1, <2>2, <2>4
    <3>2. SentGrows /\ delivered'[r] = delivered[r]
      BY <2>1, <2>4
    <3>. QED  BY <3>1, <3>2, NoMore
  <2>. QED  BY <2>1, <2>3, <2>4
<1>2. ASSUME NEW s \in Correct, NEW m \in sends[s], SendFragment(s, m)
      PROVE  \E g : Settled(r, g)'
  <2>. DEFINE f == FragmentOf(s, m, m.next)
              q == AppendTo(PartialFor(RemoveExpired(partials), s, f), f)
              P == Payload(s, m.no, m.len)
  <2>1. /\ m \in Task /\ Unfinished(m) /\ s \in Sources /\ m.no \in DOMAIN sent[s]
        /\ sent[s][m.no] = [topic |-> m.topic, payload |-> P]
    BY TaskUnfinished DEF Sources
  <2>2. /\ f \in Fragment /\ IsValid(f) /\ f.id = m.no
        /\ m.next + 1 < FragmentCount(m.len) => FragmentEnd(m) < m.len
        /\ m.next + 1 <= FragmentCount(m.len)
        /\ FragmentEnd(m) \in Nat
    BY <2>1, FragmentProps
  <2>3. sent' = sent /\ Accept(s, f) /\ AdvanceTo(s, m, Advanced(s, m, TRUE))
    BY <1>2 DEF SendFragment
  <2>4. \A u \in Correct : \A o \in sends'[u] :
            IF u = s /\ o.no = m.no THEN o.next = m.next + 1 ELSE o \in sends[u]
    BY <2>3, AdvanceTasks
  <2>5. UNCHANGED delivered \/ Completed(s, f)
    <3>. HIDE DEF f
    <3>. QED  BY <2>1, <2>2, <2>3, AcceptEffect
  <2>6. SentGrows
    BY <1>a, <2>3
  <2>7. \A o \in sends'[r] : \E u \in sends[r] : u.no = o.no
    BY <2>4
  <2>8. CASE delivered'[r] = delivered[r]
    BY <2>6, <2>7, <2>8, NoMore
  <2>9. CASE Completed(s, f)
    <3>1. /\ q.payload = SubSeq(P, 1, FragmentEnd(m)) /\ Len(q.payload) = FragmentEnd(m)
          /\ q.total = m.len /\ q.topic = m.topic /\ q \in Partial
      BY <2>9, Joined DEF Completed
    <3>2. /\ Len(q.payload) = q.total
          /\ Deliver(s, [topic |-> q.topic, payload |-> q.payload])
      BY <2>9 DEF Completed
    <3>3. FragmentEnd(m) = m.len
      BY <3>1, <3>2
    <3>4. P \in Seq(Byte) /\ Len(P) = m.len
      BY <2>1, PayloadSeq DEF Task
    <3>5. q.payload = P
      <4>1. SubSeq(P, 1, Len(P)) = P
        <5>. HIDE DEF P
        <5>. QED  BY <3>4, SubSeqFull
      <4>. HIDE DEF P, q
      <4>. QED  BY <3>1, <3>3, <3>4, <4>1
    <3>. HIDE DEF P, q
    <3>6. [topic |-> q.topic, payload |-> q.payload] = sent[s][m.no]
      BY <2>1, <3>1, <3>5
    <3>7. sent[s][m.no] \in Message
      BY <2>1 DEF TypeOK
    <3>8. /\ delivered'[s] = Append(delivered[s], sent'[s][m.no])
          /\ \A u \in Correct : u # s => delivered'[u] = delivered[u]
      BY <2>1, <2>3, <3>2, <3>6, <3>7, DeliverProps
    <3>9. m.next + 1 = FragmentCount(m.len)
      <4>1. FragmentCount(m.len) \in Nat /\ m.next \in Nat /\ m.len \in Nat
        BY <2>1, FragmentBounds DEF Unfinished, Task
      <4>. QED  BY <2>2, <3>3, <4>1
    <3>10. sends'[s] = sends[s] \ {m}
      <4>1. AdvanceTo(s, m, Advanced(s, m, TRUE)) /\ Unfinished(m)
        BY <2>1, <2>3
      <4>2. FragmentCount(m.len) \in Nat
        BY <2>1, FragmentBounds DEF Unfinished, Task
      <4>3. TRUE \in BOOLEAN
        OBVIOUS
      <4>. HIDE DEF f
      <4>. QED  BY <3>9, <4>1, <4>2, <4>3, AdvanceLast, Zenon
    <3>11. \A o \in sends'[s] : o \in sends[s] /\ o.no # m.no
      BY <3>10, TaskUnfinished
    <3>12. CASE r = s
      <4>1. \A i \in DOMAIN delivered[s] : h[i] # m.no
        BY <3>12 DEF Settled
      <4>2. m.no \in DOMAIN sent'[s]
        BY <2>1, <2>3
      <4>. QED  BY <2>6, <3>8, <3>11, <3>12, <4>1, <4>2, OneMore
    <3>13. CASE r # s
      BY <2>8, <3>8, <3>13
    <3>. QED  BY <3>12, <3>13
  <2>. QED  BY <2>5, <2>8, <2>9
<1>3. ASSUME NEW s \in Correct, NEW m \in sends[s], LoseFragment(s, m)
      PROVE  \E g : Settled(r, g)'
  <2>1. sent' = sent /\ delivered' = delivered
    BY <1>3 DEF LoseFragment
  <2>2. \A u \in Correct : \A o \in sends'[u] :
            IF u = s /\ o.no = m.no THEN o.next = m.next + 1 ELSE o \in sends[u]
    BY <1>3, AdvanceTasks DEF LoseFragment
  <2>3. \A o \in sends'[r] : \E u \in sends[r] : u.no = o.no
    BY <2>2
  <2>. QED  BY <1>a, <2>1, <2>3, NoMore
<1>4. ASSUME NEW s \in Correct, NEW m \in sends[s], SendFails(s, m)
      PROVE  \E g : Settled(r, g)'
  <2>1. sends'[r] \subseteq sends[r]
    BY <1>4 DEF SendFails, TypeOK
  <2>2. sent' = sent /\ delivered' = delivered
    BY <1>4 DEF SendFails
  <2>. QED  BY <1>a, <2>1, <2>2, NoMore
<1>5. ASSUME NEW s \in Faulty, NEW f \in FaultyFragments, FaultyFragment(s, f)
      PROVE  \E g : Settled(r, g)'
  <2>1. f \in Fragment /\ s \in Sources /\ s \notin Correct
    BY SourcesAssumption DEF Sources
  <2>2. sends' = sends /\ sent' = sent /\ Accept(s, f)
    BY <1>5 DEF FaultyFragment
  <2>3. delivered' = delivered
    <3>1. CASE ~IsValid(f)
      BY <2>2, <3>1 DEF Accept
    <3>2. CASE IsValid(f)
      <4>1. UNCHANGED delivered \/ Completed(s, f)
        BY <2>1, <2>2, <3>2, AcceptEffect
      <4>. QED  BY <2>1, <4>1, DeliverProps DEF Completed
    <3>. QED  BY <3>1, <3>2
  <2>. QED  BY <1>a, <2>2, <2>3, NoMore
<1>6. CASE Tick
  <2>1. UNCHANGED <<sends, sent, delivered>>
    BY <1>6 DEF Tick
  <2>. QED  BY <1>a, <2>1, NoMore
<1>7. CASE UNCHANGED vars
  <2>1. UNCHANGED <<sends, sent, delivered>>
    BY <1>7 DEF vars
  <2>. QED  BY <1>a, <2>1, NoMore
<1>. QED  BY <1>1, <1>2, <1>3, <1>4, <1>5, <1>6, <1>7, NextCases

-----------------------------------------------------------------------------
(* Timeouts *)

LEMMA AcceptLifetime ==
    ASSUME TypeOK, LifetimeInv, NEW s \in Sources, NEW f \in Fragment, Accept(s, f)
    PROVE  LifetimeInv'
<1>1. CASE ~IsValid(f)
  <2>1. partials' = partials /\ swept' = swept
    BY <1>1 DEF Accept
  <2>. QED  BY <2>1 DEF LifetimeInv
<1>2. CASE IsValid(f)
  <2>. DEFINE live == RemoveExpired(partials)
              key == <<s, f.id>>
              p == PartialFor(live, s, f)
              q == AppendTo(p, f)
  <2>1. /\ DOMAIN live = {k \in DOMAIN partials : partials[k].expires > now}
        /\ \A k \in DOMAIN live : live[k] = partials[k]
        /\ PartialsType(partials)
    BY LiveProps
  <2>2. /\ swept' = now
        /\ \A k \in DOMAIN partials' : k # key =>
             k \in DOMAIN live /\ partials'[k] = partials[k]
        /\ key \in DOMAIN partials' => Stored(s, f)
    BY <1>2, AcceptEffect
  <2>3. /\ p \in Draft
        /\ key \in DOMAIN live => p = partials[key]
        /\ key \notin DOMAIN live => p.deadline = now + ReassemblyTimeout
    BY <1>2, PartialForProps
  <2>4. now \in Nat /\ ReassemblyTimeout \in Nat \ {0}
    BY TimesAssumption DEF TypeOK
  <2>5. \A k \in DOMAIN live : /\ partials[k].expires <= partials[k].deadline
                               /\ now < partials[k].deadline
    <3>1. \A k \in DOMAIN live : /\ partials[k].expires <= partials[k].deadline
                                 /\ partials[k].expires > now
                                 /\ partials[k] \in Partial
      <4>. HIDE DEF live
      <4>. QED  BY <2>1 DEF LifetimeInv, PartialsType
    <3>. QED  BY <2>4, <3>1 DEF Partial
  <2>6. now < p.deadline
    <3>. HIDE DEF live, p, key
    <3>. QED  BY <2>3, <2>4, <2>5
  <2>7. q.deadline = p.deadline /\ q.expires <= p.deadline
    <3>. HIDE DEF p
    <3>. QED  BY <2>3, AppendToProps
  <2>8. key \in DOMAIN partials' => partials'[key] = q
    BY <2>2 DEF Stored, Put
  <2>. HIDE DEF q, p, live, key
  <2>9. ASSUME NEW k \in DOMAIN partials'
        PROVE  /\ partials'[k].expires <= partials'[k].deadline
               /\ now < partials'[k].deadline
    <3>1. CASE k = key
      BY <2>6, <2>7, <2>8, <3>1
    <3>2. CASE k # key
      BY <2>2, <2>5, <3>2
    <3>. QED  BY <3>1, <3>2
  <2>. QED  BY <2>2, <2>9 DEF LifetimeInv
<1>. QED  BY <1>1, <1>2

(* What a step does to the incomplete messages: a fragment is accepted or
   nothing changes. *)
LEMMA PartialsChange ==
    ASSUME TypeOK, TasksInv, [Next]_vars
    PROVE  \/ \E s \in Sources, f \in Fragment : Accept(s, f)
           \/ UNCHANGED <<partials, swept>>
<1>1. ASSUME NEW s \in Correct, NEW m \in sends[s], SendFragment(s, m)
      PROVE  \E r \in Sources, f \in Fragment : Accept(r, f)
  <2>1. m \in Task /\ Unfinished(m) /\ s \in Sources
    BY TaskUnfinished DEF Sources
  <2>2. FragmentOf(s, m, m.next) \in Fragment
    BY <2>1, FragmentProps
  <2>. QED  BY <1>1, <2>1, <2>2 DEF SendFragment
<1>2. ASSUME NEW s \in Faulty, NEW f \in FaultyFragments, FaultyFragment(s, f)
      PROVE  \E r \in Sources, g \in Fragment : Accept(r, g)
  <2>1. f \in Fragment /\ s \in Sources
    BY SourcesAssumption DEF Sources
  <2>. QED  BY <1>2, <2>1 DEF FaultyFragment
<1>3. ASSUME NEW s \in Correct, NEW len \in Lengths, NEW topic \in Topics,
             Send(s, len, topic)
      PROVE  UNCHANGED <<partials, swept>>
  BY <1>3 DEF Send
<1>4. ASSUME NEW s \in Correct, NEW m \in sends[s], LoseFragment(s, m) \/ SendFails(s, m)
      PROVE  UNCHANGED <<partials, swept>>
  BY <1>4 DEF LoseFragment, SendFails
<1>5. Tick \/ UNCHANGED vars => UNCHANGED <<partials, swept>>
  BY DEF Tick, vars
<1>. QED  BY <1>1, <1>2, <1>3, <1>4, <1>5, NextCases

LEMMA LifetimeNext ==
    ASSUME TypeOK, TasksInv, LifetimeInv, [Next]_vars
    PROVE  LifetimeInv'
<1>1. CASE \E s \in Sources, f \in Fragment : Accept(s, f)
  BY <1>1, AcceptLifetime
<1>2. CASE UNCHANGED <<partials, swept>>
  BY <1>2 DEF LifetimeInv
<1>. QED  BY <1>1, <1>2, PartialsChange

-----------------------------------------------------------------------------
(* Limits *)

(* What WithinLimits says of the incomplete messages. *)
UsageFits(ps) ==
    \A s \in Sources :
        /\ Fits(Usage(ps, {s}), SourceLimit)
        /\ Fits(Usage(ps, PoolMates(s)), PoolLimit(PoolOf(s)))

LEMMA LimitsType ==
    /\ SourceLimit \in Limit
    /\ \A s \in Sources : PoolLimit(PoolOf(s)) \in Limit
BY SizesAssumption DEF PoolLimit

LEMMA FitsLess ==
    ASSUME NEW a, NEW b, NEW l \in Limit, Fits(a, l),
           a.messages \in Nat, a.bytes \in Nat, b.messages \in Nat, b.bytes \in Nat,
           b.messages <= a.messages, b.bytes <= a.bytes
    PROVE  Fits(b, l)
BY DEF Fits, Limit

LEMMA UsageNat ==
    ASSUME NEW ps, PartialsType(ps), NEW ss
    PROVE  Usage(ps, ss).messages \in Nat /\ Usage(ps, ss).bytes \in Nat
BY UsageShrinks

LEMMA FitsShrinks ==
    ASSUME NEW ps, PartialsType(ps), UsageFits(ps),
           NEW qs, DOMAIN qs \subseteq DOMAIN ps,
           \A k \in DOMAIN qs : qs[k].total = ps[k].total
    PROVE  UsageFits(qs)
<1>1. ASSUME NEW ss, NEW l \in Limit, Fits(Usage(ps, ss), l)
      PROVE  Fits(Usage(qs, ss), l)
  <2>. DEFINE a == Usage(ps, ss)
              b == Usage(qs, ss)
  <2>1. /\ b.messages \in Nat /\ b.bytes \in Nat
        /\ b.messages <= a.messages /\ b.bytes <= a.bytes
    BY UsageShrinks
  <2>2. a.messages \in Nat /\ a.bytes \in Nat
    BY UsageNat
  <2>3. Fits(a, l)
    BY <1>1
  <2>. HIDE DEF a, b
  <2>4. Fits(b, l)
    BY <2>1, <2>2, <2>3, FitsLess
  <2>. QED  BY <2>4 DEF b
<1>. QED  BY <1>1, LimitsType DEF UsageFits

(* Admitting a message of s. *)
LEMMA FitsAdmitted ==
    ASSUME NEW ps, PartialsType(ps), UsageFits(ps), NEW s \in Sources, NEW n \in Nat,
           NEW q \in Partial, <<s, n>> \notin DOMAIN ps, Admit(ps, s, q.total)
    PROVE  UsageFits(Put(ps, <<s, n>>, q))
<1>. DEFINE k == <<s, n>>
            qs == Put(ps, k, q)
<1>0. k \in Sources \X Nat /\ k[1] = s /\ k \notin DOMAIN ps
  OBVIOUS
<1>1. ASSUME NEW ss, NEW l \in Limit, Fits(Usage(ps, ss), l),
             s \in ss => HasRoom(Usage(ps, ss), l, q.total)
      PROVE  Fits(Usage(qs, ss), l)
  <2>. DEFINE a == Usage(ps, ss)
              b == Usage(qs, ss)
  <2>1. IF s \in ss
        THEN b.messages = a.messages + 1 /\ b.bytes = a.bytes + q.total
        ELSE b.messages = a.messages /\ b.bytes = a.bytes
    <3>. HIDE DEF k
    <3>. QED  BY <1>0, UsageOfPut
  <2>2. a.messages \in Nat /\ a.bytes \in Nat
    BY UsageNat
  <2>3. Fits(a, l) /\ (s \in ss => HasRoom(a, l, q.total))
    BY <1>1
  <2>. HIDE DEF a, b
  <2>4. Fits(b, l)
    BY <2>1, <2>2, <2>3 DEF Fits, HasRoom, Limit
  <2>. QED  BY <2>4 DEF b
<1>2. ASSUME NEW r \in Sources PROVE Fits(Usage(qs, {r}), SourceLimit)
  <2>1. Fits(Usage(ps, {r}), SourceLimit)
    BY DEF UsageFits
  <2>2. s \in {r} => HasRoom(Usage(ps, {r}), SourceLimit, q.total)
    BY DEF Admit
  <2>. HIDE DEF qs
  <2>. QED  BY <1>1, <2>1, <2>2, LimitsType
<1>3. ASSUME NEW r \in Sources PROVE Fits(Usage(qs, PoolMates(r)), PoolLimit(PoolOf(r)))
  <2>1. Fits(Usage(ps, PoolMates(r)), PoolLimit(PoolOf(r)))
    BY DEF UsageFits
  <2>2. s \in PoolMates(r) => PoolOf(s) = PoolOf(r) /\ PoolMates(s) = PoolMates(r)
    BY DEF PoolMates
  <2>3. s \in PoolMates(r) =>
          HasRoom(Usage(ps, PoolMates(r)), PoolLimit(PoolOf(r)), q.total)
    BY <2>2 DEF Admit
  <2>. HIDE DEF qs
  <2>. QED  BY <1>1, <2>1, <2>3, LimitsType
<1>. QED  BY <1>2, <1>3 DEF UsageFits

LEMMA AcceptLimits ==
    ASSUME TypeOK, WithinLimits, NEW s \in Sources, NEW f \in Fragment, Accept(s, f)
    PROVE  WithinLimits'
<1>0. UsageFits(partials) /\ \A k \in DOMAIN partials : Len(partials[k].payload) < partials[k].total
  BY DEF WithinLimits, UsageFits
<1>a. UsageFits(partials') /\ (\A k \in DOMAIN partials' : Len(partials'[k].payload) < partials'[k].total)
        => WithinLimits'
  BY DEF WithinLimits, UsageFits
<1>1. CASE ~IsValid(f)
  <2>1. partials' = partials
    BY <1>1 DEF Accept
  <2>. QED  BY <1>0, <1>a, <2>1
<1>2. CASE IsValid(f)
  <2>. DEFINE live == RemoveExpired(partials)
              key == <<s, f.id>>
              p == PartialFor(live, s, f)
              q == AppendTo(p, f)
  <2>1. /\ DOMAIN live \subseteq DOMAIN partials
        /\ \A k \in DOMAIN live : live[k] = partials[k]
        /\ PartialsType(partials) /\ PartialsType(live)
    BY LiveProps
  <2>2. /\ \A k \in DOMAIN partials' : k # key =>
             k \in DOMAIN live /\ partials'[k] = partials[k]
        /\ key \in DOMAIN partials' => Stored(s, f)
        /\ Stored(s, f) \/ (DOMAIN partials' \subseteq DOMAIN live /\ key \notin DOMAIN partials')
    BY <1>2, AcceptEffect
  <2>3. UsageFits(live)
    <3>. HIDE DEF live
    <3>. QED  BY <1>0, <2>1, FitsShrinks
  <2>4. CASE ~Stored(s, f)
    <3>. HIDE DEF live, key
    <3>1. DOMAIN partials' \subseteq DOMAIN live /\ \A k \in DOMAIN partials' : partials'[k] = partials[k]
      BY <2>2, <2>4
    <3>2. DOMAIN partials' \subseteq DOMAIN partials
      BY <2>1, <3>1
    <3>3. UsageFits(partials')
      BY <1>0, <2>1, <3>1, <3>2, FitsShrinks
    <3>. QED  BY <1>0, <1>a, <3>1, <3>2, <3>3
  <2>5. CASE Stored(s, f)
    <3>1. /\ partials' = Put(live, key, q) /\ Check(p, f) /\ Len(q.payload) < q.total
          /\ key \in DOMAIN live \/ Admit(live, s, f.total)
      BY <2>5 DEF Stored
    <3>2. p \in Draft /\ (key \in DOMAIN live => p = partials[key])
      BY <1>2, PartialForProps
    <3>3. q \in Partial /\ q.total = p.total
      <4>. HIDE DEF p
      <4>. QED  BY <3>2, AppendToProps
    <3>4. q.total = f.total
      BY <3>1, <3>3 DEF Check
    <3>5. f.id \in Nat
      BY DEF Fragment
    <3>. HIDE DEF q, p, live
    <3>6. UsageFits(partials')
      <4>1. CASE key \in DOMAIN live
        <5>1. q.total = live[key].total
          BY <2>1, <3>2, <3>3, <4>1
        <5>. HIDE DEF key
        <5>2. \A ss : /\ Usage(partials', ss).messages = Usage(live, ss).messages
                      /\ Usage(partials', ss).bytes = Usage(live, ss).bytes
          BY <2>1, <3>1, <4>1, <5>1, UsageOfUpdate
        <5>. QED  BY <2>3, <5>2 DEF UsageFits, Fits
      <4>2. CASE key \notin DOMAIN live
        BY <2>1, <2>3, <3>1, <3>3, <3>4, <3>5, <4>2, FitsAdmitted
      <4>. QED  BY <4>1, <4>2
    <3>7. partials'[key] = q
      BY <3>1 DEF Put
    <3>8. ASSUME NEW k \in DOMAIN partials'
          PROVE  Len(partials'[k].payload) < partials'[k].total
      <4>. HIDE DEF key
      <4>1. CASE k = key
        BY <3>1, <3>7, <4>1
      <4>2. CASE k # key
        BY <1>0, <2>1, <2>2, <4>2
      <4>. QED  BY <4>1, <4>2
    <3>. QED  BY <1>a, <3>6, <3>8
  <2>. QED  BY <2>4, <2>5
<1>. QED  BY <1>1, <1>2

LEMMA LimitsNext ==
    ASSUME TypeOK, TasksInv, WithinLimits, [Next]_vars
    PROVE  WithinLimits'
<1>1. CASE \E s \in Sources, f \in Fragment : Accept(s, f)
  BY <1>1, AcceptLimits
<1>2. CASE UNCHANGED <<partials, swept>>
  BY <1>2 DEF WithinLimits
<1>. QED  BY <1>1, <1>2, PartialsChange

LEMMA LimitsInit == Init => WithinLimits
<1>. SUFFICES ASSUME Init PROVE WithinLimits
  OBVIOUS
<1>1. DOMAIN partials = {}
  BY DEF Init
<1>2. \A ss : KeysOf(partials, ss) = {}
  BY <1>1 DEF KeysOf
<1>3. \A ss : Usage(partials, ss) = [messages |-> 0, bytes |-> 0]
  BY <1>2, UsageIsSum, BytesEmpty, FS_EmptySet
<1>4. \A l \in Limit : Fits([messages |-> 0, bytes |-> 0], l)
  BY DEF Fits, Limit
<1>. QED  BY <1>1, <1>3, <1>4, LimitsType DEF WithinLimits
-----------------------------------------------------------------------------
(* Room for correct sources *)

(* The usage of a set of sources and one more. *)
LEMMA UsageOfOneMore ==
    ASSUME NEW ps, PartialsType(ps), NEW R, NEW r, r \notin R
    PROVE  /\ Usage(ps, R \cup {r}).messages = Usage(ps, R).messages + Usage(ps, {r}).messages
           /\ Usage(ps, R \cup {r}).bytes = Usage(ps, R).bytes + Usage(ps, {r}).bytes
<1>. DEFINE A == KeysOf(ps, R)
            B == KeysOf(ps, {r})
            C == KeysOf(ps, R \cup {r})
<1>1. C = A \cup B /\ A \cap B = {}
  BY DEF KeysOf
<1>2. /\ IsFiniteSet(A) /\ IsFiniteSet(B)
      /\ \A k \in A : ps[k].total \in Nat
      /\ \A k \in B : ps[k].total \in Nat
      /\ Cardinality(A) \in Nat /\ Cardinality(B) \in Nat
  BY KeysFinite
<1>. HIDE DEF A, B, C
<1>3. Bytes(ps, C) = Bytes(ps, A) + Bytes(ps, B)
  BY <1>1, <1>2, BytesUnion
<1>4. Cardinality(C) = Cardinality(A) + Cardinality(B)
  <2>1. Cardinality(A \cap B) = 0
    BY <1>1, FS_EmptySet
  <2>2. Cardinality(A \cup B) = Cardinality(A) + Cardinality(B) - Cardinality(A \cap B)
    BY <1>2, FS_Union
  <2>. QED  BY <1>1, <1>2, <2>1, <2>2
<1>5. \A ss : /\ Usage(ps, ss).messages = Cardinality(KeysOf(ps, ss))
              /\ Usage(ps, ss).bytes = Bytes(ps, KeysOf(ps, ss))
  BY UsageIsSum
<1>. QED  BY <1>3, <1>4, <1>5 DEF A, B, C

(* Sources within their limits take at most that much together. *)
LEMMA UsageOfMany ==
    ASSUME NEW ps, PartialsType(ps),
           \A r \in Sources : Fits(Usage(ps, {r}), SourceLimit),
           NEW R, R \subseteq Sources, IsFiniteSet(R)
    PROVE  /\ Usage(ps, R).messages <= Cardinality(R) * SourceLimit.messages
           /\ Usage(ps, R).bytes <= Cardinality(R) * SourceLimit.bytes
<1>. DEFINE Low(S) == /\ Usage(ps, S).messages <= Cardinality(S) * SourceLimit.messages
                      /\ Usage(ps, S).bytes <= Cardinality(S) * SourceLimit.bytes
            Bad == {S \in SUBSET R : ~Low(S)}
<1>. SUFFICES ASSUME Bad # {} PROVE FALSE
  OBVIOUS
<1>1. \A S \in Bad : S \in SUBSET R /\ IsFiniteSet(S)
  BY FS_Subset
<1>2. PICK S \in Bad : \A W \in SUBSET S : W # S => W \notin Bad
  <2>. HIDE DEF Bad
  <2>. QED  BY <1>1, MinimalSet
<1>3. SourceLimit.messages \in Nat /\ SourceLimit.bytes \in Nat
  BY SizesAssumption DEF Limit
<1>4. CASE S = {}
  <2>1. KeysOf(ps, S) = {}
    BY <1>4 DEF KeysOf
  <2>2. Usage(ps, S).messages = 0 /\ Usage(ps, S).bytes = 0
    BY <2>1, UsageIsSum, BytesEmpty, FS_EmptySet
  <2>3. Cardinality(S) = 0
    BY <1>4, FS_EmptySet
  <2>4. Low(S)
    BY <1>3, <2>2, <2>3
  <2>. QED  BY <2>4
<1>5. CASE S # {}
  <2>. PICK r \in S : TRUE
    BY <1>5
  <2>. DEFINE W == S \ {r}
  <2>1. W \in SUBSET S /\ W # S /\ r \notin W /\ S = W \cup {r}
    OBVIOUS
  <2>2. IsFiniteSet(S) /\ S \subseteq R /\ IsFiniteSet(W)
    BY <1>1, FS_Subset
  <2>3. Low(W)
    BY <1>2, <2>1, <2>2
  <2>4. Cardinality(S) = Cardinality(W) + 1 /\ Cardinality(W) \in Nat
    BY <2>2, FS_RemoveElement, FS_CardinalityType
  <2>5. /\ Usage(ps, S).messages = Usage(ps, W).messages + Usage(ps, {r}).messages
        /\ Usage(ps, S).bytes = Usage(ps, W).bytes + Usage(ps, {r}).bytes
    <3>. HIDE DEF W
    <3>. QED  BY <2>1, UsageOfOneMore
  <2>6. /\ Usage(ps, {r}).messages <= SourceLimit.messages
        /\ Usage(ps, {r}).bytes <= SourceLimit.bytes
    BY <2>2 DEF Fits
  <2>7. /\ Usage(ps, {r}).messages \in Nat /\ Usage(ps, {r}).bytes \in Nat
        /\ Usage(ps, W).messages \in Nat /\ Usage(ps, W).bytes \in Nat
    BY UsageNat
  <2>. HIDE DEF W
  <2>8. \A l \in Nat : /\ Cardinality(S) * l = Cardinality(W) * l + l
                       /\ Cardinality(W) * l \in Nat
    BY <2>4
  <2>9. Low(S)
    BY <1>3, <2>3, <2>5, <2>6, <2>7, <2>8
  <2>. QED  BY <2>9
<1>. QED  BY <1>4, <1>5

(* Where the pool has room for all its sources, the limit of the source itself
   decides. *)
LEMMA PoolHasRoom ==
    ASSUME PoolRoom, NEW ps, PartialsType(ps),
           \A r \in Sources : Fits(Usage(ps, {r}), SourceLimit),
           NEW s \in Correct, NEW total \in Nat, HasRoom(Usage(ps, {s}), SourceLimit, total)
    PROVE  Admit(ps, s, total)
<1>. DEFINE W == Sources \ Web
            R == W \ {s}
            L == SourceLimit
            O == OtherPoolLimit
<1>1. s \in W /\ s \notin Web /\ W = R \cup {s} /\ s \notin R /\ R \subseteq Sources
  BY DEF PoolRoom, Sources
<1>2. PoolOf(s) = "other" /\ PoolMates(s) = W /\ PoolLimit(PoolOf(s)) = O
  BY <1>1 DEF PoolOf, PoolMates, PoolLimit
<1>3. /\ IsFiniteSet(W) /\ IsFiniteSet(R)
      /\ Cardinality(W) * L.messages <= O.messages
      /\ Cardinality(W) * L.bytes <= O.bytes
  BY FS_Subset DEF PoolRoom
<1>4. Cardinality(W) = Cardinality(R) + 1 /\ Cardinality(R) \in Nat
  BY <1>1, <1>3, FS_RemoveElement, FS_CardinalityType
<1>. HIDE DEF W, R
<1>5. /\ Usage(ps, R).messages <= Cardinality(R) * L.messages
      /\ Usage(ps, R).bytes <= Cardinality(R) * L.bytes
  BY <1>1, <1>3, UsageOfMany
<1>6. /\ Usage(ps, W).messages = Usage(ps, R).messages + Usage(ps, {s}).messages
      /\ Usage(ps, W).bytes = Usage(ps, R).bytes + Usage(ps, {s}).bytes
  BY <1>1, UsageOfOneMore
<1>7. /\ Usage(ps, {s}).messages \in Nat /\ Usage(ps, {s}).bytes \in Nat
      /\ Usage(ps, R).messages \in Nat /\ Usage(ps, R).bytes \in Nat
  BY UsageNat
<1>8. L.messages \in Nat /\ L.bytes \in Nat /\ O.messages \in Nat /\ O.bytes \in Nat
  BY SizesAssumption DEF Limit
<1>9. \A l \in Nat : /\ Cardinality(W) * l = Cardinality(R) * l + l
                     /\ Cardinality(R) * l \in Nat
  BY <1>4
<1>10. Usage(ps, {s}).messages < L.messages /\ Usage(ps, {s}).bytes + total <= L.bytes
  BY DEF HasRoom
<1>. HIDE DEF L, O
<1>11. Usage(ps, W).messages < O.messages
  BY <1>3, <1>5, <1>6, <1>7, <1>8, <1>9, <1>10
<1>12. Usage(ps, W).bytes + total <= O.bytes
  BY <1>3, <1>5, <1>6, <1>7, <1>8, <1>9, <1>10
<1>. QED  BY <1>2, <1>11, <1>12 DEF Admit, HasRoom

-----------------------------------------------------------------------------
(* Messages in time *)

(* An admitted fragment that fits is not refused. *)
LEMMA AcceptTakes ==
    ASSUME NEW s, NEW f, Accept(s, f), IsValid(f),
           NEW live, live = RemoveExpired(partials),
           Check(PartialFor(live, s, f), f),
           <<s, f.id>> \in DOMAIN live \/ (f.index = 0 /\ Admit(live, s, f.total))
    PROVE  Stored(s, f) \/ Completed(s, f)
BY DEF Accept, Stored, Completed, MessageKey

(* The next fragment of a message in time is such a fragment. *)
LEMMA InTime ==
    ASSUME PoolRoom, TypeOK, TasksInv, PartialsInv, TimelyInv, WithinLimits,
           NEW s \in Correct, NEW m \in sends[s], Intact(s, m),
           NEW f, f = FragmentOf(s, m, m.next),
           NEW live, live = RemoveExpired(partials),
           NEW p, p = PartialFor(live, s, f)
    PROVE  /\ Check(p, f)
           /\ <<s, f.id>> \in DOMAIN live \/ (f.index = 0 /\ Admit(live, s, f.total))
           /\ p.deadline = (IF m.next = 0 THEN now ELSE m.first) + ReassemblyTimeout
           /\ p.next = m.next
<1>. DEFINE P == Payload(s, m.no, m.len)
            key == <<s, f.id>>
<1>1. /\ m \in Task /\ Unfinished(m) /\ m.no \in DOMAIN sent[s] /\ s \in Sources
      /\ sent[s][m.no] = [topic |-> m.topic, payload |-> P]
  BY TaskUnfinished DEF Sources
<1>2. /\ f \in Fragment /\ IsValid(f) /\ f.id = m.no /\ f.index = m.next
      /\ f.total = m.len /\ f.topic = m.topic
      /\ FragmentEnd(m) \in Nat /\ m.next * FragmentLen \in Nat
      /\ m.next * FragmentLen < FragmentEnd(m) /\ FragmentEnd(m) <= m.len
      /\ Len(f.data) = FragmentEnd(m) - m.next * FragmentLen
  BY <1>1, FragmentProps
<1>3. m.next \in Nat /\ m.len \in Nat /\ m.first \in Nat /\ m.last \in Nat
  BY <1>1 DEF Task
<1>4. /\ PartialsType(partials) /\ PartialsType(live)
      /\ DOMAIN live = {k \in DOMAIN partials : partials[k].expires > now}
      /\ \A k \in DOMAIN live : live[k] = partials[k]
  BY LiveProps
<1>5. P \in Seq(Byte) /\ Len(P) = m.len
  BY <1>1, <1>3, PayloadSeq DEF Task
<1>. HIDE DEF P
<1>6. /\ key \in DOMAIN live => key \in DOMAIN partials /\ p = partials[key]
      /\ key \notin DOMAIN live =>
           /\ p.deadline = now + ReassemblyTimeout /\ p.next = 0
           /\ p.payload = <<>> /\ p.total = f.total /\ p.topic = f.topic
  BY <1>1, <1>2, PartialForProps
<1>7. key = <<s, m.no>>
  BY <1>2
<1>8. CASE m.next = 0
  <2>1. key \notin DOMAIN partials
    <3>. SUFFICES ASSUME key \in DOMAIN partials PROVE FALSE
      OBVIOUS
    <3>1. partials[key].next \in Nat \ {0}
      BY <1>4 DEF PartialsType, Partial
    <3>2. partials[<<s, m.no>>].next <= m.next
      BY <1>7 DEF PartialsInv
    <3>. QED  BY <1>7, <1>8, <3>1, <3>2
  <2>2. key \notin DOMAIN live
    BY <1>4, <2>1
  <2>3. HasRoom(Usage(live, {s}), SourceLimit, m.len)
    BY <1>8 DEF Intact
  <2>4. UsageFits(live)
    <3>1. UsageFits(partials)
      BY DEF WithinLimits, UsageFits
    <3>. QED  BY <1>4, <3>1, FitsShrinks
  <2>5. Admit(live, s, m.len)
    BY <1>3, <1>4, <2>3, <2>4, PoolHasRoom DEF UsageFits
  <2>6. Len(p.payload) = 0
    BY <1>6, <2>2
  <2>7. Check(p, f)
    BY <1>2, <1>3, <1>6, <1>8, <2>2, <2>6 DEF Check
  <2>. QED  BY <1>2, <1>6, <1>8, <2>2, <2>5, <2>7
<1>9. CASE m.next # 0
  <2>1. m.next > 0
    BY <1>3, <1>9
  <2>2. m.intact /\ now < m.first + ReassemblyTimeout /\ now < m.last + IdleTimeout
    BY <2>1 DEF Intact
  <2>3. now \in Nat /\ ReassemblyTimeout \in Nat /\ IdleTimeout \in Nat
    BY TimesAssumption DEF TypeOK
  <2>4. Buffered(s, m)
    <3>1. ~Late(m)
      BY <1>3, <2>2, <2>3 DEF Late
    <3>. QED  BY <2>1, <2>2, <3>1 DEF TimelyInv
  <2>5. /\ key \in DOMAIN partials /\ partials[key].next = m.next
        /\ partials[key].deadline = m.first + ReassemblyTimeout
        /\ partials[key].expires = Min({m.first + ReassemblyTimeout, m.last + IdleTimeout})
    BY <1>7, <2>4 DEF Buffered
  <2>6. partials[key].expires > now
    <3>1. m.first + ReassemblyTimeout \in Nat /\ m.last + IdleTimeout \in Nat
      BY <1>3, <2>3
    <3>. QED  BY <2>2, <2>5, <3>1, MinOfTwo
  <2>7. key \in DOMAIN live /\ p = partials[key]
    BY <1>4, <1>6, <2>5, <2>6
  <2>8. /\ p.topic = m.topic /\ p.total = Len(P)
        /\ p.payload = SubSeq(P, 1, p.next * FragmentLen)
    <3>1. /\ key[1] = s /\ key[2] = m.no
      BY <1>7
    <3>2. /\ sent[s][m.no].topic = m.topic /\ sent[s][m.no].payload = P
      BY <1>1
    <3>. HIDE DEF key
    <3>3. /\ partials[key].topic = sent[s][m.no].topic
          /\ partials[key].total = Len(sent[s][m.no].payload)
          /\ partials[key].payload = SubSeq(sent[s][m.no].payload, 1, partials[key].next * FragmentLen)
      BY <2>5, <3>1 DEF PartialsInv
    <3>. QED  BY <2>7, <3>2, <3>3
  <2>9. p.next = m.next
    BY <2>5, <2>7
  <2>10. Len(p.payload) = m.next * FragmentLen
    <3>. DEFINE e == m.next * FragmentLen
    <3>1. e \in Nat /\ e <= Len(P)
      BY <1>2, <1>3, <1>5
    <3>2. p.payload = SubSeq(P, 1, e)
      BY <2>8, <2>9
    <3>. HIDE DEF e
    <3>3. Len(SubSeq(P, 1, e)) = e
      BY <1>5, <3>1, SubSeqProperties
    <3>. QED  BY <3>2, <3>3 DEF e
  <2>11. Check(p, f)
    BY <1>2, <1>3, <1>5, <2>8, <2>9, <2>10 DEF Check
  <2>. QED  BY <2>5, <2>7, <2>9, <2>11, <1>9
<1>. QED  BY <1>8, <1>9
(* The other messages in time: accepting a fragment of another message leaves
   them buffered. *)
LEMMA BufferedStays ==
    ASSUME TypeOK, TimelyInv, NEW s \in Sources, NEW f \in Fragment, Accept(s, f), now' = now,
           NEW r \in Correct, NEW o \in sends[r], o.intact, o.next > 0,
           <<r, o.no>> # <<s, f.id>>
    PROVE  (Late(o) \/ Buffered(r, o))'
<1>. DEFINE k == <<r, o.no>>
            live == RemoveExpired(partials)
<1>1. o \in Task /\ o.first \in Nat /\ o.last \in Nat
  BY DEF TypeOK, Task
<1>2. now \in Nat /\ ReassemblyTimeout \in Nat /\ IdleTimeout \in Nat
  BY TimesAssumption DEF TypeOK
<1>3. CASE Late(o)
  BY <1>3 DEF Late
<1>4. CASE ~Late(o)
  <2>1. Buffered(r, o)
    BY <1>4 DEF TimelyInv
  <2>2. now < o.first + ReassemblyTimeout /\ now < o.last + IdleTimeout
    BY <1>1, <1>2, <1>4 DEF Late
  <2>3. /\ k \in DOMAIN partials
        /\ partials[k].expires = Min({o.first + ReassemblyTimeout, o.last + IdleTimeout})
    BY <2>1 DEF Buffered
  <2>4. partials[k].expires > now
    <3>1. o.first + ReassemblyTimeout \in Nat /\ o.last + IdleTimeout \in Nat
      BY <1>1, <1>2
    <3>. QED  BY <2>2, <2>3, <3>1, MinOfTwo
  <2>5. k \in DOMAIN live
    <3>1. DOMAIN live = {j \in DOMAIN partials : partials[j].expires > now}
      BY LiveProps
    <3>. QED  BY <2>3, <2>4, <3>1
  <2>6. k \in DOMAIN partials' /\ partials'[k] = partials[k]
    <3>1. CASE ~IsValid(f)
      <4>1. partials' = partials
        BY <3>1 DEF Accept
      <4>. QED  BY <2>3, <4>1
    <3>2. CASE IsValid(f)
      <4>. DEFINE key == <<s, f.id>>
      <4>0. live = RemoveExpired(partials) /\ key = <<s, f.id>>
        OBVIOUS
      <4>2. k # key
        OBVIOUS
      <4>. HIDE DEF k, live, key
      <4>1. /\ \A j \in DOMAIN partials' : j # key =>
                 j \in DOMAIN live /\ partials'[j] = partials[j]
            /\ \A j \in DOMAIN live : j # key => j \in DOMAIN partials'
        BY <3>2, <4>0, AcceptEffect
      <4>. QED  BY <2>5, <4>1, <4>2
    <3>. QED  BY <3>1, <3>2
  <2>7. Buffered(r, o)'
    BY <2>1, <2>6 DEF Buffered
  <2>. QED  BY <2>7
<1>. QED  BY <1>3, <1>4

(* The message itself: with its next fragment it is buffered, or delivered if
   that was the last one. *)
LEMMA BufferedNext ==
    ASSUME PoolRoom, TypeOK, TasksInv, PartialsInv, TimelyInv, WithinLimits,
           NEW s \in Correct, NEW m \in sends[s], SendFragment(s, m),
           NEW n, n = Advanced(s, m, TRUE), n.intact = TRUE
    PROVE  /\ n.next < FragmentCount(n.len) => Buffered(s, n)'
           /\ n.next = FragmentCount(n.len) =>
                delivered'[s] = Append(delivered[s], sent[s][m.no])
<1>. DEFINE f == FragmentOf(s, m, m.next)
            live == RemoveExpired(partials)
            p == PartialFor(live, s, f)
            q == AppendTo(p, f)
            P == Payload(s, m.no, m.len)
            key == <<s, f.id>>
<1>1. /\ m \in Task /\ Unfinished(m) /\ s \in Sources /\ m.no \in DOMAIN sent[s]
      /\ sent[s][m.no] = [topic |-> m.topic, payload |-> P]
  BY TaskUnfinished DEF Sources
<1>2. /\ f \in Fragment /\ IsValid(f) /\ f.id = m.no
      /\ m.next + 1 < FragmentCount(m.len) => FragmentEnd(m) < m.len
      /\ m.next + 1 = FragmentCount(m.len) => FragmentEnd(m) = m.len
      /\ FragmentEnd(m) \in Nat
  BY <1>1, FragmentProps
<1>3. /\ sent' = sent /\ now' = now /\ Accept(s, f) /\ AdvanceTo(s, m, n)
  BY DEF SendFragment
<1>4. /\ n.no = m.no /\ n.len = m.len /\ n.next = m.next + 1 /\ n.last = now
      /\ n.first = IF m.next = 0 THEN now ELSE m.first
      /\ Intact(s, m)
  BY <1>1, <1>3, AdvanceProps
<1>5. /\ Check(p, f)
      /\ key \in DOMAIN live \/ (f.index = 0 /\ Admit(live, s, f.total))
      /\ p.deadline = (IF m.next = 0 THEN now ELSE m.first) + ReassemblyTimeout
      /\ p.next = m.next
  BY <1>4, InTime
<1>6. Stored(s, f) \/ Completed(s, f)
  <2>. HIDE DEF f
  <2>. QED  BY <1>2, <1>3, <1>5, AcceptTakes
<1>7. /\ q.payload = SubSeq(P, 1, FragmentEnd(m)) /\ Len(q.payload) = FragmentEnd(m)
      /\ q.total = m.len /\ q.topic = m.topic /\ q \in Partial /\ q.next = m.next + 1
  <2>1. key \in DOMAIN live \/ f.index = 0
    BY <1>5
  <2>. QED  BY <1>5, <2>1, Joined
<1>8. q.deadline = p.deadline /\ q.expires = Min({p.deadline, now + IdleTimeout})
  <2>1. p \in Draft
    <3>. HIDE DEF f
    <3>. QED  BY <1>1, <1>2, PartialForProps
  <2>. HIDE DEF p, f
  <2>. QED  BY <1>2, <2>1, AppendToProps
<1>9. m.len \in Nat
  BY <1>1 DEF Task
<1>10. CASE n.next < FragmentCount(n.len)
  <2>1. Len(q.payload) < q.total
    BY <1>2, <1>4, <1>7, <1>10
  <2>2. ~Completed(s, f)
    <3>1. Completed(s, f) => Len(q.payload) = q.total
      BY DEF Completed
    <3>. HIDE DEF q
    <3>. QED  BY <1>2, <1>7, <1>9, <2>1, <3>1
  <2>3. partials' = Put(live, key, q)
    BY <1>6, <2>2 DEF Stored
  <2>. HIDE DEF q, p, live, f
  <2>4. key = <<s, n.no>>
    BY <1>2, <1>4
  <2>5. key \in DOMAIN partials' /\ partials'[key] = q
    BY <2>3 DEF Put
  <2>6. /\ q.next = n.next /\ q.deadline = n.first + ReassemblyTimeout
        /\ q.expires = Min({q.deadline, n.last + IdleTimeout})
    BY <1>4, <1>5, <1>7, <1>8
  <2>7. Buffered(s, n)'
    BY <2>4, <2>5, <2>6 DEF Buffered
  <2>8. FragmentCount(m.len) \in Nat /\ m.next \in Nat
    BY <1>1, FragmentBounds DEF Unfinished, Task
  <2>. DEFINE a == n.next
              c == FragmentCount(n.len)
  <2>a. a = m.next + 1 /\ c = FragmentCount(m.len) /\ a < c
    BY <1>4, <1>10
  <2>. HIDE DEF a, c
  <2>b. a # c
    BY <2>8, <2>a
  <2>9. n.next # FragmentCount(n.len)
    BY <2>b DEF a, c
  <2>. QED  BY <2>7, <2>9
<1>11. CASE n.next = FragmentCount(n.len)
  <2>1. Len(q.payload) = q.total
    BY <1>2, <1>4, <1>7, <1>11
  <2>2. ~Stored(s, f)
    <3>1. Stored(s, f) => Len(q.payload) < q.total
      BY DEF Stored
    <3>. HIDE DEF q
    <3>. QED  BY <1>7, <1>9, <2>1, <3>1
  <2>3. Deliver(s, [topic |-> q.topic, payload |-> q.payload])
    BY <1>6, <2>2 DEF Completed
  <2>4. P \in Seq(Byte) /\ Len(P) = m.len
    BY <1>1, PayloadSeq DEF Task
  <2>. HIDE DEF P, q
  <2>5. q.payload = P
    <3>1. SubSeq(P, 1, Len(P)) = P
      BY <2>4, SubSeqFull
    <3>. QED  BY <1>2, <1>4, <1>7, <1>11, <2>4, <3>1
  <2>6. [topic |-> q.topic, payload |-> q.payload] = sent[s][m.no]
    BY <1>1, <1>7, <2>5
  <2>7. sent[s][m.no] \in Message
    BY <1>1 DEF TypeOK
  <2>8. delivered'[s] = Append(delivered[s], sent[s][m.no])
    BY <1>1, <2>3, <2>6, <2>7, DeliverProps
  <2>9. FragmentCount(m.len) \in Nat
    BY <1>1, FragmentBounds DEF Unfinished, Task
  <2>. DEFINE a == n.next
              c == FragmentCount(n.len)
  <2>a. a = c /\ c = FragmentCount(m.len)
    BY <1>4, <1>11
  <2>. HIDE DEF a, c
  <2>b. ~(a < c)
    BY <2>9, <2>a
  <2>10. ~(n.next < FragmentCount(n.len))
    BY <2>b DEF a, c
  <2>. QED  BY <2>8, <2>10
<1>12. n.next < FragmentCount(n.len) \/ n.next = FragmentCount(n.len)
  BY <1>3 DEF AdvanceTo
<1>. QED  BY <1>10, <1>11, <1>12
LEMMA DeliveredGrows ==
    ASSUME TypeOK, TypeOK', TasksInv, [Next]_vars, NEW r \in Correct
    PROVE  \A i \in DOMAIN delivered[r] :
               i \in DOMAIN delivered'[r] /\ delivered'[r][i] = delivered[r][i]
<1>1. ASSUME NEW s \in Sources, NEW m, s \in Correct => m \in Message, Deliver(s, m)
      PROVE  delivered'[r] = delivered[r] \/ \E w \in Message : delivered'[r] = Append(delivered[r], w)
  <2>1. s \in Correct => delivered'[s] = Append(delivered[s], m)
    BY <1>1, DeliverProps
  <2>2. r # s => delivered'[r] = delivered[r]
    BY <1>1, DeliverProps
  <2>. QED  BY <1>1, <2>1, <2>2
<1>2. ASSUME NEW s \in Sources, NEW f \in Fragment, Accept(s, f)
      PROVE  delivered'[r] = delivered[r] \/ \E w \in Message : delivered'[r] = Append(delivered[r], w)
  <2>1. CASE ~IsValid(f)
    <3>1. delivered' = delivered
      BY <1>2, <2>1 DEF Accept
    <3>. QED  BY <3>1
  <2>2. CASE IsValid(f)
    <3>. DEFINE p == PartialFor(RemoveExpired(partials), s, f)
                q == AppendTo(p, f)
                m == [topic |-> q.topic, payload |-> q.payload]
    <3>1. UNCHANGED delivered \/ Deliver(s, m)
      BY <1>2, <2>2, AcceptEffect DEF Completed
    <3>2. p \in Draft
      BY <2>2, PartialForProps
    <3>3. q \in Partial
      <4>. HIDE DEF p
      <4>. QED  BY <3>2, AppendToProps
    <3>. HIDE DEF q
    <3>4. m \in Message
      BY <3>3 DEF Message, Partial
    <3>. HIDE DEF m
    <3>. QED  BY <1>1, <3>1, <3>4
  <2>. QED  BY <2>1, <2>2
<1>3. delivered'[r] = delivered[r] \/ \E w \in Message : delivered'[r] = Append(delivered[r], w)
  <2>1. ASSUME NEW s \in Correct, NEW len \in Lengths, NEW topic \in Topics,
               Send(s, len, topic)
        PROVE  delivered'[r] = delivered[r] \/ \E w \in Message : delivered'[r] = Append(delivered[r], w)
    <3>. DEFINE m == [topic |-> topic, payload |-> Payload(s, Len(sent[s]) + 1, len)]
    <3>1. m \in Message /\ (Deliver(s, m) \/ delivered' = delivered)
      BY <2>1, SendProps
    <3>2. s \in Sources
      BY DEF Sources
    <3>. HIDE DEF m
    <3>. QED  BY <1>1, <3>1, <3>2
  <2>2. ASSUME NEW s \in Correct, NEW m \in sends[s], SendFragment(s, m)
        PROVE  delivered'[r] = delivered[r] \/ \E w \in Message : delivered'[r] = Append(delivered[r], w)
    <3>1. m \in Task /\ Unfinished(m) /\ s \in Sources
      BY TaskUnfinished DEF Sources
    <3>2. FragmentOf(s, m, m.next) \in Fragment
      BY <3>1, FragmentProps
    <3>. QED  BY <1>2, <2>2, <3>1, <3>2 DEF SendFragment
  <2>3. ASSUME NEW s \in Faulty, NEW f \in FaultyFragments, FaultyFragment(s, f)
        PROVE  delivered'[r] = delivered[r] \/ \E w \in Message : delivered'[r] = Append(delivered[r], w)
    <3>1. f \in Fragment /\ s \in Sources
      BY SourcesAssumption DEF Sources
    <3>. QED  BY <1>2, <2>3, <3>1 DEF FaultyFragment
  <2>4. ASSUME NEW s \in Correct, NEW m \in sends[s], LoseFragment(s, m) \/ SendFails(s, m)
        PROVE  delivered' = delivered
    BY <2>4 DEF LoseFragment, SendFails
  <2>5. Tick \/ UNCHANGED vars => delivered' = delivered
    BY DEF Tick, vars
  <2>. QED  BY <2>1, <2>2, <2>3, <2>4, <2>5, NextCases
<1>4. CASE delivered'[r] = delivered[r]
  BY <1>4
<1>5. ASSUME NEW w \in Message, delivered'[r] = Append(delivered[r], w)
      PROVE  \A i \in DOMAIN delivered[r] :
               i \in DOMAIN delivered'[r] /\ delivered'[r][i] = delivered[r][i]
  <2>1. delivered[r] \in Seq(Message)
    BY DEF TypeOK
  <2>. QED  BY <1>5, <2>1, AppendProperties
<1>. QED  BY <1>3, <1>4, <1>5

LEMMA SentGrowsNext ==
    ASSUME TypeOK, TasksInv, [Next]_vars
    PROVE  SentGrows
<1>1. ASSUME NEW s \in Correct, NEW len \in Lengths, NEW topic \in Topics,
             Send(s, len, topic)
      PROVE  SentGrows
  BY <1>1, SendProps
<1>2. ASSUME NEW s \in Correct, NEW m \in sends[s],
             SendFragment(s, m) \/ LoseFragment(s, m) \/ SendFails(s, m)
      PROVE  sent' = sent
  BY <1>2 DEF SendFragment, LoseFragment, SendFails
<1>3. ASSUME NEW s \in Faulty, NEW f \in FaultyFragments, FaultyFragment(s, f)
      PROVE  sent' = sent
  BY <1>3 DEF FaultyFragment
<1>4. Tick \/ UNCHANGED vars => sent' = sent
  BY DEF Tick, vars
<1>5. sent' = sent => SentGrows
  BY DEF SentGrows
<1>. QED  BY <1>1, <1>2, <1>3, <1>4, <1>5, NextCases

(* Only SendFragment completes a message in time. *)
LEMMA TimelyChange ==
    ASSUME PoolRoom, TypeOK, TasksInv, PartialsInv, TimelyInv, WithinLimits, [Next]_vars
    PROVE  \A t \in timely' : t \in timely \/
               \E s \in Correct : \E n :
                  /\ t = <<s, n>> /\ n \in DOMAIN sent[s] /\ sent' = sent
                  /\ delivered'[s] = Append(delivered[s], sent[s][n])
<1>. SUFFICES ASSUME NEW t \in timely', t \notin timely
              PROVE  \E s \in Correct : \E n :
                        /\ t = <<s, n>> /\ n \in DOMAIN sent[s] /\ sent' = sent
                        /\ delivered'[s] = Append(delivered[s], sent[s][n])
  OBVIOUS
<1>1. ASSUME NEW s \in Correct, NEW m \in sends[s],
             SendFragment(s, m)
      PROVE  \E r \in Correct : \E n :
                        /\ t = <<r, n>> /\ n \in DOMAIN sent[r] /\ sent' = sent
                        /\ delivered'[r] = Append(delivered[r], sent[r][n])
  <2>. DEFINE o == Advanced(s, m, TRUE)
  <2>1. Unfinished(m) /\ m.no \in DOMAIN sent[s]
    BY TaskUnfinished
  <2>2. sent' = sent /\ AdvanceTo(s, m, o)
    BY <1>1 DEF SendFragment
  <2>3. /\ timely' = timely
        \/ /\ o.next = FragmentCount(o.len)
           /\ timely' = IF o.intact THEN timely \cup {<<s, m.no>>} ELSE timely
    <3>1. o = Advanced(s, m, TRUE)
      OBVIOUS
    <3>. HIDE DEF o
    <3>. QED  BY <2>1, <2>2, <3>1, AdvanceProps
  <2>. HIDE DEF o
  <2>4. o.intact /\ o.next = FragmentCount(o.len) /\ t = <<s, m.no>>
    BY <2>3
  <2>5. delivered'[s] = Append(delivered[s], sent[s][m.no])
    BY <1>1, <2>4, BufferedNext DEF o
  <2>. QED  BY <2>1, <2>2, <2>4, <2>5
<1>2. ASSUME NEW s \in Correct, NEW m \in sends[s], LoseFragment(s, m)
      PROVE  FALSE
  <2>. DEFINE o == Advanced(s, m, FALSE)
  <2>1. Unfinished(m) /\ AdvanceTo(s, m, o)
    BY <1>2, TaskUnfinished DEF LoseFragment
  <2>2. /\ ~o.intact
        /\ timely' = timely \/ timely' = IF o.intact THEN timely \cup {<<s, m.no>>} ELSE timely
    <3>1. o = Advanced(s, m, FALSE)
      OBVIOUS
    <3>. HIDE DEF o
    <3>. QED  BY <2>1, <3>1, AdvanceProps
  <2>. HIDE DEF o
  <2>. QED  BY <2>2
<1>3. ASSUME NEW s \in Correct, NEW len \in Lengths, NEW topic \in Topics,
             Send(s, len, topic)
      PROVE  FALSE
  BY <1>3 DEF Send
<1>4. ASSUME NEW s \in Correct, NEW m \in sends[s], SendFails(s, m)
      PROVE  FALSE
  BY <1>4 DEF SendFails
<1>5. ASSUME NEW s \in Faulty, NEW f \in FaultyFragments, FaultyFragment(s, f)
      PROVE  FALSE
  BY <1>5 DEF FaultyFragment
<1>6. ~Tick /\ ~UNCHANGED vars
  BY DEF Tick, vars
<1>. QED  BY <1>1, <1>2, <1>3, <1>4, <1>5, <1>6, NextCases

LEMMA TimelyIsDeliveredNext ==
    ASSUME PoolRoom, TypeOK, TypeOK', TasksInv, PartialsInv, TimelyInv, WithinLimits,
           TimelyIsDelivered, [Next]_vars
    PROVE  TimelyIsDelivered'
<1>. SUFFICES ASSUME NEW t \in timely'
              PROVE  \E i \in DOMAIN delivered'[t[1]] :
                        delivered'[t[1]][i] = sent'[t[1]][t[2]]
  BY DEF TimelyIsDelivered
<1>1. CASE t \in timely
  <2>1. t[1] \in Correct /\ t[2] \in DOMAIN sent[t[1]]
    BY <1>1 DEF TimelyInv, TypeOK
  <2>2. PICK i \in DOMAIN delivered[t[1]] : delivered[t[1]][i] = sent[t[1]][t[2]]
    BY <1>1 DEF TimelyIsDelivered
  <2>3. sent'[t[1]][t[2]] = sent[t[1]][t[2]]
    BY <2>1, SentGrowsNext DEF SentGrows
  <2>4. i \in DOMAIN delivered'[t[1]] /\ delivered'[t[1]][i] = delivered[t[1]][i]
    BY <2>1, DeliveredGrows
  <2>. QED  BY <2>2, <2>3, <2>4
<1>2. CASE t \notin timely
  <2>0. PICK s \in Correct :
           \E n : /\ t = <<s, n>> /\ n \in DOMAIN sent[s] /\ sent' = sent
                  /\ delivered'[s] = Append(delivered[s], sent[s][n])
    BY <1>2, TimelyChange
  <2>1. PICK n : /\ t = <<s, n>> /\ n \in DOMAIN sent[s] /\ sent' = sent
                 /\ delivered'[s] = Append(delivered[s], sent[s][n])
    BY <2>0
  <2>2. delivered[s] \in Seq(Message) /\ sent[s][n] \in Message
    BY <2>1 DEF TypeOK
  <2>3. /\ Len(delivered'[s]) = Len(delivered[s]) + 1 /\ delivered'[s] \in Seq(Message)
        /\ delivered'[s][Len(delivered[s]) + 1] = sent[s][n]
    BY <2>1, <2>2, AppendProperties
  <2>4. Len(delivered[s]) + 1 \in DOMAIN delivered'[s]
    BY <2>2, <2>3
  <2>. QED  BY <2>1, <2>3, <2>4
<1>. QED  BY <1>1, <1>2

LEMMA TimelyNext ==
    ASSUME PoolRoom, TypeOK, TypeOK', TasksInv, PartialsInv, TimelyInv, WithinLimits,
           [Next]_vars
    PROVE  TimelyInv'
<1>1. \A t \in timely' : t[2] \in DOMAIN sent'[t[1]]
  <2>. SUFFICES ASSUME NEW t \in timely' PROVE t[2] \in DOMAIN sent'[t[1]]
    OBVIOUS
  <2>1. CASE t \in timely
    <3>1. t[1] \in Correct /\ t[2] \in DOMAIN sent[t[1]]
      BY <2>1 DEF TimelyInv, TypeOK
    <3>. QED  BY <3>1, SentGrowsNext DEF SentGrows
  <2>2. CASE t \notin timely
    <3>0. PICK s \in Correct :
             \E n : t = <<s, n>> /\ n \in DOMAIN sent[s] /\ sent' = sent
      BY <2>2, TimelyChange
    <3>1. PICK n : t = <<s, n>> /\ n \in DOMAIN sent[s] /\ sent' = sent
      BY <3>0
    <3>. QED  BY <3>1
  <2>. QED  BY <2>1, <2>2
<1>. SUFFICES ASSUME NEW r \in Correct, NEW o \in sends'[r], o.intact, o.next > 0
              PROVE  (Late(o) \/ Buffered(r, o))'
  BY <1>1 DEF TimelyInv
<1>0. ASSUME o \in sends[r]
      PROVE  Late(o) \/ Buffered(r, o)
  BY <1>0 DEF TimelyInv
<1>a. ASSUME o \in sends[r], partials' = partials, now' = now
      PROVE  (Late(o) \/ Buffered(r, o))'
  BY <1>0, <1>a DEF Late, Buffered
<1>2. ASSUME NEW s \in Correct, NEW len \in Lengths, NEW topic \in Topics,
             Send(s, len, topic)
      PROVE  (Late(o) \/ Buffered(r, o))'
  <2>. DEFINE k == Len(sent[s]) + 1
              n == NewTask(k, len, topic)
              m == [topic |-> topic, payload |-> Payload(s, k, len)]
  <2>1. /\ \/ Deliver(s, m) /\ sends' = sends
           \/ /\ sends'[s] = sends[s] \cup {n}
              /\ \A u \in Correct : u # s => sends'[u] = sends[u]
        /\ partials' = partials /\ now' = now
    BY <1>2, SendProps
  <2>2. n.next = 0
    BY DEF NewTask
  <2>. HIDE DEF n
  <2>3. o \in sends[r]
    BY <2>1, <2>2
  <2>. QED  BY <1>a, <2>1, <2>3
<1>3. ASSUME NEW s \in Correct, NEW m \in sends[s], SendFragment(s, m)
      PROVE  (Late(o) \/ Buffered(r, o))'
  <2>. DEFINE n == Advanced(s, m, TRUE)
              f == FragmentOf(s, m, m.next)
  <2>1. m \in Task /\ Unfinished(m) /\ s \in Sources
    BY TaskUnfinished DEF Sources
  <2>2. sent' = sent /\ now' = now /\ Accept(s, f) /\ AdvanceTo(s, m, n)
    BY <1>3 DEF SendFragment
  <2>3. IF r = s /\ o.no = m.no THEN o = n ELSE o \in sends[r]
    <3>1. \A u \in Correct : \A w \in sends'[u] :
                IF u = s /\ w.no = m.no
                THEN w = Advanced(s, m, TRUE) /\ w.next = m.next + 1
                ELSE w \in sends[u]
      BY <2>2, AdvanceTasks
    <3>. QED  BY <3>1
  <2>4. CASE r = s /\ o.no = m.no
    <3>1. o = n /\ o \in sends'[s]
      BY <2>3, <2>4
    <3>2. o.next < FragmentCount(o.len)
      <4>1. TasksInv'
        BY TasksNext
      <4>. QED  BY <3>1, <4>1 DEF TasksInv
    <3>3. Buffered(s, o)'
      <4>. HIDE DEF f
      <4>. QED  BY <1>3, <3>1, <3>2, BufferedNext
    <3>. QED  BY <2>4, <3>3
  <2>5. CASE ~(r = s /\ o.no = m.no)
    <3>1. o \in sends[r]
      BY <2>3, <2>5
    <3>2. f \in Fragment /\ f.id = m.no
      BY <2>1, FragmentProps
    <3>. HIDE DEF f, n
    <3>3. <<r, o.no>> # <<s, f.id>>
      BY <2>5, <3>2
    <3>. QED  BY <2>1, <2>2, <3>1, <3>2, <3>3, BufferedStays
  <2>. QED  BY <2>4, <2>5
<1>4. ASSUME NEW s \in Correct, NEW m \in sends[s], LoseFragment(s, m)
      PROVE  (Late(o) \/ Buffered(r, o))'
  <2>. DEFINE n == Advanced(s, m, FALSE)
  <2>1. sent' = sent /\ now' = now /\ partials' = partials /\ AdvanceTo(s, m, n)
    BY <1>4 DEF LoseFragment
  <2>2. Unfinished(m)
    BY TaskUnfinished
  <2>3. ~n.intact
    <3>1. n = Advanced(s, m, FALSE)
      OBVIOUS
    <3>. HIDE DEF n
    <3>. QED  BY <2>1, <2>2, <3>1, AdvanceProps
  <2>4. IF r = s /\ o.no = m.no THEN o = n ELSE o \in sends[r]
    <3>1. \A u \in Correct : \A w \in sends'[u] :
                IF u = s /\ w.no = m.no
                THEN w = Advanced(s, m, FALSE) /\ w.next = m.next + 1
                ELSE w \in sends[u]
      BY <2>1, AdvanceTasks
    <3>. QED  BY <3>1
  <2>. HIDE DEF n
  <2>5. o \in sends[r]
    BY <2>3, <2>4
  <2>. QED  BY <1>a, <2>1, <2>5
<1>5. ASSUME NEW s \in Correct, NEW m \in sends[s], SendFails(s, m)
      PROVE  (Late(o) \/ Buffered(r, o))'
  <2>1. o \in sends[r]
    BY <1>5 DEF SendFails, TypeOK
  <2>2. partials' = partials /\ now' = now
    BY <1>5 DEF SendFails
  <2>. QED  BY <1>a, <2>1, <2>2
<1>6. ASSUME NEW s \in Faulty, NEW f \in FaultyFragments, FaultyFragment(s, f)
      PROVE  (Late(o) \/ Buffered(r, o))'
  <2>1. f \in Fragment /\ s \in Sources /\ s \notin Correct
    BY SourcesAssumption DEF Sources
  <2>2. now' = now /\ Accept(s, f) /\ o \in sends[r]
    BY <1>6 DEF FaultyFragment
  <2>3. <<r, o.no>> # <<s, f.id>>
    BY <2>1
  <2>. QED  BY <2>1, <2>2, <2>3, BufferedStays
<1>7. CASE Tick
  <2>1. o \in sends[r] /\ partials' = partials /\ now' = now + 1
    BY <1>7 DEF Tick
  <2>2. o.first + ReassemblyTimeout \in Nat /\ o.last + IdleTimeout \in Nat /\ now \in Nat
    <3>1. now \in Nat /\ ReassemblyTimeout \in Nat /\ IdleTimeout \in Nat
      BY TimesAssumption DEF TypeOK
    <3>2. o \in Task
      BY <2>1 DEF TypeOK
    <3>. QED  BY <3>1, <3>2 DEF Task
  <2>3. Late(o) => Late(o)'
    BY <2>1, <2>2 DEF Late
  <2>4. Buffered(r, o) => Buffered(r, o)'
    BY <2>1 DEF Buffered
  <2>. QED  BY <1>0, <2>1, <2>3, <2>4
<1>8. CASE UNCHANGED vars
  <2>1. o \in sends[r] /\ partials' = partials /\ now' = now
    BY <1>8 DEF vars
  <2>. QED  BY <1>a, <2>1
<1>. QED  BY <1>2, <1>3, <1>4, <1>5, <1>6, <1>7, <1>8, NextCases

-----------------------------------------------------------------------------
(* The theorems *)

LEMMA InvariantInit == Init => ReassemblyInv
<1>. SUFFICES ASSUME Init PROVE ReassemblyInv
  OBVIOUS
<1>1. TypeOK
  BY TypeInit
<1>2. /\ \A s \in Correct : sends[s] = {} /\ delivered[s] = <<>>
      /\ DOMAIN partials = {} /\ timely = {}
  BY DEF Init
<1>3. TasksInv /\ PartialsInv /\ LifetimeInv /\ TimelyInv
  BY <1>2 DEF TasksInv, PartialsInv, LifetimeInv, TimelyInv
<1>4. DeliveredInv
  <2>. SUFFICES ASSUME NEW s \in Correct
                PROVE  \E f \in [DOMAIN delivered[s] -> DOMAIN sent[s]] :
                          /\ Accounts(s, f)
                          /\ \A m \in sends[s] : \A i \in DOMAIN delivered[s] : f[i] # m.no
    BY DEF DeliveredInv
  <2>. DEFINE f == [i \in DOMAIN delivered[s] |-> i]
  <2>1. DOMAIN delivered[s] = {}
    BY <1>2
  <2>2. f \in [DOMAIN delivered[s] -> DOMAIN sent[s]]
    BY <2>1
  <2>. QED  BY <2>1, <2>2 DEF Accounts
<1>. QED  BY <1>1, <1>3, <1>4 DEF ReassemblyInv

LEMMA InvariantNext ==
    ASSUME ReassemblyInv, WithinLimits, [Next]_vars
    PROVE  ReassemblyInv' /\ WithinLimits'
<1>1. TypeOK /\ TasksInv /\ PartialsInv /\ DeliveredInv /\ LifetimeInv
  BY DEF ReassemblyInv
<1>2. TypeOK'
  BY <1>1, TypeNext
<1>3. TasksInv' /\ PartialsInv' /\ LifetimeInv' /\ WithinLimits'
  BY <1>1, TasksNext, PartialsNext, LifetimeNext, LimitsNext
<1>4. DeliveredInv'
  BY <1>1, <1>2, DeliveredNext
<1>5. ASSUME PoolRoom PROVE TimelyInv'
  <2>1. TimelyInv
    BY <1>5 DEF ReassemblyInv
  <2>. QED  BY <1>1, <1>2, <1>5, <2>1, TimelyNext
<1>6. PoolRoom' <=> PoolRoom
  BY DEF PoolRoom, Sources
<1>. QED  BY <1>2, <1>3, <1>4, <1>5, <1>6 DEF ReassemblyInv

LEMMA Invariance == Spec => [](ReassemblyInv /\ WithinLimits)
<1>1. Init => ReassemblyInv /\ WithinLimits
  BY InvariantInit, LimitsInit
<1>2. (ReassemblyInv /\ WithinLimits) /\ [Next]_vars => (ReassemblyInv /\ WithinLimits)'
  BY InvariantNext
<1>. QED  BY <1>1, <1>2, PTL DEF Spec

(* The limits are kept: after any sequence of fragments, from any sources, the
   incomplete messages of each source and of each pool stay within the limit in
   number and in the bytes they reserve, and none holds more than it reserved
   (the checks of Reassembler::accept before it inserts a message). *)
THEOREM LimitsKept == Spec => []WithinLimits
BY Invariance, PTL

(* The inductive invariant of reassembly: what the receiver keeps of a message
   agrees with what its sender, in Fragments::next, has sent of it. *)
THEOREM ReassemblyInvariance == Spec => []ReassemblyInv
BY Invariance, PTL

(* The variables keep their types. *)
THEOREM TypeCorrect == Spec => []TypeOK
<1>1. ReassemblyInv => TypeOK
  BY DEF ReassemblyInv
<1>. QED  BY <1>1, ReassemblyInvariance, PTL

(* Only whole messages are delivered, each at most once: Reassembler::accept
   joins the fragments of one send, in order and without a gap, whatever was
   lost, interleaved or timed out. *)
THEOREM MessagesWhole == Spec => []WholeMessages
<1>1. ReassemblyInv => WholeMessages
  BY DEF ReassemblyInv, DeliveredInv, WholeMessages
<1>. QED  BY <1>1, ReassemblyInvariance, PTL

(* No incomplete message survives its reassembly timeout: remove_expired, run
   for every valid fragment, drops it however often fragments of it arrive. *)
THEOREM LifetimeBounded == Spec => []BoundedLifetime
<1>1. ReassemblyInv => BoundedLifetime
  BY DEF ReassemblyInv, LifetimeInv, BoundedLifetime
<1>. QED  BY <1>1, ReassemblyInvariance, PTL

(* Where the pool of the other sources has room for each of them at its own
   limit, a message whose fragments all arrive in time, and whose first one
   found room within the limits of its own source, is delivered, whatever web
   pages and the other sources hand over before and meanwhile. *)
THEOREM TimelyDelivered ==
    ASSUME PoolRoom
    PROVE  Spec => []TimelyIsDelivered
<1>1. Init => TimelyIsDelivered
  BY DEF Init, TimelyIsDelivered
<1>2. ASSUME ReassemblyInv /\ WithinLimits, (ReassemblyInv /\ WithinLimits)', TimelyIsDelivered, [Next]_vars
      PROVE  TimelyIsDelivered'
  BY <1>2, TimelyIsDeliveredNext DEF ReassemblyInv
<1>. QED  BY <1>1, <1>2, Invariance, PTL DEF Spec
=============================================================================
