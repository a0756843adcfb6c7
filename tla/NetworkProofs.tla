----------------------------- MODULE NetworkProofs -----------------------------
(***************************************************************************)
(* Proofs about NetworkController.  The first part is about the comparison *)
(* of two networks: whatever it does to the order of their lists, it       *)
(* decides whether they are the same network, and leaves each of them the  *)
(* network that it was.                                                    *)
(***************************************************************************)
EXTENDS NetworkController, ControllerProofs, FiniteSetTheorems,
        WellFoundedInduction, NaturalsInduction

-----------------------------------------------------------------------------
(* Sorting.                                                                 *)

LEMMA LeastNat ==
    ASSUME NEW T \in SUBSET Nat, T # {}
    PROVE  \E x \in T : \A y \in T : x <= y
<1>1. PICK x \in T : \A y \in T : <<y, x>> \notin OpToRel(<, Nat)
  BY NatLessThanWellFounded, WFMin
<1>2. \A y \in T : ~ (y < x)
  BY <1>1 DEF OpToRel
<1>. QED  BY <1>2

\* Where x stands in s.
At(s, x) == {i \in DOMAIN s : s[i] = x}

LEMMA FinitePlaces ==
    ASSUME NEW s \in Seq(Nat), NEW x
    PROVE  IsFiniteSet(At(s, x)) /\ Cardinality(At(s, x)) \in Nat
<1>1. IsFiniteSet(DOMAIN s)
  BY FS_Interval
<1>2. At(s, x) \in SUBSET DOMAIN s
  BY DEF At
<1>. QED  BY <1>1, <1>2, FS_Subset, FS_CardinalityType

LEMMA BagOf ==
    ASSUME NEW s \in Seq(Nat), NEW t \in Seq(Nat)
    PROVE  ToBag(s) = ToBag(t) <=>
             /\ Range(s) = Range(t)
             /\ \A x \in Range(s) : Cardinality(At(s, x)) = Cardinality(At(t, x))
<1>1. /\ ToBag(s) = [x \in Range(s) |-> Cardinality(At(s, x))]
      /\ ToBag(t) = [x \in Range(t) |-> Cardinality(At(t, x))]
  BY DEF ToBag, At
<1>. QED  BY <1>1

\* Two sequences of which one is the other in another order have one bag.
LEMMA BagOfBijection ==
    ASSUME NEW s \in Seq(Nat), NEW t \in Seq(Nat),
           NEW f \in Bijection(DOMAIN t, DOMAIN s),
           \A i \in DOMAIN t : t[i] = s[f[i]]
    PROVE  ToBag(t) = ToBag(s)
<1>1. /\ f \in [DOMAIN t -> DOMAIN s]
      /\ \A i, j \in DOMAIN t : f[i] = f[j] => i = j
      /\ \A j \in DOMAIN s : \E i \in DOMAIN t : f[i] = j
  BY DEF Bijection, Injection, Surjection, IsInjective
<1>2. Range(t) = Range(s)
  BY <1>1 DEF Range
<1>3. ASSUME NEW x PROVE Cardinality(At(t, x)) = Cardinality(At(s, x))
  <2>. DEFINE g == [i \in At(t, x) |-> f[i]]
  <2>1. g \in [At(t, x) -> At(s, x)]
    BY <1>1 DEF At
  <2>2. \A i, j \in At(t, x) : g[i] = g[j] => i = j
    BY <1>1 DEF At
  <2>3. \A j \in At(s, x) : \E i \in At(t, x) : g[i] = j
    BY <1>1 DEF At
  <2>4. g \in Bijection(At(t, x), At(s, x))
    BY <2>1, <2>2, <2>3 DEF Bijection, Injection, Surjection, IsInjective
  <2>5. ExistsBijection(At(t, x), At(s, x))
    BY <2>4 DEF ExistsBijection
  <2>. QED  BY <2>5, FinitePlaces, FS_Bijection
<1>. QED  BY <1>2, <1>3, BagOf

\* Two sequences that have one bag have one length.
LEMMA BagLength ==
    ASSUME NEW s \in Seq(Nat), NEW t \in Seq(Nat), ToBag(s) = ToBag(t)
    PROVE  Len(s) = Len(t)
<1>. DEFINE h == [x \in Range(s) |-> CHOOSE f : f \in Bijection(At(s, x), At(t, x))]
            g == [i \in DOMAIN s |-> h[s[i]][i]]
<1>1. /\ Range(s) = Range(t)
      /\ \A x \in Range(s) : Cardinality(At(s, x)) = Cardinality(At(t, x))
  BY BagOf
<1>2. \A x \in Range(s) : h[x] \in Bijection(At(s, x), At(t, x))
  BY <1>1, FinitePlaces, FS_SameCardinalityBij DEF ExistsBijection
<1>3. \A x \in Range(s) : /\ h[x] \in [At(s, x) -> At(t, x)]
                          /\ \A i, j \in At(s, x) : h[x][i] = h[x][j] => i = j
                          /\ \A j \in At(t, x) : \E i \in At(s, x) : h[x][i] = j
  <2>. HIDE DEF h
  <2>. QED  BY <1>2 DEF Bijection, Injection, Surjection, IsInjective
<1>. HIDE DEF h
<1>4. \A i \in DOMAIN s : s[i] \in Range(s) /\ i \in At(s, s[i])
  BY DEF Range, At
<1>5. ASSUME NEW i \in DOMAIN s PROVE g[i] \in DOMAIN t /\ t[g[i]] = s[i]
  <2>1. g[i] \in At(t, s[i])
    BY <1>3, <1>4
  <2>. HIDE DEF g
  <2>. QED  BY <2>1 DEF At
<1>6. \A i, j \in DOMAIN s : g[i] = g[j] => i = j
  BY <1>3, <1>4, <1>5
<1>7. \A j \in DOMAIN t : \E i \in DOMAIN s : g[i] = j
  <2>1. SUFFICES ASSUME NEW j \in DOMAIN t PROVE \E i \in DOMAIN s : g[i] = j
    OBVIOUS
  <2>2. t[j] \in Range(s) /\ j \in At(t, t[j])
    BY <1>1, <2>1 DEF Range, At
  <2>3. PICK i \in At(s, t[j]) : h[t[j]][i] = j
    BY <1>3, <2>2
  <2>. QED  BY <2>3 DEF At
<1>8. g \in Bijection(DOMAIN s, DOMAIN t)
  BY <1>5, <1>6, <1>7 DEF Bijection, Injection, Surjection, IsInjective
<1>9. ExistsBijection(1..Len(s), 1..Len(t))
  BY <1>8 DEF ExistsBijection
<1>. HIDE DEF g
<1>10. Cardinality(1..Len(s)) = Cardinality(1..Len(t))
  BY <1>9, FS_Interval, FS_Bijection
<1>11. ASSUME NEW n \in Nat PROVE Cardinality(1..n) = n
  BY FS_Interval
<1>. QED  BY <1>10, <1>11

\* t is s in an order in which the first m places are right.
Placed(s, t, m) ==
    /\ t \in [DOMAIN s -> ToSet(s)]
    /\ ToBag(t) = ToBag(s)
    /\ \A i, j \in DOMAIN s : i <= m /\ i < j => t[i] <= t[j]

LEMMA ReorderedSeq ==
    ASSUME NEW s \in Seq(Nat), NEW t \in [DOMAIN s -> ToSet(s)]
    PROVE  /\ t \in Seq(Nat)
           /\ Len(t) = Len(s)
           /\ DOMAIN t = DOMAIN s
<1>1. ToSet(s) \subseteq Nat
  BY DEF ToSet
<1>. QED  BY <1>1

LEMMA PlaceOne ==
    ASSUME NEW s \in Seq(Nat), NEW m \in Nat, m < Len(s), NEW t, Placed(s, t, m)
    PROVE  \E u : Placed(s, u, m + 1)
<1>. DEFINE Rest == {t[j] : j \in (m + 1)..Len(s)}
<1>1. /\ t \in Seq(Nat) /\ Len(t) = Len(s) /\ DOMAIN t = DOMAIN s
      /\ DOMAIN s = 1..Len(s) /\ t \in [DOMAIN s -> ToSet(s)]
  BY ReorderedSeq DEF Placed
<1>2. Rest \in SUBSET Nat /\ Rest # {}
  <2>1. m + 1 \in (m + 1)..Len(s)
    OBVIOUS
  <2>. QED  BY <1>1, <2>1
<1>3. PICK p \in (m + 1)..Len(s) : \A j \in (m + 1)..Len(s) : t[p] <= t[j]
  <2>. HIDE DEF Rest
  <2>1. PICK x \in Rest : \A y \in Rest : x <= y
    BY <1>2, LeastNat
  <2>. QED  BY <2>1 DEF Rest
<1>. DEFINE f == [i \in DOMAIN s |-> IF i = m + 1 THEN p ELSE IF i = p THEN m + 1 ELSE i]
            u == [i \in DOMAIN s |-> t[f[i]]]
<1>4. m + 1 \in DOMAIN s /\ p \in DOMAIN s
  BY <1>1
<1>5. f \in Bijection(DOMAIN s, DOMAIN s)
  <2>1. f \in [DOMAIN s -> DOMAIN s] /\ \A i \in DOMAIN s : f[f[i]] = i
    BY <1>4
  <2>. HIDE DEF f
  <2>2. \A i, j \in DOMAIN s : f[i] = f[j] => i = j
    BY <2>1
  <2>3. \A j \in DOMAIN s : \E i \in DOMAIN s : f[i] = j
    BY <2>1
  <2>. QED  BY <2>1, <2>2, <2>3 DEF Bijection, Injection, Surjection, IsInjective
<1>6. \A i \in DOMAIN s : f[i] \in DOMAIN s
  BY <1>4
<1>7. u \in [DOMAIN s -> ToSet(s)] /\ \A i \in DOMAIN s : u[i] = t[f[i]]
  BY <1>1, <1>6
<1>8. u \in Seq(Nat) /\ DOMAIN u = DOMAIN s
  <2>. HIDE DEF u
  <2>. QED  BY <1>7, ReorderedSeq
<1>9. ToBag(u) = ToBag(s)
  <2>1. f \in Bijection(DOMAIN u, DOMAIN t)
    BY <1>1, <1>5, <1>8
  <2>2. \A i \in DOMAIN u : u[i] = t[f[i]]
    BY <1>7, <1>8
  <2>. HIDE DEF u, f
  <2>3. ToBag(u) = ToBag(t)
    BY <1>1, <1>8, <2>1, <2>2, BagOfBijection
  <2>. QED  BY <2>3 DEF Placed
<1>10. ASSUME NEW i \in DOMAIN s, NEW j \in DOMAIN s, i <= m + 1, i < j
       PROVE  u[i] <= u[j]
  <2>1. /\ f[i] \in DOMAIN s /\ f[j] \in DOMAIN s
        /\ f[i] = IF i = m + 1 THEN p ELSE IF i = p THEN m + 1 ELSE i
        /\ f[j] = IF j = m + 1 THEN p ELSE IF j = p THEN m + 1 ELSE j
        /\ i \in Nat /\ j \in Nat /\ j <= Len(s)
        /\ p \in Nat /\ m + 1 <= p /\ p <= Len(s)
    BY <1>1, <1>3, <1>6
  <2>. HIDE DEF f
  <2>2. CASE i <= m
    <3>1. f[i] = i /\ i < f[j]
      BY <1>10, <2>1, <2>2
    <3>. QED  BY <1>7, <1>10, <2>1, <2>2, <3>1 DEF Placed
  <2>3. CASE i = m + 1
    <3>1. f[i] = p
      BY <2>1, <2>3
    <3>2. m + 1 < j /\ j # m + 1
      BY <1>10, <2>1, <2>3
    <3>3. f[j] = m + 1 \/ f[j] = j
      BY <2>1, <3>2
    <3>4. f[j] \in (m + 1)..Len(s)
      <4>1. Len(s) \in Nat /\ m + 1 <= Len(s)
        OBVIOUS
      <4>2. m + 1 \in (m + 1)..Len(s) /\ j \in (m + 1)..Len(s)
        BY <2>1, <3>2, <4>1
      <4>. QED  BY <3>3, <4>2
    <3>. QED  BY <1>3, <1>7, <1>10, <3>1, <3>4
  <2>. QED  BY <1>1, <1>10, <2>2, <2>3
<1>. HIDE DEF u
<1>11. Placed(s, u, m + 1)
  BY <1>7, <1>9, <1>10 DEF Placed
<1>. QED  BY <1>11

\* Any number of places can be put right: there is no least one that cannot.
LEMMA CanBeSorted ==
    ASSUME NEW s \in Seq(Nat)
    PROVE  \E t : Placed(s, t, Len(s))
<1>. DEFINE Bad == {m \in 0..Len(s) : ~ \E t : Placed(s, t, m)}
<1>1. SUFFICES ASSUME Bad # {} PROVE FALSE
  <2>1. Len(s) \in 0..Len(s)
    OBVIOUS
  <2>. QED  BY <2>1
<1>2. Bad \in SUBSET Nat
  OBVIOUS
<1>3. PICK m \in Bad : \A k \in Bad : m <= k
  <2>. HIDE DEF Bad
  <2>. QED  BY <1>1, <1>2, LeastNat
<1>4. m # 0
  <2>1. s \in [DOMAIN s -> ToSet(s)]
    BY DEF ToSet
  <2>2. Placed(s, s, 0)
    BY <2>1 DEF Placed
  <2>. QED  BY <2>2
<1>5. m - 1 \in 0..Len(s) /\ m - 1 \notin Bad /\ m - 1 < Len(s) /\ m - 1 \in Nat
  BY <1>3, <1>4
<1>6. PICK t : Placed(s, t, m - 1)
  BY <1>5
<1>7. \E u : Placed(s, u, (m - 1) + 1)
  <2>. HIDE DEF Bad
  <2>. QED  BY <1>5, <1>6, PlaceOne
<1>. QED  BY <1>7

LEMMA AscendingSorts ==
    ASSUME NEW s \in Seq(Nat)
    PROVE  /\ Ascending(s) \in Seq(Nat)
           /\ Len(Ascending(s)) = Len(s)
           /\ ToBag(Ascending(s)) = ToBag(s)
           /\ \A i, j \in DOMAIN s : i < j => Ascending(s)[i] <= Ascending(s)[j]
<1>. DEFINE Sorted(t) == ToBag(t) = ToBag(s) /\ \A i, j \in DOMAIN t : i < j => t[i] <= t[j]
<1>1. PICK t : Placed(s, t, Len(s))
  BY CanBeSorted
<1>2. t \in [DOMAIN s -> ToSet(s)] /\ Sorted(t)
  BY <1>1 DEF Placed
<1>3. Ascending(s) \in [DOMAIN s -> ToSet(s)] /\ Sorted(Ascending(s))
  BY <1>2 DEF Ascending
<1>. QED  BY <1>3, ReorderedSeq

\* The lists of one bag are the same list once they are sorted, and no others.
LEMMA AgreeIsSameBag ==
    ASSUME NEW s \in Seq(Nat), NEW t \in Seq(Nat)
    PROVE  Agree(s, t) <=> ToBag(s) = ToBag(t)
<1>1. ASSUME Agree(s, t) PROVE ToBag(s) = ToBag(t)
  BY <1>1, AscendingSorts DEF Agree
<1>2. ASSUME ToBag(s) = ToBag(t) PROVE Agree(s, t)
  <2>1. Len(s) = Len(t) /\ DOMAIN s = DOMAIN t
    BY <1>2, BagLength
  <2>2. ToSet(s) = ToSet(t)
    BY <1>2, BagOf DEF ToSet, Range
  <2>3. Ascending(s) = Ascending(t)
    BY <1>2, <2>1, <2>2 DEF Ascending
  <2>. QED  BY <2>1, <2>3 DEF Agree
<1>. QED  BY <1>1, <1>2

-----------------------------------------------------------------------------
(* Comparing.                                                               *)

LEMMA SubnetFields ==
    ASSUME NEW s \in Subnet, NEW l \in [Lists -> Seq(Nat)]
    PROVE  LET t == [s EXCEPT !.lists = l] IN
           /\ t \in Subnet
           /\ t.range = s.range /\ t.cloud = s.cloud /\ t.lists = l
BY DEF Subnet

\* A list that has been sorted or not.
LEMMA SortedLists ==
    ASSUME NEW s \in Subnet, NEW l,
           l = [i \in Lists |-> l[i]],
           \A i \in Lists : l[i] = s.lists[i] \/ l[i] = Ascending(s.lists[i])
    PROVE  /\ [s EXCEPT !.lists = l] \in Subnet
           /\ SameSubnet(s, [s EXCEPT !.lists = l])
<1>1. \A i \in Lists : s.lists[i] \in Seq(Nat)
  BY DEF Subnet
<1>2. \A i \in Lists : l[i] \in Seq(Nat) /\ ToBag(s.lists[i]) = ToBag(l[i])
  BY <1>1, AscendingSorts
<1>3. l \in [Lists -> Seq(Nat)]
  BY <1>2
<1>. QED  BY <1>2, <1>3, SubnetFields DEF SameSubnet

LEMMA MatchSubnetDecides ==
    ASSUME NEW s1 \in Subnet, NEW s2 \in Subnet
    PROVE  LET m == MatchSubnet(s1, s2) IN
           /\ m.ok \in BOOLEAN /\ (m.ok <=> SameSubnet(s1, s2))
           /\ m.left \in Subnet /\ SameSubnet(s1, m.left)
           /\ m.right \in Subnet /\ SameSubnet(s2, m.right)
<1>. DEFINE differing == {i \in Lists : ~ Agree(s1.lists[i], s2.lists[i])}
            Sorts(i) == /\ s1.range = s2.range
                        /\ \A j \in differing : i <= j
                        /\ Len(s1.lists[i]) = Len(s2.lists[i])
            After(s) == [i \in Lists |-> IF Sorts(i) THEN Ascending(s.lists[i]) ELSE s.lists[i]]
<1>1. MatchSubnet(s1, s2) =
        [ok |-> s1.range = s2.range /\ differing = {} /\ s1.cloud = s2.cloud,
         left |-> [s1 EXCEPT !.lists = After(s1)],
         right |-> [s2 EXCEPT !.lists = After(s2)]]
  BY DEF MatchSubnet
<1>2. differing = {} <=> \A j \in Lists : ToBag(s1.lists[j]) = ToBag(s2.lists[j])
  <2>1. \A j \in Lists : s1.lists[j] \in Seq(Nat) /\ s2.lists[j] \in Seq(Nat)
    BY DEF Subnet
  <2>2. \A j \in Lists : Agree(s1.lists[j], s2.lists[j])
                            <=> ToBag(s1.lists[j]) = ToBag(s2.lists[j])
    BY <2>1, AgreeIsSameBag
  <2>. QED  BY <2>2
<1>3. ASSUME NEW s \in Subnet
      PROVE  /\ [s EXCEPT !.lists = After(s)] \in Subnet
             /\ SameSubnet(s, [s EXCEPT !.lists = After(s)])
  <2>1. /\ After(s) = [i \in Lists |-> After(s)[i]]
        /\ \A i \in Lists : \/ After(s)[i] = s.lists[i]
                              \/ After(s)[i] = Ascending(s.lists[i])
    OBVIOUS
  <2>. HIDE DEF After
  <2>. QED  BY <2>1, SortedLists
<1>. HIDE DEF differing, After
<1>4. LET m == MatchSubnet(s1, s2) IN
      /\ m.ok = (s1.range = s2.range /\ differing = {} /\ s1.cloud = s2.cloud)
      /\ m.left = [s1 EXCEPT !.lists = After(s1)]
      /\ m.right = [s2 EXCEPT !.lists = After(s2)]
  BY <1>1
<1>5. (s1.range = s2.range /\ differing = {} /\ s1.cloud = s2.cloud) <=> SameSubnet(s1, s2)
  BY <1>2 DEF SameSubnet
<1>. QED  BY <1>3, <1>4, <1>5

\* A network with subnets each of which has been replaced by the same subnet.
LEMMA SortedSubnets ==
    ASSUME NEW n \in Network, NEW q,
           q = [i \in DOMAIN n.subnets |-> q[i]],
           \A i \in DOMAIN n.subnets :
              q[i] \in Subnet /\ SameSubnet(n.subnets[i], q[i])
    PROVE  /\ [n EXCEPT !.subnets = q] \in Network
           /\ Same(n, [n EXCEPT !.subnets = q])
<1>1. n.subnets \in Seq(Subnet)
  BY DEF Network
<1>2. q \in Seq(Subnet) /\ Len(q) = Len(n.subnets)
  <2>1. Len(n.subnets) \in Nat /\ DOMAIN n.subnets = 1..Len(n.subnets)
    BY <1>1
  <2>2. q \in [1..Len(n.subnets) -> Subnet]
    BY <2>1
  <2>. QED  BY <2>1, <2>2
<1>3. LET t == [n EXCEPT !.subnets = q] IN
      t \in Network /\ t.type = n.type /\ t.subnets = q
  BY <1>2 DEF Network
<1>. QED  BY <1>2, <1>3 DEF Same

\* What Match answers, and what it leaves of the two specs.
LEMMA MatchDecides ==
    ASSUME NEW n1 \in Network, NEW n2 \in Network
    PROVE  LET m == Match(n1, n2) IN
           /\ m.ok \in BOOLEAN /\ (m.ok <=> Same(n1, n2))
           /\ m.left \in Network /\ Same(n1, m.left)
           /\ m.right \in Network /\ Same(n2, m.right)
<1>. DEFINE comparable == n1.type = n2.type /\ Len(n1.subnets) = Len(n2.subnets)
            Subnets(i) == MatchSubnet(n1.subnets[i], n2.subnets[i])
            differing == {i \in DOMAIN n1.subnets : comparable /\ ~ Subnets(i).ok}
            Reaches(i) == comparable /\ \A j \in differing : i <= j
            Left == [i \in DOMAIN n1.subnets |->
                        IF Reaches(i) THEN Subnets(i).left ELSE n1.subnets[i]]
            Right == [i \in DOMAIN n2.subnets |->
                        IF Reaches(i) THEN Subnets(i).right ELSE n2.subnets[i]]
<1>1. Match(n1, n2) = [ok |-> comparable /\ differing = {},
                       left |-> [n1 EXCEPT !.subnets = Left],
                       right |-> [n2 EXCEPT !.subnets = Right]]
  BY DEF Match
<1>2. n1.subnets \in Seq(Subnet) /\ n2.subnets \in Seq(Subnet)
  BY DEF Network
<1>3. /\ \A i \in DOMAIN n1.subnets : n1.subnets[i] \in Subnet
      /\ \A i \in DOMAIN n2.subnets : n2.subnets[i] \in Subnet
      /\ comparable => DOMAIN n1.subnets = DOMAIN n2.subnets
  BY <1>2
<1>4. ASSUME NEW i, i \in DOMAIN n1.subnets, i \in DOMAIN n2.subnets
      PROVE  /\ Subnets(i).ok <=> SameSubnet(n1.subnets[i], n2.subnets[i])
             /\ Subnets(i).left \in Subnet /\ SameSubnet(n1.subnets[i], Subnets(i).left)
             /\ Subnets(i).right \in Subnet /\ SameSubnet(n2.subnets[i], Subnets(i).right)
  BY <1>3, <1>4, MatchSubnetDecides
<1>5. ASSUME NEW s PROVE SameSubnet(s, s)
  BY DEF SameSubnet
<1>. HIDE DEF Subnets
<1>6. comparable /\ differing = {} <=> Same(n1, n2)
  BY <1>3, <1>4 DEF Same
<1>7. \A i \in DOMAIN n1.subnets : Left[i] \in Subnet /\ SameSubnet(n1.subnets[i], Left[i])
  BY <1>3, <1>4, <1>5
<1>8. \A i \in DOMAIN n2.subnets : Right[i] \in Subnet /\ SameSubnet(n2.subnets[i], Right[i])
  BY <1>3, <1>4, <1>5
<1>9. /\ Left = [i \in DOMAIN n1.subnets |-> Left[i]]
      /\ Right = [i \in DOMAIN n2.subnets |-> Right[i]]
  OBVIOUS
<1>. HIDE DEF comparable, differing, Left, Right
<1>10. LET m == Match(n1, n2) IN
       /\ m.ok = (comparable /\ differing = {})
       /\ m.left = [n1 EXCEPT !.subnets = Left]
       /\ m.right = [n2 EXCEPT !.subnets = Right]
  BY <1>1
<1>11. /\ [n1 EXCEPT !.subnets = Left] \in Network
       /\ Same(n1, [n1 EXCEPT !.subnets = Left])
  BY <1>7, <1>9, SortedSubnets
<1>12. /\ [n2 EXCEPT !.subnets = Right] \in Network
       /\ Same(n2, [n2 EXCEPT !.subnets = Right])
  BY <1>8, <1>9, SortedSubnets
<1>. QED  BY <1>6, <1>10, <1>11, <1>12

\* To be the same network is an equivalence.
LEMMA SameNetworks ==
    ASSUME NEW n1 \in Network, NEW n2 \in Network, NEW n3 \in Network
    PROVE  /\ Same(n1, n1)
           /\ Same(n1, n2) => Same(n2, n1)
           /\ Same(n1, n2) /\ Same(n2, n3) => Same(n1, n3)
<1>1. /\ n1.subnets \in Seq(Subnet) /\ n2.subnets \in Seq(Subnet)
      /\ n3.subnets \in Seq(Subnet)
  BY DEF Network
<1>2. /\ Len(n1.subnets) = Len(n2.subnets) => DOMAIN n1.subnets = DOMAIN n2.subnets
      /\ Len(n2.subnets) = Len(n3.subnets) => DOMAIN n2.subnets = DOMAIN n3.subnets
  BY <1>1
<1>. QED  BY <1>2 DEF Same, SameSubnet

-----------------------------------------------------------------------------
(* What holds in every reachable state.  A comparison that finds nothing to *)
(* report still leaves the copy of the running reconciliation reordered, so *)
(* that a copy tells what a resource is only up to the order of its lists.  *)

SameSpec(s, t) == s = t \/ (s \in Specs /\ t \in SameAs[s])

Near(o, p) ==
    /\ o.rv = p.rv /\ o.live = p.live /\ o.del = p.del /\ o.fin = p.fin
    /\ o.warn = p.warn /\ o.avail = p.avail
    /\ SameSpec(o.spec, p.spec) /\ SameSpec(o.orig, p.orig)

Good(o) == Sane(o) /\ Frozen(o) /\ (o.avail => o.fin)

\* c is a copy of o, which may have changed since; but as long as the copy
\* shows a finalizer and no deletion, o has kept its finalizer and original,
\* and a deletion that the copy shows is still waiting if o has a finalizer.
Seen(o, c) ==
    /\ c.rv <= o.rv
    /\ c.rv = o.rv => Near(o, c)
    /\ c.fin /\ ~ c.del => o.fin /\ SameSpec(o.orig, c.orig)
    /\ c.del /\ o.fin => o.del

\* What the reconciliation with the copy m knows at step p.
AtStep(p, m) ==
    /\ p # "idle" => m.live
    /\ p \in CreateSteps => ~ m.del
    /\ p \in DeleteSteps => m.del
    /\ p \in CreateSteps \ {"prepare"} => m.orig # None
    /\ p \in {"resolve", "create", "save"} => m.fin

\* An object o, its copies c in the cache and m in the worker, the step p of
\* its reconciliation, and its network n on the Director.
Local(o, c, m, p, n) ==
    /\ Good(o) /\ Good(c) /\ Good(m)
    /\ Seen(o, c) /\ Seen(o, m)
    /\ AtStep(p, m)
    /\ p # "idle" /\ ~ m.del /\ c.del => o.del
    /\ p \in DeleteSteps /\ c.fin => c.del
    /\ n # None => o.fin /\ SameSpec(o.orig, n)
    /\ p = "unfinalize" => n = None

NetworkInv ==
    /\ TypeOK
    /\ \A j, k \in Key : pc[j] # "idle" /\ pc[k] # "idle" => j = k
    /\ \A k \in Key : Local(api[k], cache[k], mem[k], pc[k], config[k])

\* No change is lost (see FollowedInv): the steps after the one that compares
\* the specs work with the warning that is right for them.
Warns(o) == o.warn = ~ SameSpec(o.orig, o.spec)

Reached(o) == o.live => ~ o.del /\ o.avail /\ Warns(o)

\* An object o, its copies, the step of its reconciliation, and whether it is
\* queued.
Followable(queued, o, c, m, p) ==
    \/ queued
    \/ p = "idle" /\ (c.rv < o.rv \/ Reached(c))
    \/ /\ p # "idle"
       /\ \/ c.rv < m.rv
          \/ Near(c, m) /\ (p \in CreateSteps \ {"prepare"} => Warns(m))

Tracked(k) == Followable(k \in queue, api[k], cache[k], mem[k], pc[k])

TrackedInv == \A k \in Key : Tracked(k)

-----------------------------------------------------------------------------
(* Specs and copies up to the order of lists.                               *)

LEMMA SameSpecs ==
    ASSUME NEW r \in SpecOrNone, NEW s \in SpecOrNone, NEW t \in SpecOrNone
    PROVE  /\ SameSpec(r, r)
           /\ SameSpec(r, s) => SameSpec(s, r)
           /\ SameSpec(r, s) /\ SameSpec(s, t) => SameSpec(r, t)
           /\ SameSpec(r, s) => (r = None <=> s = None)
           /\ r \in Specs => (SameSpec(r, s) <=> s \in SameAs[r])
<1>1. \A x \in Specs : x \in Network /\ SameAs[x] = {y \in Specs : Same(x, y)}
  BY NetworkAssumption DEF SameAs
<1>2. \A x \in Specs, y \in Specs : /\ Same(x, x) /\ (Same(x, y) => Same(y, x))
                                  /\ \A z \in Specs : Same(x, y) /\ Same(y, z) => Same(x, z)
  BY <1>1, SameNetworks
<1>. QED  BY <1>1, <1>2, ControllerAssumption DEF SameSpec, SpecOrNone

LEMMA MatchedSpecs ==
    ASSUME NEW n \in Specs, NEW m \in Specs
    PROVE  LET r == MatchOf[n][m] IN
           /\ r.ok = SameSpec(n, m)
           /\ r.left \in Specs /\ SameSpec(n, r.left)
           /\ r.right \in Specs /\ SameSpec(m, r.right)
<1>1. n \in Network /\ m \in Network
  BY NetworkAssumption
<1>2. MatchOf[n][m] = Match(n, m)
  BY DEF MatchOf
<1>3. Match(n, m).left \in Specs /\ Match(n, m).right \in Specs
  BY NetworkAssumption
<1>4. \A x \in Specs, y \in Specs : Same(x, y) => SameSpec(x, y)
  BY DEF SameSpec, SameAs
<1>5. SameSpec(n, m) => Same(n, m)
  BY <1>1, SameNetworks DEF SameSpec, SameAs
<1>6. LET r == Match(n, m) IN
      /\ r.ok \in BOOLEAN /\ (r.ok <=> Same(n, m))
      /\ Same(n, r.left) /\ Same(m, r.right)
  BY <1>1, MatchDecides
<1>7. Match(n, m).ok = SameSpec(n, m)
  <2>1. SameSpec(n, m) \in BOOLEAN
    BY DEF SameSpec
  <2>. QED  BY <1>4, <1>5, <1>6, <2>1
<1>. QED  BY <1>2, <1>3, <1>4, <1>6, <1>7

LEMMA SpecTypes ==
    ASSUME NEW o \in Object
    PROVE  o.spec \in SpecOrNone /\ o.orig \in SpecOrNone /\ o.rv \in Nat
BY DEF Object

LEMMA NearObjects ==
    ASSUME NEW o \in Object, NEW p \in Object, NEW q \in Object
    PROVE  /\ Near(o, o)
           /\ Near(o, p) => Near(p, o)
           /\ Near(o, p) /\ Near(p, q) => Near(o, q)
<1>1. /\ SameSpec(o.spec, o.spec) /\ SameSpec(o.orig, o.orig)
      /\ SameSpec(o.spec, p.spec) => SameSpec(p.spec, o.spec)
      /\ SameSpec(o.orig, p.orig) => SameSpec(p.orig, o.orig)
      /\ SameSpec(o.spec, p.spec) /\ SameSpec(p.spec, q.spec) => SameSpec(o.spec, q.spec)
      /\ SameSpec(o.orig, p.orig) /\ SameSpec(p.orig, q.orig) => SameSpec(o.orig, q.orig)
  BY SameSpecs, SpecTypes
<1>. QED  BY <1>1 DEF Near

LEMMA NearWarns ==
    ASSUME NEW o \in Object, NEW p \in Object, Near(o, p)
    PROVE  Warns(o) <=> Warns(p)
<1>1. SameSpec(o.orig, o.spec) <=> SameSpec(p.orig, p.spec)
  BY SameSpecs, SpecTypes DEF Near
<1>2. SameSpec(o.orig, o.spec) \in BOOLEAN /\ SameSpec(p.orig, p.spec) \in BOOLEAN
  BY DEF SameSpec
<1>. QED  BY <1>1, <1>2 DEF Near, Warns

\* PrepareToSave of a copy.
LEMMA PreparedNetwork ==
    ASSUME NEW o \in Object, Good(o), o.live
    PROVE  LET m == PrepareNetwork(o) IN
           /\ m \in Object /\ m.orig # None
           /\ m.rv = o.rv /\ m.live = o.live /\ m.del = o.del /\ m.fin = o.fin
           /\ m.avail = o.avail
           /\ SameSpec(o.spec, m.spec)
           /\ o.orig # None => SameSpec(o.orig, m.orig) /\ Warns(m)
<1>1. o.spec \in Specs /\ o.orig \in SpecOrNone
  BY DEF Good, Sane, Object, SpecOrNone
<1>2. CASE o.orig = None
  <2>1. PrepareNetwork(o) = [o EXCEPT !.orig = o.spec]
    BY <1>2 DEF PrepareNetwork
  <2>2. SameSpec(o.spec, o.spec)
    BY DEF SameSpec
  <2>3. LET m == [o EXCEPT !.orig = o.spec] IN
        /\ m \in Object /\ m.orig = o.spec /\ m.spec = o.spec
        /\ m.rv = o.rv /\ m.live = o.live /\ m.del = o.del /\ m.fin = o.fin
        /\ m.avail = o.avail
    BY DEF Object
  <2>. QED  BY <1>1, <1>2, <2>1, <2>2, <2>3, ControllerAssumption
<1>3. CASE o.orig # None
  <2>. DEFINE r == MatchOf[o.orig][o.spec]
  <2>1. o.orig \in Specs
    BY <1>1, <1>3 DEF SpecOrNone
  <2>2. /\ r.ok = SameSpec(o.orig, o.spec)
        /\ r.left \in Specs /\ SameSpec(o.orig, r.left)
        /\ r.right \in Specs /\ SameSpec(o.spec, r.right)
    BY <1>1, <2>1, MatchedSpecs
  <2>3. PrepareNetwork(o) = [o EXCEPT !.orig = r.left, !.spec = r.right, !.warn = ~ r.ok]
    BY <1>3 DEF PrepareNetwork
  <2>. HIDE DEF r
  <2>4. LET m == PrepareNetwork(o) IN
        /\ m \in Object /\ m.orig = r.left /\ m.spec = r.right /\ m.warn = ~ r.ok
        /\ m.rv = o.rv /\ m.live = o.live /\ m.del = o.del /\ m.fin = o.fin
        /\ m.avail = o.avail
    BY <2>2, <2>3 DEF Object, SpecOrNone
  <2>5. SameSpec(o.orig, o.spec) <=> SameSpec(r.left, r.right)
    BY <1>1, <2>1, <2>2, SameSpecs DEF SpecOrNone
  <2>6. (~ r.ok) = ~ SameSpec(r.left, r.right)
    <3>1. SameSpec(r.left, r.right) \in BOOLEAN /\ SameSpec(o.orig, o.spec) \in BOOLEAN
      BY DEF SameSpec
    <3>. QED  BY <2>2, <2>5, <3>1
  <2>. QED  BY <2>2, <2>4, <2>6, ControllerAssumption DEF Warns
<1>. QED  BY <1>2, <1>3

-----------------------------------------------------------------------------
(* How the local invariant survives a change of one of its parts.           *)

NetworkSteps == {"idle"} \union CreateSteps \union DeleteSteps

LEMMA GoodObjects ==
    ASSUME NEW o \in Object, Good(o)
    PROVE  /\ o.rv \in Nat
           /\ o.live => o.rv > 0 /\ o.spec # None
           /\ ~ o.live => o = Absent(o.rv) /\ ~ o.fin /\ ~ o.del /\ ~ o.avail /\ o.orig = None
           /\ o.fin => o.live /\ o.orig # None
           /\ o.del => o.fin /\ o.live
           /\ o.avail => o.fin
BY DEF Good, Sane, Frozen, Object, Absent

LEMMA NothingGood ==
    ASSUME NEW v \in Nat
    PROVE  Absent(v) \in Object /\ Good(Absent(v)) /\ Absent(v).rv = v
           /\ ~ Absent(v).live /\ ~ Absent(v).fin /\ ~ Absent(v).del
BY AbsentType DEF Good, Absent

LEMMA SeenItself == \A o \in Object : Good(o) => Seen(o, o)
<1>1. ASSUME NEW o \in Object PROVE o.rv \in Nat /\ Near(o, o) /\ SameSpec(o.orig, o.orig)
  BY NearObjects, SpecTypes, SameSpecs
<1>. QED  BY <1>1 DEF Seen

LEMMA SeenNothing ==
    ASSUME NEW o \in Object, Good(o)
    PROVE  Seen(o, Absent(0))
<1>1. ~ Absent(0).fin /\ ~ Absent(0).del /\ Absent(0).rv = 0
  BY NothingGood
<1>2. o.rv = 0 => o = Absent(0)
  BY GoodObjects
<1>. QED  BY <1>1, <1>2, NearObjects, GoodObjects DEF Seen

\* The reconciliation ends.
LEMMA LocalRest ==
    ASSUME NEW o \in Object, NEW c \in Object, NEW m \in Object, NEW p, NEW n,
           Local(o, c, m, p, n)
    PROVE  Local(o, c, Absent(0), "idle", n)
<1>1. Good(Absent(0)) /\ Seen(o, Absent(0))
  BY NothingGood, SeenNothing DEF Local
<1>. QED  BY <1>1 DEF Local, AtStep, CreateSteps, DeleteSteps

\* The cache is brought up to date.
LEMMA LocalWatch ==
    ASSUME NEW o \in Object, NEW c \in Object, NEW m \in Object, NEW p, NEW n,
           Local(o, c, m, p, n)
    PROVE  Local(o, o, m, p, n)
<1>1. Seen(o, o)
  BY SeenItself DEF Local
<1>2. p \in DeleteSteps /\ o.fin => o.del
  BY DEF Local, AtStep, Seen
<1>. QED  BY <1>1, <1>2 DEF Local

\* A reconciliation begins with the copy in the cache.
LEMMA LocalGet ==
    ASSUME NEW o \in Object, NEW c \in Object, NEW m \in Object, NEW n,
           Local(o, c, m, "idle", n), c.live, NEW q,
           (c.del /\ q = "delete") \/ (~ c.del /\ q = "prepare")
    PROVE  Local(o, c, c, q, n)
BY DEF Local, AtStep, CreateSteps, DeleteSteps

\* It moves on with the copy it has.
LEMMA LocalMove ==
    ASSUME NEW o \in Object, NEW c \in Object, NEW m \in Object,
           NEW p \in NetworkSteps, NEW n,
           Local(o, c, m, p, n), p # "idle", NEW q \in NetworkSteps,
           AtStep(q, m), q # "unfinalize"
    PROVE  Local(o, c, m, q, n)
<1>1. q \in DeleteSteps => p \in DeleteSteps
  BY DEF Local, AtStep, NetworkSteps
<1>. QED  BY <1>1 DEF Local

\* The object changes, into one with a new version that keeps the claims.
LEMMA LocalChanged ==
    ASSUME NEW o \in Object, NEW c \in Object, NEW m \in Object, NEW p, NEW n \in SpecOrNone,
           Local(o, c, m, p, n),
           NEW b \in Object, Good(b), b = o \/ b.rv > o.rv,
           o.fin => b.fin /\ SameSpec(o.orig, b.orig),
           o.del => b.del,
           b.fin => o.fin \/ (p # "idle" /\ ~ m.del)
    PROVE  Local(b, c, m, p, n)
<1>1. CASE b = o
  BY <1>1
<1>2. CASE b.rv > o.rv
  <2>1. \A x, y, z \in SpecOrNone : /\ SameSpec(x, y) => SameSpec(y, x)
                                    /\ SameSpec(x, y) /\ SameSpec(y, z) => SameSpec(x, z)
    BY SameSpecs
  <2>2. /\ o.orig \in SpecOrNone /\ b.orig \in SpecOrNone
        /\ c.orig \in SpecOrNone /\ m.orig \in SpecOrNone
        /\ o.rv \in Nat /\ b.rv \in Nat /\ c.rv \in Nat /\ m.rv \in Nat
    BY SpecTypes
  <2>3. o.del => o.fin
    BY GoodObjects DEF Local
  <2>4. Seen(b, c)
    <3>1. c.del /\ b.fin => b.del
      BY <2>3 DEF Local, Seen
    <3>2. c.rv <= b.rv /\ c.rv # b.rv
      BY <1>2, <2>2 DEF Local, Seen
    <3>3. c.fin /\ ~ c.del => b.fin /\ SameSpec(b.orig, c.orig)
      BY <2>1, <2>2 DEF Local, Seen
    <3>. QED  BY <3>1, <3>2, <3>3 DEF Seen
  <2>5. Seen(b, m)
    <3>1. m.del /\ b.fin => b.del
      BY DEF Local, Seen
    <3>2. m.rv <= b.rv /\ m.rv # b.rv
      BY <1>2, <2>2 DEF Local, Seen
    <3>3. m.fin /\ ~ m.del => b.fin /\ SameSpec(b.orig, m.orig)
      BY <2>1, <2>2 DEF Local, Seen
    <3>. QED  BY <3>1, <3>2, <3>3 DEF Seen
  <2>6. n # None => b.fin /\ SameSpec(b.orig, n)
    BY <2>1, <2>2 DEF Local
  <2>. QED  BY <2>4, <2>5, <2>6 DEF Local
<1>. QED  BY <1>1, <1>2

\* The worker takes over the object as it was stored.
LEMMA LocalTaken ==
    ASSUME NEW o \in Object, NEW c \in Object, NEW m \in Object, NEW p, NEW n,
           Local(o, c, m, p, n), p # "idle", ~ m.del,
           NEW q \in CreateSteps, AtStep(q, o)
    PROVE  Local(o, c, o, q, n)
<1>1. Seen(o, o)
  BY SeenItself DEF Local
<1>. QED  BY <1>1 DEF Local, CreateSteps, DeleteSteps

\* It reorders its copy.
LEMMA LocalReordered ==
    ASSUME NEW o \in Object, NEW c \in Object, NEW m \in Object, NEW p, NEW n,
           Local(o, c, m, p, n), p # "idle",
           NEW d \in Object, Near(m, d), NEW q \in CreateSteps, AtStep(q, d)
    PROVE  Local(o, c, d, q, n)
<1>1. Good(d)
  <2>1. /\ d.live = m.live /\ d.del = m.del /\ d.fin = m.fin /\ d.avail = m.avail
        /\ d.rv = m.rv
    BY DEF Near
  <2>2. (m.spec = None <=> d.spec = None) /\ (m.orig = None <=> d.orig = None)
    BY SpecTypes, SameSpecs DEF Near
  <2>3. d.live
    BY DEF AtStep, CreateSteps
  <2>. QED  BY <2>1, <2>2, <2>3 DEF Local, Good, Sane, Frozen
<1>2. Seen(o, d)
  <2>1. d.rv = m.rv /\ d.fin = m.fin /\ d.del = m.del /\ SameSpec(m.orig, d.orig)
    BY DEF Near
  <2>2. Near(o, m) => Near(o, d)
    BY NearObjects
  <2>3. SameSpec(o.orig, m.orig) => SameSpec(o.orig, d.orig)
    BY <2>1, SpecTypes, SameSpecs
  <2>. QED  BY <2>1, <2>2, <2>3 DEF Local, Seen
<1>3. d.del = m.del
  BY DEF Near
<1>. QED  BY <1>1, <1>2, <1>3 DEF Local, CreateSteps, DeleteSteps

-----------------------------------------------------------------------------
(* What the writes store.                                                   *)

LEMMA StoredIs ==
    ASSUME NEW o \in Object, NEW w \in Object
    PROVE  LET b == Stored(o, w) IN
           /\ b \in Object
           /\ (b = o /\ w = o) \/ (b.rv > o.rv /\ w # o)
           /\ b.live = w.live /\ b.del = w.del /\ b.fin = w.fin /\ b.spec = w.spec
           /\ b.orig = w.orig /\ b.warn = w.warn /\ b.avail = w.avail
<1>1. o.rv \in Nat /\ o.rv + 1 \in Nat /\ o.rv + 1 > o.rv
  BY SpecTypes
<1>2. LET b == [w EXCEPT !.rv = o.rv + 1] IN
      /\ b \in Object /\ b.rv = o.rv + 1
      /\ b.live = w.live /\ b.del = w.del /\ b.fin = w.fin /\ b.spec = w.spec
      /\ b.orig = w.orig /\ b.warn = w.warn /\ b.avail = w.avail
  BY <1>1 DEF Object
<1>3. Stored(o, w) = IF w = o THEN o ELSE [w EXCEPT !.rv = o.rv + 1]
  BY DEF Stored
<1>4. CASE w = o
  BY <1>3, <1>4
<1>5. CASE w # o
  <2>1. Stored(o, w) = [w EXCEPT !.rv = o.rv + 1]
    BY <1>3, <1>5
  <2>2. Stored(o, w).rv > o.rv
    BY <1>1, <1>2, <2>1
  <2>. QED  BY <1>2, <1>5, <2>1, <2>2
<1>. QED  BY <1>4, <1>5

StatusOf(o, w) == [o EXCEPT !.orig = w.orig, !.warn = w.warn, !.avail = w.avail]

\* A status update from the copy m of the running reconciliation.
LEMMA StatusStored ==
    ASSUME NEW o \in Object, NEW c \in Object, NEW m \in Object, NEW p \in CreateSteps,
           NEW n \in SpecOrNone,
           Local(o, c, m, p, n), m.rv = o.rv,
           NEW w \in Object, w.orig # None,
           m.orig # None => SameSpec(m.orig, w.orig),
           w.avail => m.fin
    PROVE  LET b == Stored(o, StatusOf(o, w)) IN
           /\ b \in Object /\ Local(b, c, m, p, n)
           /\ b.live = o.live /\ b.del = o.del /\ b.fin = o.fin
           /\ b.orig = w.orig /\ b.warn = w.warn /\ b.avail = w.avail
           /\ b = o \/ b.rv > o.rv
           /\ o.orig # None => SameSpec(o.orig, b.orig)
<1>1. Near(o, m) /\ Good(o) /\ m.live /\ ~ m.del
  BY DEF Local, Seen, AtStep, CreateSteps
<1>2. StatusOf(o, w) \in Object
  BY DEF Object, StatusOf
<1>3. LET v == StatusOf(o, w) IN
      /\ v.live = o.live /\ v.del = o.del /\ v.fin = o.fin /\ v.spec = o.spec
      /\ v.orig = w.orig /\ v.warn = w.warn /\ v.avail = w.avail
  BY DEF Object, StatusOf
<1>. DEFINE b == Stored(o, StatusOf(o, w))
<1>4. /\ b \in Object /\ (b = o \/ b.rv > o.rv)
      /\ b.live = o.live /\ b.del = o.del /\ b.fin = o.fin /\ b.spec = o.spec
      /\ b.orig = w.orig /\ b.warn = w.warn /\ b.avail = w.avail
  BY <1>2, <1>3, StoredIs
<1>. HIDE DEF b
<1>5. o.orig # None => SameSpec(o.orig, b.orig)
  <2>1. SameSpec(o.orig, m.orig) /\ (o.orig # None => m.orig # None)
    BY <1>1, SpecTypes, SameSpecs DEF Near
  <2>. QED  BY <1>4, <2>1, SpecTypes, SameSpecs
<1>6. Good(b)
  <2>1. b.live /\ b.rv \in Nat /\ (b.rv = o.rv \/ b.rv > o.rv) /\ o.rv > 0 /\ o.rv \in Nat
    BY <1>1, <1>4, GoodObjects, SpecTypes DEF Near
  <2>2. b.rv > 0
    BY <2>1
  <2>3. b.spec # None /\ b.orig # None /\ (b.del => b.fin) /\ (b.avail => b.fin)
    BY <1>1, <1>4, GoodObjects DEF Near
  <2>. QED  BY <2>1, <2>2, <2>3 DEF Good, Sane, Frozen
<1>7. o.fin => o.orig # None
  BY <1>1, GoodObjects
<1>8. Local(b, c, m, p, n)
  BY <1>4, <1>5, <1>6, <1>7, LocalChanged
<1>. QED  BY <1>4, <1>5, <1>8 DEF b

Finalized(o, m) == [o EXCEPT !.spec = m.spec, !.fin = TRUE]

\* The update that sets the finalizer.
LEMMA FinalizerStored ==
    ASSUME NEW o \in Object, NEW c \in Object, NEW m \in Object, NEW n \in SpecOrNone,
           Local(o, c, m, "finalize", n), m.rv = o.rv, ~ m.fin
    PROVE  LET b == Stored(o, Finalized(o, m)) IN
           /\ b \in Object /\ Local(b, c, m, "finalize", n) /\ Local(b, c, b, "resolve", n)
           /\ o.live /\ ~ o.del /\ ~ o.fin
           /\ b.live /\ ~ b.del /\ b.fin /\ b.orig = o.orig /\ b.warn = o.warn
           /\ b.rv > o.rv
<1>1. Near(o, m) /\ Good(o) /\ m.live /\ ~ m.del /\ m.orig # None
  BY DEF Local, Seen, AtStep, CreateSteps
<1>2. o.live /\ ~ o.del /\ ~ o.fin /\ o.orig # None /\ m.spec # None /\ o.rv > 0 /\ o.rv \in Nat
  <2>1. (o.orig = None <=> m.orig = None) /\ (o.spec = None <=> m.spec = None)
    BY <1>1, SpecTypes, SameSpecs DEF Near
  <2>. QED  BY <1>1, <2>1, GoodObjects DEF Near
<1>. DEFINE w == Finalized(o, m)
            b == Stored(o, w)
<1>3. /\ w \in Object
      /\ w.live = o.live /\ w.del = o.del /\ w.fin = TRUE /\ w.spec = m.spec
      /\ w.orig = o.orig /\ w.warn = o.warn /\ w.avail = o.avail
  BY DEF Object, Finalized
<1>. HIDE DEF w
<1>4. /\ b \in Object /\ b.rv > o.rv
      /\ b.live = o.live /\ b.del = o.del /\ b.fin /\ b.spec = m.spec
      /\ b.orig = o.orig /\ b.warn = o.warn /\ b.avail = o.avail
  <2>1. w # o
    BY <1>2, <1>3
  <2>2. /\ b \in Object
        /\ (b = o /\ w = o) \/ (b.rv > o.rv /\ w # o)
        /\ b.live = w.live /\ b.del = w.del /\ b.fin = w.fin /\ b.spec = w.spec
        /\ b.orig = w.orig /\ b.warn = w.warn /\ b.avail = w.avail
    BY <1>3, StoredIs
  <2>. HIDE DEF b
  <2>. QED  BY <1>3, <2>1, <2>2
<1>. HIDE DEF b
<1>5. Good(b)
  <2>1. b.rv > 0
    BY <1>2, <1>4, SpecTypes
  <2>. QED  BY <1>2, <1>4, <2>1 DEF Good, Sane, Frozen
<1>6. Local(b, c, m, "finalize", n)
  <2>1. SameSpec(o.orig, b.orig)
    BY <1>4 DEF SameSpec
  <2>. QED  BY <1>1, <1>2, <1>4, <1>5, <2>1, LocalChanged
<1>7. AtStep("resolve", b) /\ "resolve" \in CreateSteps
  BY <1>2, <1>4 DEF AtStep, CreateSteps, DeleteSteps
<1>8. Local(b, c, b, "resolve", n)
  BY <1>1, <1>4, <1>6, <1>7, LocalTaken
<1>. QED  BY <1>2, <1>4, <1>6, <1>8 DEF b, w

\* The update that takes the finalizer from an object that is being deleted.
LEMMA Released ==
    ASSUME NEW o \in Object, NEW c \in Object, NEW m \in Object, NEW n \in SpecOrNone,
           Local(o, c, m, "unfinalize", n), m.rv = o.rv
    PROVE  /\ o.live /\ o.del /\ n = None
           /\ Local(Absent(o.rv + 1), c, Absent(0), "idle", n)
<1>1. Near(o, m) /\ m.live /\ m.del /\ n = None /\ (c.fin => c.del) /\ Seen(o, c)
  BY DEF Local, Seen, AtStep, DeleteSteps
<1>2. o.rv + 1 \in Nat /\ c.rv \in Nat /\ o.rv \in Nat
  BY SpecTypes
<1>. DEFINE b == Absent(o.rv + 1)
<1>3. b \in Object /\ Good(b) /\ b.rv = o.rv + 1 /\ ~ b.fin
  BY <1>2, NothingGood
<1>4. Seen(b, Absent(0))
  BY <1>3, SeenNothing
<1>5. Seen(b, c)
  BY <1>1, <1>2, <1>3 DEF Seen
<1>6. Good(Absent(0)) /\ Good(c)
  BY NothingGood DEF Local
<1>. HIDE DEF b
<1>7. Local(b, c, Absent(0), "idle", n)
  BY <1>1, <1>3, <1>4, <1>5, <1>6 DEF Local, AtStep, CreateSteps, DeleteSteps
<1>. QED  BY <1>1, <1>7 DEF Near, b

-----------------------------------------------------------------------------
(* What every step does to the one key that it concerns.                    *)

OwnMoves == {<<"none", "declared">>, <<"declared", "none">>, <<"claimed", "terminating">>,
             <<"declared", "claimed">>}

\* An object o with the network n becomes b with d, as Lifecycle allows.
MayBecome(o, n, b, d) ==
    \/ Phase(b) = Phase(o) /\ (d = None <=> n = None)
    \/ Phase(b) = Phase(o) /\ d # None /\ Phase(o) \in {"claimed", "terminating"}
    \/ Phase(b) = Phase(o) /\ d = None /\ Phase(o) = "terminating"
    \/ <<Phase(o), Phase(b)>> \in OwnMoves /\ (d = None <=> n = None)
    \/ Phase(o) = "terminating" /\ Phase(b) = "none" /\ n = None /\ d = None

KeepsOrig(o, b) == o.live /\ o.orig # None /\ b.live => SameSpec(o.orig, b.orig)

KeyStep(k) ==
    /\ TypeOK'
    /\ \A j \in Key \ {k} : /\ api'[j] = api[j] /\ cache'[j] = cache[j] /\ mem'[j] = mem[j]
                           /\ pc'[j] = pc[j] /\ config'[j] = config[j]
    /\ queue \ {k} \subseteq queue'
    /\ pc'[k] = "idle" \/ pc[k] # "idle" \/ Idle
    /\ Local(api'[k], cache'[k], mem'[k], pc'[k], config'[k])
    /\ Tracked(k) => Tracked(k)'
    /\ KeepsOrig(api[k], api'[k])
    /\ MayBecome(api[k], config[k], api'[k], config'[k])

LEMMA NetworkTypes ==
    ASSUME NetworkInv, NEW k \in Key
    PROVE  /\ api \in [Key -> Object] /\ cache \in [Key -> Object] /\ mem \in [Key -> Object]
           /\ pc \in [Key -> NetworkSteps] /\ config \in [Key -> SpecOrNone]
           /\ api[k] \in Object /\ cache[k] \in Object /\ mem[k] \in Object
           /\ pc[k] \in NetworkSteps /\ config[k] \in SpecOrNone
           /\ queue \in SUBSET Key /\ faults \in 0..MaxFaults
           /\ Local(api[k], cache[k], mem[k], pc[k], config[k])
BY DEF NetworkInv, TypeOK, CtrlTypeOK, NetworkSteps

LEMMA KeyStepOf ==
    ASSUME NetworkInv, NEW k \in Key,
           NEW o \in Object, NEW c \in Object, NEW m \in Object,
           NEW p \in NetworkSteps, NEW n \in SpecOrNone,
           api' = [api EXCEPT ![k] = o], cache' = [cache EXCEPT ![k] = c],
           mem' = [mem EXCEPT ![k] = m], pc' = [pc EXCEPT ![k] = p],
           config' = [config EXCEPT ![k] = n],
           queue' \in SUBSET Key, queue \ {k} \subseteq queue',
           faults' \in 0..MaxFaults, UNCHANGED azs,
           p = "idle" \/ pc[k] # "idle" \/ Idle,
           Local(o, c, m, p, n),
           Tracked(k) => Followable(k \in queue', o, c, m, p),
           KeepsOrig(api[k], o),
           MayBecome(api[k], config[k], o, n)
    PROVE  KeyStep(k)
<1>1. /\ api \in [Key -> Object] /\ cache \in [Key -> Object] /\ mem \in [Key -> Object]
      /\ pc \in [Key -> NetworkSteps] /\ config \in [Key -> SpecOrNone]
  BY NetworkTypes
<1>2. /\ api' \in [Key -> Object] /\ cache' \in [Key -> Object] /\ mem' \in [Key -> Object]
      /\ pc' \in [Key -> NetworkSteps] /\ config' \in [Key -> SpecOrNone]
  BY <1>1
<1>3. /\ api'[k] = o /\ cache'[k] = c /\ mem'[k] = m /\ pc'[k] = p /\ config'[k] = n
      /\ \A j \in Key \ {k} : /\ api'[j] = api[j] /\ cache'[j] = cache[j] /\ mem'[j] = mem[j]
                             /\ pc'[j] = pc[j] /\ config'[j] = config[j]
  BY <1>1
<1>4. TypeOK'
  BY <1>2 DEF NetworkInv, TypeOK, CtrlTypeOK, NetworkSteps
<1>5. Tracked(k)' <=> Followable(k \in queue', o, c, m, p)
  BY <1>3 DEF Tracked
<1>. QED  BY <1>3, <1>4, <1>5 DEF KeyStep

\* The same object, with the same network or without.
LEMMA NoMove ==
    ASSUME NEW o \in Object, NEW n \in SpecOrNone
    PROVE  KeepsOrig(o, o) /\ MayBecome(o, n, o, n)
BY SameSpecs, SpecTypes DEF KeepsOrig, MayBecome

\* A step of the worker that writes nothing to the API server and goes on to
\* step q with the copy m, or ends.
LEMMA WorkerMoves ==
    ASSUME NetworkInv, NEW k \in Key, NEW q \in NetworkSteps \ {"idle"}, NEW m \in Object,
           NEW n \in SpecOrNone,
           Goto(k, q, m), UNCHANGED <<api, cache, queue, faults, azs>>,
           config' = [config EXCEPT ![k] = n],
           pc[k] # "idle",
           Local(api[k], cache[k], m, q, n),
           Tracked(k) => Followable(k \in queue, api[k], cache[k], m, q),
           MayBecome(api[k], config[k], api[k], n)
    PROVE  KeyStep(k)
<1>1. /\ api' = [api EXCEPT ![k] = api[k]] /\ cache' = [cache EXCEPT ![k] = cache[k]]
      /\ mem' = [mem EXCEPT ![k] = m] /\ pc' = [pc EXCEPT ![k] = q]
      /\ queue' \in SUBSET Key /\ queue \ {k} \subseteq queue' /\ faults' \in 0..MaxFaults
  BY NetworkTypes DEF Goto
<1>2. KeepsOrig(api[k], api[k])
  BY NetworkTypes, NoMove
<1>. QED  BY <1>1, <1>2, NetworkTypes, KeyStepOf

LEMMA WorkerRetries ==
    ASSUME NetworkInv, NEW k \in Key, Retry(k), UNCHANGED <<api, cache, external>>,
           faults' \in 0..MaxFaults
    PROVE  KeyStep(k)
<1>1. /\ api' = [api EXCEPT ![k] = api[k]] /\ cache' = [cache EXCEPT ![k] = cache[k]]
      /\ mem' = [mem EXCEPT ![k] = Absent(0)] /\ pc' = [pc EXCEPT ![k] = "idle"]
      /\ config' = [config EXCEPT ![k] = config[k]] /\ UNCHANGED azs
      /\ queue' \in SUBSET Key /\ queue \ {k} \subseteq queue' /\ k \in queue'
  BY NetworkTypes DEF Retry, Goto, external
<1>2. KeepsOrig(api[k], api[k]) /\ MayBecome(api[k], config[k], api[k], config[k])
  BY NetworkTypes, NoMove
<1>3. Local(api[k], cache[k], Absent(0), "idle", config[k])
  BY NetworkTypes, LocalRest
<1>4. Absent(0) \in Object /\ "idle" \in NetworkSteps
  BY NothingGood DEF NetworkSteps
<1>5. Followable(k \in queue', api[k], cache[k], Absent(0), "idle")
  BY <1>1 DEF Followable
<1>. QED  BY <1>1, <1>2, <1>3, <1>4, <1>5, NetworkTypes, KeyStepOf

\* A write that is refused is tried again, one that is not stores b.
LEMMA WorkerWrites ==
    ASSUME NetworkInv, NEW k \in Key, NEW w \in Object, NEW b \in Object, NEW q \in NetworkSteps,
           Write(k, w, b, q), UNCHANGED external, pc[k] # "idle",
           w.rv = api[k].rv =>
             /\ Local(b, cache[k], IF q = "idle" THEN Absent(0) ELSE b, q, config[k])
             /\ Tracked(k) => Followable(k \in queue, b, cache[k],
                                         IF q = "idle" THEN Absent(0) ELSE b, q)
             /\ KeepsOrig(api[k], b)
             /\ MayBecome(api[k], config[k], b, config[k])
    PROVE  KeyStep(k)
<1>1. CASE Retry(k) /\ UNCHANGED <<api, cache, faults>>
  <2>1. faults' \in 0..MaxFaults
    BY <1>1, NetworkTypes
  <2>. QED  BY <1>1, <2>1, WorkerRetries
<1>2. CASE /\ w.rv = api[k].rv /\ api' = [api EXCEPT ![k] = b]
           /\ Goto(k, q, b) /\ UNCHANGED <<queue, cache, faults>>
  <2>. DEFINE m == IF q = "idle" THEN Absent(0) ELSE b
  <2>1. m \in Object
    BY NothingGood
  <2>2. /\ cache' = [cache EXCEPT ![k] = cache[k]]
        /\ mem' = [mem EXCEPT ![k] = m] /\ pc' = [pc EXCEPT ![k] = q]
        /\ config' = [config EXCEPT ![k] = config[k]] /\ UNCHANGED azs
        /\ queue' \in SUBSET Key /\ queue \ {k} \subseteq queue' /\ faults' \in 0..MaxFaults
        /\ k \in queue' <=> k \in queue
    BY <1>2, NetworkTypes DEF Goto, external
  <2>. HIDE DEF m
  <2>3. /\ Local(b, cache[k], m, q, config[k])
        /\ Tracked(k) => Followable(k \in queue', b, cache[k], m, q)
        /\ KeepsOrig(api[k], b)
        /\ MayBecome(api[k], config[k], b, config[k])
    BY <1>2, <2>2 DEF m, Followable
  <2>. QED  BY <1>2, <2>1, <2>2, <2>3, NetworkTypes, KeyStepOf
<1>. QED  BY <1>1, <1>2 DEF Write

LEMMA SamePhase ==
    ASSUME NEW o, NEW b, b.live = o.live, b.del = o.del, b.fin = o.fin
    PROVE  Phase(b) = Phase(o) /\ \A n : MayBecome(o, n, b, n)
<1>1. Phase(b) = Phase(o)
  BY DEF Phase
<1>. QED  BY <1>1 DEF MayBecome

-----------------------------------------------------------------------------
(* The steps of the reconciliation.                                         *)

LEMMA SavePreparedStep ==
    ASSUME NetworkInv, NEW k \in Key, SavePrepared(k)
    PROVE  KeyStep(k)
<1>. DEFINE o == api[k]
            c == cache[k]
            s == mem[k]
            n == config[k]
            m == PrepareNetwork(s)
            b == Stored(o, StatusOf(o, m))
<1>1. /\ o \in Object /\ c \in Object /\ s \in Object /\ n \in SpecOrNone
      /\ Local(o, c, s, "prepare", n) /\ pc[k] = "prepare" /\ pc[k] # "idle"
  BY NetworkTypes DEF SavePrepared
<1>2. /\ Good(o) /\ Good(s) /\ s.live /\ ~ s.del /\ Seen(o, s) /\ Seen(o, c)
      /\ "prepare" \in CreateSteps /\ "finalize" \in CreateSteps
      /\ "finalize" \in NetworkSteps \ {"idle"}
  BY <1>1 DEF Local, AtStep, CreateSteps, NetworkSteps
<1>3. /\ m \in Object /\ m.orig # None
      /\ m.rv = s.rv /\ m.live = s.live /\ m.del = s.del /\ m.fin = s.fin
      /\ m.avail = s.avail
      /\ SameSpec(s.spec, m.spec)
      /\ s.orig # None => SameSpec(s.orig, m.orig) /\ Warns(m)
  BY <1>1, <1>2, PreparedNetwork
<1>4. /\ UNCHANGED external
      /\ \/ (s.orig = None \/ m.warn # s.warn) /\ StatusUpdate(k, m, "finalize")
         \/ /\ s.orig # None /\ m.warn = s.warn
            /\ Goto(k, "finalize", m) /\ UNCHANGED <<api, cache, queue, faults>>
  BY DEF SavePrepared
<1>. HIDE DEF m
<1>5. ASSUME s.orig = None \/ m.warn # s.warn, StatusUpdate(k, m, "finalize")
      PROVE  KeyStep(k)
  <2>1. Write(k, m, b, "finalize")
    BY <1>5 DEF StatusUpdate, StatusOf
  <2>2. b \in Object
    <3>1. StatusOf(o, m) \in Object
      BY <1>1, <1>3 DEF Object, StatusOf
    <3>. QED  BY <1>1, <3>1, StoredIs
  <2>3. ASSUME m.rv = o.rv
        PROVE  /\ Local(b, c, b, "finalize", n)
               /\ Followable(k \in queue, b, c, b, "finalize")
               /\ KeepsOrig(o, b)
               /\ MayBecome(o, n, b, n)
    <3>1. Near(o, s)
      BY <1>2, <1>3, <2>3 DEF Seen
    <3>2. s.avail => s.fin
      BY <1>1, <1>2, GoodObjects
    <3>3. /\ Local(b, c, s, "prepare", n)
          /\ b.live = o.live /\ b.del = o.del /\ b.fin = o.fin
          /\ b.orig = m.orig /\ b.warn = m.warn
          /\ b = o \/ b.rv > o.rv
          /\ o.orig # None => SameSpec(o.orig, b.orig)
      <4>1. /\ s.rv = o.rv /\ (m.avail => s.fin)
            /\ s.orig # None => SameSpec(s.orig, m.orig)
        BY <1>3, <2>3, <3>2
      <4>. HIDE DEF o, c, s, n
      <4>. QED  BY <1>1, <1>2, <1>3, <4>1, StatusStored
    <3>. HIDE DEF b
    <3>4. o.live /\ ~ o.del /\ o.warn = s.warn /\ (s.orig = None => o.orig = None)
      BY <1>1, <1>2, <3>1, SpecTypes, SameSpecs DEF Near
    <3>5. AtStep("finalize", b)
      BY <1>3, <3>3, <3>4 DEF AtStep, CreateSteps, DeleteSteps
    <3>6. Local(b, c, b, "finalize", n)
      BY <1>1, <1>2, <2>2, <3>3, <3>5, LocalTaken
    <3>7. b # o
      BY <1>3, <1>5, <3>3, <3>4
    <3>8. c.rv < b.rv
      BY <1>1, <1>2, <2>2, <3>3, <3>7, SpecTypes DEF Seen
    <3>9. MayBecome(o, n, b, n)
      BY <3>3, SamePhase
    <3>. QED  BY <3>3, <3>6, <3>8, <3>9 DEF Followable, KeepsOrig
  <2>. HIDE DEF b
  <2>. QED  BY <1>1, <1>2, <1>3, <1>4, <2>1, <2>2, <2>3, WorkerWrites
<1>6. ASSUME s.orig # None, m.warn = s.warn,
             Goto(k, "finalize", m), UNCHANGED <<api, cache, queue, faults>>
      PROVE  KeyStep(k)
  <2>1. Near(s, m) /\ Warns(m)
    BY <1>3, <1>6 DEF Near
  <2>2. AtStep("finalize", m)
    BY <1>2, <1>3 DEF AtStep, CreateSteps, DeleteSteps
  <2>3. Local(o, c, m, "finalize", n)
    BY <1>1, <1>2, <1>3, <2>1, <2>2, LocalReordered
  <2>4. Tracked(k) => Followable(k \in queue, o, c, m, "finalize")
    <3>1. Near(c, s) => Near(c, m)
      BY <1>1, <1>3, <2>1, NearObjects
    <3>. QED  BY <1>1, <1>3, <2>1, <3>1 DEF Tracked, Followable
  <2>5. MayBecome(o, n, o, n)
    BY <1>1, NoMove
  <2>6. config' = [config EXCEPT ![k] = n] /\ UNCHANGED azs
    BY <1>4, NetworkTypes DEF external
  <2>. QED  BY <1>1, <1>2, <1>3, <1>6, <2>3, <2>4, <2>5, <2>6, WorkerMoves
<1>. QED  BY <1>4, <1>5, <1>6

LEMMA EnsureFinalizerStep ==
    ASSUME NetworkInv, NEW k \in Key, EnsureFinalizer(k)
    PROVE  KeyStep(k)
<1>. DEFINE o == api[k]
            c == cache[k]
            s == mem[k]
            n == config[k]
            m == [s EXCEPT !.fin = TRUE]
            b == Stored(o, Finalized(o, s))
<1>1. /\ o \in Object /\ c \in Object /\ s \in Object /\ n \in SpecOrNone
      /\ Local(o, c, s, "finalize", n) /\ pc[k] = "finalize" /\ pc[k] # "idle"
  BY NetworkTypes DEF EnsureFinalizer
<1>2. /\ s.live /\ ~ s.del /\ s.orig # None /\ Seen(o, c)
      /\ "finalize" \in CreateSteps /\ "resolve" \in NetworkSteps \ {"idle"}
      /\ pc[k] \in NetworkSteps
  BY <1>1 DEF Local, AtStep, CreateSteps, NetworkSteps
<1>3. /\ m \in Object /\ m.rv = s.rv /\ m.fin = TRUE /\ m.spec = s.spec
  BY <1>1 DEF Object
<1>4. /\ UNCHANGED external
      /\ \/ s.fin # TRUE /\ Update(k, m, "resolve")
         \/ s.fin = TRUE /\ Goto(k, "resolve", s) /\ UNCHANGED <<api, cache, queue, faults>>
  BY DEF EnsureFinalizer, UpdateIfFinalizer
<1>5. ASSUME s.fin # TRUE, Update(k, m, "resolve")
      PROVE  KeyStep(k)
  <2>1. Write(k, m, b, "resolve")
    <3>. HIDE DEF m
    <3>. QED  BY <1>3, <1>5 DEF Update, Finalized
  <2>2. b \in Object
    <3>1. Finalized(o, s) \in Object
      BY <1>1 DEF Object, Finalized
    <3>. QED  BY <1>1, <3>1, StoredIs
  <2>3. ASSUME m.rv = o.rv
        PROVE  /\ Local(b, c, b, "resolve", n)
               /\ Followable(k \in queue, b, c, b, "resolve")
               /\ KeepsOrig(o, b)
               /\ MayBecome(o, n, b, n)
    <3>1. /\ Local(b, c, b, "resolve", n)
          /\ o.live /\ ~ o.del /\ ~ o.fin
          /\ b.live /\ ~ b.del /\ b.fin /\ b.orig = o.orig
          /\ b.rv > o.rv
      <4>1. s.rv = o.rv /\ ~ s.fin
        BY <1>1, <1>3, <1>5, <2>3 DEF Object
      <4>. HIDE DEF o, c, s, n
      <4>. QED  BY <1>1, <4>1, FinalizerStored
    <3>. HIDE DEF b
    <3>2. c.rv < b.rv
      BY <1>1, <1>2, <2>2, <3>1, SpecTypes DEF Seen
    <3>3. Phase(o) = "declared" /\ Phase(b) = "claimed"
      BY <3>1 DEF Phase
    <3>. QED  BY <3>1, <3>2, <3>3 DEF Followable, KeepsOrig, MayBecome, OwnMoves, SameSpec
  <2>. HIDE DEF b, m
  <2>. QED  BY <1>1, <1>2, <1>3, <1>4, <2>1, <2>2, <2>3, WorkerWrites
<1>6. ASSUME s.fin = TRUE, Goto(k, "resolve", s), UNCHANGED <<api, cache, queue, faults>>
      PROVE  KeyStep(k)
  <2>1. AtStep("resolve", s)
    BY <1>2, <1>6 DEF AtStep, CreateSteps, DeleteSteps
  <2>2. Local(o, c, s, "resolve", n)
    BY <1>1, <1>2, <2>1, LocalMove
  <2>3. Tracked(k) => Followable(k \in queue, o, c, s, "resolve")
    BY <1>1 DEF Tracked, Followable, CreateSteps
  <2>4. MayBecome(o, n, o, n)
    BY <1>1, NoMove
  <2>5. config' = [config EXCEPT ![k] = n] /\ UNCHANGED azs
    BY <1>4, NetworkTypes DEF external
  <2>. QED  BY <1>1, <1>2, <1>6, <2>2, <2>3, <2>4, <2>5, WorkerMoves
<1>. QED  BY <1>4, <1>5, <1>6

LEMMA ResolveReferencesStep ==
    ASSUME NetworkInv, NEW k \in Key, ResolveReferences(k)
    PROVE  KeyStep(k)
<1>1. /\ Local(api[k], cache[k], mem[k], "resolve", config[k])
      /\ pc[k] = "resolve" /\ pc[k] # "idle" /\ pc[k] \in NetworkSteps
  BY NetworkTypes DEF ResolveReferences
<1>2. /\ UNCHANGED <<api, cache, faults, external>>
      /\ (Goto(k, "create", mem[k]) /\ UNCHANGED queue) \/ Retry(k)
  BY DEF ResolveReferences
<1>3. ASSUME Goto(k, "create", mem[k]), UNCHANGED queue
      PROVE  KeyStep(k)
  <2>1. AtStep("create", mem[k]) /\ "create" \in NetworkSteps \ {"idle"}
    BY <1>1 DEF Local, AtStep, CreateSteps, DeleteSteps, NetworkSteps
  <2>2. Local(api[k], cache[k], mem[k], "create", config[k])
    BY <1>1, <2>1, NetworkTypes, LocalMove
  <2>3. Tracked(k) => Followable(k \in queue, api[k], cache[k], mem[k], "create")
    BY <1>1 DEF Tracked, Followable, CreateSteps
  <2>4. MayBecome(api[k], config[k], api[k], config[k])
    BY NetworkTypes, NoMove
  <2>5. config' = [config EXCEPT ![k] = config[k]] /\ UNCHANGED azs
    BY <1>2, NetworkTypes DEF external
  <2>. QED  BY <1>1, <1>2, <1>3, <2>1, <2>2, <2>3, <2>4, <2>5, NetworkTypes, WorkerMoves
<1>4. ASSUME Retry(k) PROVE KeyStep(k)
  <2>1. faults' \in 0..MaxFaults
    BY <1>2, NetworkTypes
  <2>. QED  BY <1>2, <1>4, <2>1, WorkerRetries
<1>. QED  BY <1>2, <1>3, <1>4

\* The network that is posted is the one the resource has kept.
LEMMA CreateNetworkStep ==
    ASSUME NetworkInv, NEW k \in Key, CreateNetwork(k)
    PROVE  KeyStep(k)
<1>. DEFINE o == api[k]
            c == cache[k]
            m == mem[k]
            n == config[k]
<1>1. /\ o \in Object /\ c \in Object /\ m \in Object /\ n \in SpecOrNone
      /\ Local(o, c, m, "create", n)
      /\ pc[k] = "create" /\ pc[k] # "idle" /\ pc[k] \in NetworkSteps
  BY NetworkTypes DEF CreateNetwork
<1>2. /\ m.fin /\ ~ m.del /\ m.live /\ m.orig # None /\ m.orig \in SpecOrNone
      /\ Good(o) /\ Seen(o, m)
      /\ "save" \in NetworkSteps \ {"idle"}
  BY <1>1, SpecTypes DEF Local, AtStep, CreateSteps, NetworkSteps
<1>3. o.fin /\ SameSpec(o.orig, m.orig) /\ o.live
  BY <1>1, <1>2, GoodObjects DEF Seen
<1>4. Local(o, c, m, "save", m.orig)
  <2>1. AtStep("save", m)
    BY <1>2 DEF AtStep, CreateSteps, DeleteSteps
  <2>2. Local(o, c, m, "save", n)
    BY <1>1, <1>2, <2>1, LocalMove
  <2>. QED  BY <1>3, <2>2 DEF Local
<1>5. Tracked(k) => Followable(k \in queue, o, c, m, "save")
  BY <1>1 DEF Tracked, Followable, CreateSteps
<1>6. MayBecome(o, n, o, m.orig)
  <2>1. Phase(o) \in {"claimed", "terminating"}
    BY <1>3 DEF Phase
  <2>. QED  BY <1>2, <2>1 DEF MayBecome
<1>7. /\ config' = [config EXCEPT ![k] = m.orig] /\ Goto(k, "save", m)
      /\ UNCHANGED <<api, cache, queue, faults, azs>>
  BY DEF CreateNetwork
<1>. QED  BY <1>1, <1>2, <1>4, <1>5, <1>6, <1>7, WorkerMoves

LEMMA SaveAvailableStep ==
    ASSUME NetworkInv, NEW k \in Key, SaveAvailable(k)
    PROVE  KeyStep(k)
<1>. DEFINE o == api[k]
            c == cache[k]
            s == mem[k]
            n == config[k]
            m == [s EXCEPT !.avail = TRUE]
            b == Stored(o, StatusOf(o, m))
<1>1. /\ o \in Object /\ c \in Object /\ s \in Object /\ n \in SpecOrNone
      /\ Local(o, c, s, "save", n) /\ pc[k] = "save" /\ pc[k] # "idle"
  BY NetworkTypes DEF SaveAvailable
<1>2. /\ Good(s) /\ s.live /\ ~ s.del /\ s.fin /\ s.orig # None /\ Seen(o, s) /\ Seen(o, c)
      /\ "save" \in CreateSteps /\ "idle" \in NetworkSteps
  BY <1>1 DEF Local, AtStep, CreateSteps, NetworkSteps
<1>3. /\ m \in Object /\ m.rv = s.rv /\ m.orig = s.orig /\ m.warn = s.warn /\ m.avail = TRUE
  BY <1>1 DEF Object
<1>4. UNCHANGED external /\ StatusUpdate(k, m, "idle")
  BY DEF SaveAvailable
<1>. HIDE DEF m
<1>5. Write(k, m, b, "idle")
  BY <1>4 DEF StatusUpdate, StatusOf
<1>6. b \in Object
  <2>1. StatusOf(o, m) \in Object
    BY <1>1, <1>3 DEF Object, StatusOf
  <2>. QED  BY <1>1, <2>1, StoredIs
<1>7. ASSUME m.rv = o.rv
      PROVE  /\ Local(b, c, Absent(0), "idle", n)
             /\ Tracked(k) => Followable(k \in queue, b, c, Absent(0), "idle")
             /\ KeepsOrig(o, b)
             /\ MayBecome(o, n, b, n)
  <2>1. Near(o, s)
    BY <1>2, <1>3, <1>7 DEF Seen
  <2>2. /\ Local(b, c, s, "save", n)
        /\ b.live = o.live /\ b.del = o.del /\ b.fin = o.fin
        /\ b.avail = m.avail
        /\ b = o \/ b.rv > o.rv
        /\ o.orig # None => SameSpec(o.orig, b.orig)
    <3>1. /\ s.rv = o.rv /\ (m.avail => s.fin)
          /\ s.orig # None => SameSpec(s.orig, m.orig)
      BY <1>2, <1>3, <1>7 DEF SameSpec
    <3>. HIDE DEF o, c, s, n
    <3>. QED  BY <1>1, <1>2, <1>3, <3>1, StatusStored
  <2>. HIDE DEF b
  <2>3. Local(b, c, Absent(0), "idle", n)
    BY <1>1, <1>6, <2>2, LocalRest
  <2>4. Tracked(k) => Followable(k \in queue, b, c, Absent(0), "idle")
    <3>1. c.rv \in Nat /\ o.rv \in Nat /\ b.rv \in Nat /\ c.rv <= o.rv
      BY <1>1, <1>2, <1>6, SpecTypes DEF Seen
    <3>2. CASE b.rv > o.rv
      BY <3>1, <3>2 DEF Followable
    <3>3. CASE b = o
      <4>1. Near(c, s) /\ Warns(s) => Reached(c)
        <5>1. s.avail
          BY <1>3, <2>1, <2>2, <3>3 DEF Near
        <5>2. Near(c, s) /\ Warns(s) => Warns(c)
          BY <1>1, NearWarns
        <5>. QED  BY <1>2, <5>1, <5>2 DEF Near, Reached
      <4>2. Tracked(k) => k \in queue \/ c.rv < s.rv \/ (Near(c, s) /\ Warns(s))
        BY <1>1, <1>2 DEF Tracked, Followable
      <4>. QED  BY <1>3, <1>7, <3>3, <4>1, <4>2 DEF Followable
    <3>. QED  BY <2>2, <3>2, <3>3
  <2>5. MayBecome(o, n, b, n)
    BY <2>2, SamePhase
  <2>. QED  BY <2>2, <2>3, <2>4, <2>5 DEF KeepsOrig
<1>. HIDE DEF b
<1>. QED  BY <1>1, <1>2, <1>3, <1>4, <1>5, <1>6, <1>7, WorkerWrites

LEMMA DeleteNetworkStep ==
    ASSUME NetworkInv, NEW k \in Key, DeleteNetwork(k)
    PROVE  KeyStep(k)
<1>. DEFINE o == api[k]
            c == cache[k]
            m == mem[k]
            n == config[k]
<1>1. /\ o \in Object /\ c \in Object /\ m \in Object /\ n \in SpecOrNone
      /\ Local(o, c, m, "delete", n) /\ pc[k] = "delete" /\ pc[k] # "idle"
  BY NetworkTypes DEF DeleteNetwork
<1>2. /\ "unfinalize" \in NetworkSteps \ {"idle"} /\ None \in SpecOrNone
      /\ m.del /\ Seen(o, m) /\ Good(o)
  BY <1>1 DEF Local, AtStep, DeleteSteps, NetworkSteps, SpecOrNone
<1>3. Local(o, c, m, "unfinalize", None)
  BY <1>1 DEF Local, AtStep, CreateSteps, DeleteSteps
<1>4. Tracked(k) => Followable(k \in queue, o, c, m, "unfinalize")
  BY <1>1 DEF Tracked, Followable, CreateSteps
<1>5. MayBecome(o, n, o, None)
  <2>1. CASE n = None
    BY <2>1 DEF MayBecome
  <2>2. CASE n # None
    <3>1. o.fin /\ o.del
      BY <1>1, <1>2, <2>2 DEF Local, Seen
    <3>2. Phase(o) = "terminating"
      BY <1>1, <1>2, <3>1, GoodObjects DEF Phase
    <3>. QED  BY <3>2 DEF MayBecome
  <2>. QED  BY <2>1, <2>2
<1>6. /\ config' = [config EXCEPT ![k] = None] /\ Goto(k, "unfinalize", m)
      /\ UNCHANGED <<api, cache, queue, faults, azs>>
  BY DEF DeleteNetwork
<1>. QED  BY <1>1, <1>2, <1>3, <1>4, <1>5, <1>6, WorkerMoves

LEMMA EnsureNoFinalizerStep ==
    ASSUME NetworkInv, NEW k \in Key, EnsureNoFinalizer(k)
    PROVE  KeyStep(k)
<1>. DEFINE o == api[k]
            c == cache[k]
            s == mem[k]
            n == config[k]
            m == [s EXCEPT !.fin = FALSE]
            b == IF o.del THEN Absent(o.rv + 1) ELSE Stored(o, [o EXCEPT !.spec = m.spec, !.fin = m.fin])
<1>1. /\ o \in Object /\ c \in Object /\ s \in Object /\ n \in SpecOrNone
      /\ Local(o, c, s, "unfinalize", n) /\ pc[k] = "unfinalize" /\ pc[k] # "idle"
  BY NetworkTypes DEF EnsureNoFinalizer
<1>2. Good(s) /\ s.del /\ s.fin /\ Seen(o, c) /\ "idle" \in NetworkSteps
  BY <1>1, GoodObjects DEF Local, AtStep, DeleteSteps, NetworkSteps
<1>3. m \in Object /\ m.rv = s.rv /\ m.fin = FALSE /\ m.spec = s.spec
  BY <1>1 DEF Object
<1>4. UNCHANGED external /\ Update(k, m, "idle")
  BY <1>2 DEF EnsureNoFinalizer, UpdateIfFinalizer
<1>. HIDE DEF m
<1>5. Write(k, m, b, "idle")
  BY <1>3, <1>4 DEF Update
<1>6. b \in Object
  <2>1. [o EXCEPT !.spec = m.spec, !.fin = m.fin] \in Object
    BY <1>1, <1>3 DEF Object
  <2>2. Absent(o.rv + 1) \in Object
    BY <1>1, SpecTypes, NothingGood
  <2>. QED  BY <1>1, <2>1, <2>2, StoredIs
<1>7. ASSUME m.rv = o.rv
      PROVE  /\ Local(b, c, Absent(0), "idle", n)
             /\ Followable(k \in queue, b, c, Absent(0), "idle")
             /\ KeepsOrig(o, b)
             /\ MayBecome(o, n, b, n)
  <2>1. /\ o.live /\ o.del /\ n = None
        /\ Local(Absent(o.rv + 1), c, Absent(0), "idle", n)
    <3>1. s.rv = o.rv
      BY <1>3, <1>7
    <3>. HIDE DEF o, c, s, n
    <3>. QED  BY <1>1, <3>1, Released
  <2>2. b = Absent(o.rv + 1)
    BY <2>1
  <2>. HIDE DEF b
  <2>3. b.rv = o.rv + 1 /\ ~ b.live
    BY <1>1, <2>2, SpecTypes, NothingGood
  <2>4. c.rv < b.rv
    BY <1>1, <1>2, <2>3, SpecTypes DEF Seen
  <2>5. Phase(o) = "terminating" /\ Phase(b) = "none"
    BY <2>1, <2>3 DEF Phase
  <2>. QED  BY <2>1, <2>2, <2>3, <2>4, <2>5 DEF Followable, KeepsOrig, MayBecome
<1>. HIDE DEF b
<1>. QED  BY <1>1, <1>2, <1>3, <1>4, <1>5, <1>6, <1>7, WorkerWrites

LEMMA GetStep ==
    ASSUME NetworkInv, NEW k \in Key, Get(k)
    PROVE  KeyStep(k)
<1>. DEFINE o == api[k]
            c == cache[k]
            n == config[k]
<1>1. /\ o \in Object /\ c \in Object /\ mem[k] \in Object /\ n \in SpecOrNone
      /\ Local(o, c, mem[k], "idle", n) /\ Idle
      /\ "idle" \in NetworkSteps /\ "delete" \in NetworkSteps /\ "prepare" \in NetworkSteps
  BY NetworkTypes DEF Get, Dequeue, Idle, NetworkSteps, CreateSteps, DeleteSteps
<1>2. /\ api' = [api EXCEPT ![k] = o] /\ cache' = [cache EXCEPT ![k] = c]
      /\ config' = [config EXCEPT ![k] = n] /\ UNCHANGED azs
      /\ queue' \in SUBSET Key /\ queue \ {k} \subseteq queue' /\ faults' \in 0..MaxFaults
  BY NetworkTypes DEF Get, Dequeue, external
<1>3. KeepsOrig(o, o) /\ MayBecome(o, n, o, n)
  BY <1>1, NoMove
<1>4. CASE ~ c.live /\ Goto(k, "idle", c)
  <2>1. mem' = [mem EXCEPT ![k] = Absent(0)] /\ pc' = [pc EXCEPT ![k] = "idle"]
    BY <1>4 DEF Goto
  <2>2. Followable(k \in queue', o, c, Absent(0), "idle")
    BY <1>4 DEF Followable, Reached
  <2>3. Local(o, c, Absent(0), "idle", n) /\ Absent(0) \in Object
    BY <1>1, LocalRest, NothingGood
  <2>. QED  BY <1>1, <1>2, <1>3, <2>1, <2>2, <2>3, KeyStepOf
<1>5. ASSUME NEW q \in {"delete", "prepare"}, c.live, Goto(k, q, c),
             (c.del /\ q = "delete") \/ (~ c.del /\ q = "prepare")
      PROVE  KeyStep(k)
  <2>1. mem' = [mem EXCEPT ![k] = c] /\ pc' = [pc EXCEPT ![k] = q] /\ q \in NetworkSteps
    BY <1>1, <1>5 DEF Goto
  <2>2. Local(o, c, c, q, n)
    BY <1>1, <1>5, LocalGet
  <2>3. Followable(k \in queue', o, c, c, q)
    BY <1>1, NearObjects DEF Followable, CreateSteps
  <2>. QED  BY <1>1, <1>2, <1>3, <2>1, <2>2, <2>3, KeyStepOf
<1>. QED  BY <1>4, <1>5 DEF Get

-----------------------------------------------------------------------------
(* The users, the informer, errors and crashes.                             *)

LEMMA OwnerChanges ==
    ASSUME NetworkInv, NEW k \in Key, NEW b \in Object,
           api' = [api EXCEPT ![k] = b],
           UNCHANGED <<cache, queue, pc, mem, faults, external>>,
           Good(b), b.rv > api[k].rv,
           api[k].fin => b.fin /\ b.orig = api[k].orig,
           api[k].live /\ b.live => b.orig = api[k].orig,
           api[k].del => b.del,
           b.fin => api[k].fin,
           Phase(b) = Phase(api[k]) \/ <<Phase(api[k]), Phase(b)>> \in OwnMoves
    PROVE  KeyStep(k)
<1>. DEFINE o == api[k]
            c == cache[k]
            m == mem[k]
            p == pc[k]
            n == config[k]
<1>1. /\ o \in Object /\ c \in Object /\ m \in Object /\ n \in SpecOrNone
      /\ p \in NetworkSteps /\ Local(o, c, m, p, n)
  BY NetworkTypes
<1>2. /\ cache' = [cache EXCEPT ![k] = c] /\ mem' = [mem EXCEPT ![k] = m]
      /\ pc' = [pc EXCEPT ![k] = p] /\ config' = [config EXCEPT ![k] = n]
      /\ UNCHANGED <<queue, azs>> /\ queue' \in SUBSET Key /\ queue \ {k} \subseteq queue'
      /\ faults' \in 0..MaxFaults
  BY NetworkTypes DEF external
<1>3. SameSpec(b.orig, b.orig)
  BY DEF SameSpec
<1>4. Local(b, c, m, p, n)
  BY <1>1, <1>3, LocalChanged
<1>5. Tracked(k) => Followable(k \in queue', b, c, m, p)
  <2>1. c.rv \in Nat /\ o.rv \in Nat /\ b.rv \in Nat /\ c.rv <= o.rv
    BY <1>1, SpecTypes DEF Local, Seen
  <2>2. c.rv < b.rv
    BY <2>1
  <2>. QED  BY <1>2, <2>2 DEF Tracked, Followable
<1>6. KeepsOrig(o, b)
  BY <1>3 DEF KeepsOrig
<1>7. MayBecome(o, n, b, n)
  BY DEF MayBecome
<1>8. p = "idle" \/ pc[k] # "idle"
  OBVIOUS
<1>. QED  BY <1>1, <1>2, <1>4, <1>5, <1>6, <1>7, <1>8, KeyStepOf

LEMMA OwnerStep ==
    ASSUME NetworkInv, NEW k \in Key, UserCreate(k) \/ UserEdit(k) \/ UserDelete(k),
           UNCHANGED external
    PROVE  KeyStep(k)
<1>. DEFINE o == api[k]
<1>1. /\ o \in Object /\ Good(o) /\ o.rv \in Nat /\ o.rv + 1 \in Nat /\ o.rv + 1 > o.rv
      /\ o.rv + 1 > 0
  BY NetworkTypes, SpecTypes DEF Local
<1>2. UNCHANGED <<cache, queue, pc, mem, faults>>
  BY DEF UserCreate, UserEdit, UserDelete, UserWrite
<1>3. SpecsOf[k] \subseteq Specs
  BY ControllerAssumption
<1>4. CASE UserCreate(k)
  <2>1. ~ o.live
    BY <1>4 DEF UserCreate
  <2>2. PICK t \in Specs : UserWrite(k, [Absent(o.rv + 1) EXCEPT !.live = TRUE, !.spec = t])
    BY <1>3, <1>4 DEF UserCreate
  <2>. DEFINE b == [Absent(o.rv + 1) EXCEPT !.live = TRUE, !.spec = t]
  <2>3. b \in Object /\ Sane(b) /\ b.rv = o.rv + 1 /\ ~ b.fin
    BY <1>1, CreatedObject
  <2>4. b.live /\ ~ b.del /\ ~ b.avail
    BY DEF Absent
  <2>5. api' = [api EXCEPT ![k] = b]
    BY <2>2 DEF UserWrite
  <2>. HIDE DEF b
  <2>6. Good(b)
    BY <2>3, <2>4 DEF Good, Frozen
  <2>7. ~ o.fin /\ ~ o.del
    BY <1>1, <2>1, GoodObjects
  <2>8. Phase(o) = "none" /\ Phase(b) = "declared"
    BY <2>1, <2>3, <2>4 DEF Phase
  <2>9. b.rv > o.rv
    BY <1>1, <2>3
  <2>10. <<Phase(o), Phase(b)>> \in OwnMoves
    BY <2>8 DEF OwnMoves
  <2>. QED  BY <1>2, <2>1, <2>3, <2>5, <2>6, <2>7, <2>9, <2>10, OwnerChanges
<1>5. CASE UserEdit(k)
  <2>1. o.live
    BY <1>5 DEF UserEdit
  <2>2. PICK t \in Specs : UserWrite(k, [o EXCEPT !.rv = @ + 1, !.spec = t])
    BY <1>3, <1>5 DEF UserEdit
  <2>. DEFINE b == [o EXCEPT !.rv = @ + 1, !.spec = t]
  <2>3. b \in Object /\ Sane(b) /\ b.rv > o.rv /\ b.fin = o.fin /\ b.orig = o.orig
    BY <1>1, <2>1, EditedObject DEF Good
  <2>4. b.live = o.live /\ b.del = o.del /\ b.avail = o.avail
    BY <1>1 DEF Object
  <2>5. api' = [api EXCEPT ![k] = b]
    BY <2>2 DEF UserWrite
  <2>. HIDE DEF b
  <2>6. Good(b)
    BY <1>1, <2>3, <2>4 DEF Good, Frozen
  <2>7. Phase(b) = Phase(o)
    BY <2>3, <2>4, SamePhase
  <2>. QED  BY <1>2, <2>1, <2>3, <2>4, <2>5, <2>6, <2>7, OwnerChanges
<1>6. CASE UserDelete(k)
  <2>1. o.live /\ ~ o.del
    BY <1>6 DEF UserDelete
  <2>2. CASE o.fin
    <3>. DEFINE b == [o EXCEPT !.rv = @ + 1, !.del = TRUE]
    <3>1. b \in Object /\ Sane(b) /\ b.rv > o.rv /\ b.fin = o.fin /\ b.orig = o.orig
      BY <1>1, <2>1, <2>2, DeletedObject DEF Good
    <3>2. b.live = o.live /\ b.del /\ b.avail = o.avail
      BY <1>1 DEF Object
    <3>3. api' = [api EXCEPT ![k] = b]
      BY <1>6, <2>2 DEF UserDelete, UserWrite
    <3>. HIDE DEF b
    <3>4. Good(b)
      BY <1>1, <3>1, <3>2 DEF Good, Frozen
    <3>5. Phase(o) = "claimed" /\ Phase(b) = "terminating"
      BY <2>1, <2>2, <3>1, <3>2 DEF Phase
    <3>6. <<Phase(o), Phase(b)>> \in OwnMoves
      BY <3>5 DEF OwnMoves
    <3>. QED  BY <1>2, <2>1, <2>2, <3>1, <3>2, <3>3, <3>4, <3>6, OwnerChanges
  <2>3. CASE ~ o.fin
    <3>. DEFINE b == Absent(o.rv + 1)
    <3>1. b \in Object /\ Good(b) /\ b.rv = o.rv + 1 /\ ~ b.live /\ ~ b.fin
      BY <1>1, NothingGood
    <3>2. api' = [api EXCEPT ![k] = b]
      BY <1>6, <2>3 DEF UserDelete, UserWrite
    <3>. HIDE DEF b
    <3>3. Phase(o) = "declared" /\ Phase(b) = "none"
      BY <2>1, <2>3, <3>1 DEF Phase
    <3>4. <<Phase(o), Phase(b)>> \in OwnMoves
      BY <3>3 DEF OwnMoves
    <3>5. b.rv > o.rv
      BY <1>1, <3>1
    <3>. QED  BY <1>2, <2>1, <2>3, <3>1, <3>2, <3>4, <3>5, OwnerChanges
  <2>. QED  BY <2>2, <2>3
<1>. QED  BY <1>4, <1>5, <1>6

LEMMA InformerStep ==
    ASSUME NetworkInv, NEW k \in Key, Watch(k) \/ Resync(k), UNCHANGED external
    PROVE  KeyStep(k)
<1>. DEFINE o == api[k]
            m == mem[k]
            p == pc[k]
            n == config[k]
<1>1. /\ o \in Object /\ cache[k] \in Object /\ m \in Object /\ n \in SpecOrNone
      /\ p \in NetworkSteps /\ Local(o, cache[k], m, p, n) /\ Local(o, o, m, p, n)
  BY NetworkTypes, LocalWatch
<1>2. PICK c \in {o, cache[k]} : cache' = [cache EXCEPT ![k] = c]
  BY NetworkTypes DEF Watch, Resync
<1>3. /\ api' = [api EXCEPT ![k] = o] /\ mem' = [mem EXCEPT ![k] = m]
      /\ pc' = [pc EXCEPT ![k] = p] /\ config' = [config EXCEPT ![k] = n] /\ UNCHANGED azs
      /\ queue' \in SUBSET Key /\ queue \ {k} \subseteq queue' /\ k \in queue'
      /\ faults' \in 0..MaxFaults
  BY NetworkTypes DEF Watch, Resync, external
<1>4. c \in Object /\ Local(o, c, m, p, n)
  BY <1>1, <1>2
<1>5. Followable(k \in queue', o, c, m, p)
  BY <1>3 DEF Followable
<1>6. KeepsOrig(o, o) /\ MayBecome(o, n, o, n)
  BY <1>1, NoMove
<1>7. p = "idle" \/ pc[k] # "idle"
  OBVIOUS
<1>. QED  BY <1>1, <1>2, <1>3, <1>4, <1>5, <1>6, <1>7, KeyStepOf

LEMMA FailStep ==
    ASSUME NetworkInv, NEW k \in Key, Fail(k), UNCHANGED external
    PROVE  KeyStep(k)
<1>1. faults' \in 0..MaxFaults
  BY NetworkTypes, ControllerAssumption DEF Fail
<1>. QED  BY <1>1, WorkerRetries DEF Fail

LEMMA KeySteps ==
    ASSUME NetworkInv, NEW k \in Key,
           \/ Get(k) \/ Step(k)
           \/ /\ \/ UserCreate(k) \/ UserEdit(k) \/ UserDelete(k)
                 \/ Watch(k) \/ Resync(k) \/ Fail(k)
              /\ UNCHANGED external
    PROVE  KeyStep(k)
BY GetStep, SavePreparedStep, EnsureFinalizerStep, ResolveReferencesStep, CreateNetworkStep,
   SaveAvailableStep, DeleteNetworkStep, EnsureNoFinalizerStep, OwnerStep, InformerStep,
   FailStep DEF Step

\* The other steps change no object, and no network.
LEMMA OtherSteps ==
    ASSUME NetworkInv, \/ Crash /\ UNCHANGED external
                       \/ \E a \in AZs : ChangeAZ(a)
                       \/ UNCHANGED vars
    PROVE  /\ NetworkInv' /\ (TrackedInv => TrackedInv')
           /\ UNCHANGED <<api, config>>
<1>1. CASE UNCHANGED <<ctrlVars, config>> /\ azs' \in SUBSET AZs
  <2>1. UNCHANGED <<api, cache, mem, pc, queue, faults, config>>
    BY <1>1 DEF ctrlVars
  <2>2. TypeOK'
    BY <1>1, <2>1 DEF NetworkInv, TypeOK, CtrlTypeOK
  <2>3. TrackedInv => TrackedInv'
    BY <2>1 DEF TrackedInv, Tracked
  <2>. QED  BY <2>1, <2>2, <2>3 DEF NetworkInv
<1>2. CASE Crash /\ UNCHANGED external
  <2>1. /\ UNCHANGED <<api, config, azs>> /\ cache' = api
        /\ mem' = [k \in Key |-> Absent(0)] /\ pc' = [k \in Key |-> "idle"]
        /\ queue' = {k \in Key : api[k].live}
    BY <1>2 DEF Crash, external
  <2>2. faults' \in 0..MaxFaults
    BY <1>2, ControllerAssumption DEF Crash, NetworkInv, TypeOK, CtrlTypeOK
  <2>3. TypeOK'
    BY <2>1, <2>2, NothingGood DEF NetworkInv, TypeOK, CtrlTypeOK
  <2>4. ASSUME NEW k \in Key
        PROVE  Local(api'[k], cache'[k], mem'[k], pc'[k], config'[k])
    <3>1. Local(api[k], api[k], mem[k], pc[k], config[k])
      BY NetworkTypes, LocalWatch
    <3>2. Local(api[k], api[k], Absent(0), "idle", config[k])
      BY <3>1, NetworkTypes, LocalRest
    <3>. QED  BY <2>1, <3>2
  <2>5. ASSUME NEW k \in Key PROVE Tracked(k)'
    BY <2>1 DEF Tracked, Followable, Reached
  <2>. QED  BY <2>1, <2>3, <2>4, <2>5 DEF NetworkInv, TrackedInv
<1>3. ASSUME (\E a \in AZs : ChangeAZ(a)) \/ UNCHANGED vars
      PROVE  UNCHANGED <<ctrlVars, config>> /\ azs' \in SUBSET AZs
  BY <1>3 DEF ChangeAZ, vars, external, NetworkInv, TypeOK
<1>. QED  BY <1>1, <1>2, <1>3

-----------------------------------------------------------------------------
(* The invariants.                                                          *)

LEMMA KeyStepKeeps ==
    ASSUME NetworkInv, NEW k \in Key, KeyStep(k)
    PROVE  NetworkInv' /\ (TrackedInv => TrackedInv')
<1>1. \A i, j \in Key : pc'[i] # "idle" /\ pc'[j] # "idle" => i = j
  BY DEF KeyStep, NetworkInv, Idle
<1>2. ASSUME NEW j \in Key \ {k}
      PROVE  /\ Local(api'[j], cache'[j], mem'[j], pc'[j], config'[j])
             /\ Tracked(j) => Tracked(j)'
  <2>1. /\ api'[j] = api[j] /\ cache'[j] = cache[j] /\ mem'[j] = mem[j]
        /\ pc'[j] = pc[j] /\ config'[j] = config[j] /\ (j \in queue => j \in queue')
    BY DEF KeyStep
  <2>2. Tracked(j) => Tracked(j)'
    BY <2>1 DEF Tracked, Followable
  <2>. QED  BY <2>1, <2>2, NetworkTypes
<1>3. /\ TypeOK' /\ Local(api'[k], cache'[k], mem'[k], pc'[k], config'[k])
      /\ Tracked(k) => Tracked(k)'
  BY DEF KeyStep
<1>4. NetworkInv'
  BY <1>1, <1>2, <1>3 DEF NetworkInv
<1>5. TrackedInv => TrackedInv'
  BY <1>2, <1>3 DEF TrackedInv
<1>. QED  BY <1>4, <1>5

LEMMA StepKinds ==
    ASSUME NetworkInv, [Next]_vars
    PROVE  \/ \E k \in Key : KeyStep(k)
           \/ /\ NetworkInv' /\ (TrackedInv => TrackedInv')
              /\ UNCHANGED <<api, config>>
<1>1. CASE \E k \in Key : Get(k) \/ Step(k) \/ Environment(k)
  <2>1. PICK k \in Key : Get(k) \/ Step(k) \/ Environment(k)
    BY <1>1
  <2>. QED  BY <2>1, KeySteps, OtherSteps DEF Environment
<1>2. CASE (\E a \in AZs : ChangeAZ(a)) \/ UNCHANGED vars
  BY <1>2, OtherSteps
<1>. QED  BY <1>1, <1>2 DEF Next

LEMMA NetworkInit == Init => NetworkInv /\ TrackedInv
<1>. SUFFICES ASSUME Init PROVE NetworkInv /\ TrackedInv
  OBVIOUS
<1>1. Absent(0) \in Object /\ Good(Absent(0)) /\ Seen(Absent(0), Absent(0)) /\ ~ Absent(0).live
      /\ ~ Absent(0).del /\ ~ Absent(0).fin
  BY NothingGood, SeenNothing
<1>2. /\ api = [k \in Key |-> Absent(0)] /\ cache = [k \in Key |-> Absent(0)]
      /\ mem = [k \in Key |-> Absent(0)] /\ pc = [k \in Key |-> "idle"]
      /\ queue = {} /\ faults = 0 /\ config = [k \in Key |-> None] /\ azs = {}
  BY DEF Init, CtrlInit
<1>3. TypeOK
  BY <1>1, <1>2, ControllerAssumption DEF TypeOK, CtrlTypeOK, SpecOrNone
<1>4. \A k \in Key : Local(api[k], cache[k], mem[k], pc[k], config[k])
  BY <1>1, <1>2 DEF Local, AtStep, CreateSteps, DeleteSteps
<1>5. \A k \in Key : Tracked(k)
  BY <1>1, <1>2 DEF Tracked, Followable, Reached
<1>. QED  BY <1>2, <1>3, <1>4, <1>5 DEF NetworkInv, TrackedInv

LEMMA NetworkInvariant == Spec => [](NetworkInv /\ TrackedInv)
<1>1. NetworkInv /\ TrackedInv /\ [Next]_vars => (NetworkInv /\ TrackedInv)'
  BY StepKinds, KeyStepKeeps
<1>. QED  BY <1>1, NetworkInit, PTL DEF Spec

-----------------------------------------------------------------------------
(* The theorems.                                                            *)

\* The comparison decides whether two networks are the same but for the order
\* within their lists, and leaves each of them the same network.
THEOREM ComparisonDecides ==
    \A n1, n2 \in Network :
        LET m == Match(n1, n2) IN
        /\ m.ok <=> Same(n1, n2)
        /\ m.left \in Network /\ Same(n1, m.left)
        /\ m.right \in Network /\ Same(n2, m.right)
BY MatchDecides

\* Objects, copies and networks keep their types.
THEOREM NetworkTyping == Spec => []TypeOK
<1>1. NetworkInv => TypeOK
  BY DEF NetworkInv
<1>. QED  BY <1>1, NetworkInvariant, PTL

\* The Director has the network that its resource described at first, but for
\* the order of its lists, and the resource is there to delete it.
THEOREM NetworkOriginal == Spec => []ConfigIsOriginal
<1>1. ASSUME NetworkInv PROVE ConfigIsOriginal
  <2>1. SUFFICES ASSUME NEW k \in Key, config[k] # None
                 PROVE  api[k].live /\ api[k].fin /\ config[k] \in SameAs[api[k].orig]
    BY DEF ConfigIsOriginal
  <2>2. /\ Good(api[k]) /\ api[k].fin /\ SameSpec(api[k].orig, config[k])
        /\ api[k].live /\ api[k].orig # None
    BY <1>1, <2>1, NetworkTypes, GoodObjects DEF Local
  <2>3. api[k].orig \in Specs
    BY <1>1, <2>2, NetworkTypes, SpecTypes DEF SpecOrNone
  <2>. QED  BY <1>1, <2>2, <2>3, NetworkTypes, SameSpecs DEF SpecOrNone
<1>. QED  BY <1>1, NetworkInvariant, PTL

\* A resource that nothing is left to do for is available, is not waiting to be
\* deleted, and warns exactly when its owner has made another network of it.
THEOREM NetworkSettled == Spec => []SettledIsConverged
<1>1. ASSUME NetworkInv, TrackedInv PROVE SettledIsConverged
  <2>1. SUFFICES ASSUME NEW k \in Key, Settled(k), api[k].live
                 PROVE  /\ ~ api[k].del /\ api[k].avail
                        /\ api[k].warn = (api[k].spec \notin SameAs[api[k].orig])
    BY DEF SettledIsConverged
  <2>. DEFINE o == api[k]
  <2>2. o \in Object /\ Good(o) /\ o.rv \in Nat
    BY <1>1, NetworkTypes, SpecTypes DEF Local
  <2>3. Reached(o)
    BY <1>1, <2>1, <2>2 DEF TrackedInv, Tracked, Followable, Settled
  <2>4. ~ o.del /\ o.avail /\ Warns(o) /\ o.orig # None
    BY <2>1, <2>2, <2>3, GoodObjects DEF Reached
  <2>5. o.orig \in Specs /\ o.spec \in SpecOrNone
    BY <2>2, <2>4, SpecTypes DEF SpecOrNone
  <2>6. SameSpec(o.orig, o.spec) <=> o.spec \in SameAs[o.orig]
    BY <2>5, SameSpecs DEF SpecOrNone
  <2>7. (~ SameSpec(o.orig, o.spec)) = (o.spec \notin SameAs[o.orig])
    <3>1. SameSpec(o.orig, o.spec) \in BOOLEAN
      BY DEF SameSpec
    <3>. QED  BY <2>6, <3>1
  <2>. QED  BY <2>4, <2>7 DEF Warns
<1>. QED  BY <1>1, NetworkInvariant, PTL

\* No step makes another network of an original, whatever it does to the order
\* of its lists.
THEOREM NetworkOriginalIsSame == Spec => OriginalIsSame
<1>1. ASSUME NetworkInv, [Next]_vars, NEW k \in Key,
             api[k].live, api[k].orig # None, api'[k].live
      PROVE  api'[k].orig \in SameAs[api[k].orig]
  <2>1. SameSpec(api[k].orig, api'[k].orig)
    <3>1. CASE UNCHANGED api
      BY <3>1 DEF SameSpec
    <3>2. ASSUME NEW j \in Key, KeyStep(j)
          PROVE  SameSpec(api[k].orig, api'[k].orig)
      <4>1. CASE j = k
        BY <1>1, <3>2, <4>1 DEF KeyStep, KeepsOrig
      <4>2. CASE j # k
        <5>1. api'[k] = api[k]
          BY <3>2, <4>2 DEF KeyStep
        <5>. QED  BY <5>1 DEF SameSpec
      <4>. QED  BY <4>1, <4>2
    <3>. QED  BY <1>1, <3>1, <3>2, StepKinds
  <2>2. api[k].orig \in Specs
    BY <1>1, NetworkTypes, SpecTypes DEF SpecOrNone
  <2>3. api'[k].orig \in SpecOrNone
    <3>1. NetworkInv'
      BY <1>1, StepKinds, KeyStepKeeps
    <3>2. api'[k] \in Object
      BY <3>1 DEF NetworkInv, TypeOK, CtrlTypeOK
    <3>. QED  BY <3>2, SpecTypes
  <2>. QED  BY <2>1, <2>2, <2>3, SameSpecs DEF SpecOrNone
<1>2. NetworkInv /\ [Next]_vars =>
        [\A k \in Key : api[k].live /\ api[k].orig # None /\ api'[k].live
                           => api'[k].orig \in SameAs[api[k].orig]]_vars
  BY <1>1
<1>. QED  BY <1>2, NetworkInvariant, PTL DEF Spec, OriginalIsSame

-----------------------------------------------------------------------------
(* The refinement.                                                          *)

Exts == [k \in Key |-> config[k] # None]

LEMMA PromiseOfKey ==
    ASSUME NetworkInv, NEW k \in Key, KeyStep(k)
    PROVE  [Promise!Next]_(Promise!vars)
<1>. DEFINE from == Phase(api[k])
            to == Phase(api'[k])
            n == config[k]
            d == config'[k]
<1>1. \A j \in Key \ {k} : api'[j] = api[j] /\ config'[j] = config[j]
  BY DEF KeyStep
<1>2. Phases' = [Phases EXCEPT ![k] = to] /\ Phases[k] = from
  BY <1>1, OnePhase DEF Phases
<1>3. Exts' = [Exts EXCEPT ![k] = (d # None)] /\ Exts[k] = (n # None)
  BY <1>1 DEF Exts
<1>4. MayBecome(api[k], n, api'[k], d)
  BY DEF KeyStep
<1>. HIDE DEF from, to, n, d
<1>5. (d = None <=> n = None) => Exts' = Exts
  BY <1>3 DEF Exts
<1>6. to = from => Phases' = Phases
  BY <1>2 DEF Phases
<1>7. CASE to = from /\ (d = None <=> n = None)
  <2>1. UNCHANGED Promise!vars
    BY <1>5, <1>6, <1>7 DEF Promise!vars, Phases, Exts
  <2>. QED  BY <2>1
<1>8. CASE to = from /\ d # None /\ from \in {"claimed", "terminating"}
  <2>1. Exts' = [Exts EXCEPT ![k] = TRUE]
    BY <1>3, <1>8
  <2>2. Promise!Provision(k)
    BY <1>2, <1>6, <1>8, <2>1 DEF Promise!Provision, Phases, Exts
  <2>. QED  BY <2>2 DEF Promise!Next
<1>9. CASE to = from /\ d = None /\ from = "terminating"
  <2>1. Exts' = [Exts EXCEPT ![k] = FALSE]
    BY <1>3, <1>9
  <2>2. Promise!Deprovision(k)
    BY <1>2, <1>6, <1>9, <2>1 DEF Promise!Deprovision, Phases, Exts
  <2>. QED  BY <2>2 DEF Promise!Next
<1>10. CASE <<from, to>> \in OwnMoves /\ (d = None <=> n = None)
  <2>1. Promise!Move(k, from, to)
    BY <1>2, <1>5, <1>10 DEF Promise!Move, Phases, Exts
  <2>2. \/ from = "none" /\ to = "declared"
        \/ from = "declared" /\ to = "none"
        \/ from = "claimed" /\ to = "terminating"
        \/ from = "declared" /\ to = "claimed"
    BY <1>10 DEF OwnMoves
  <2>3. \/ Promise!Declare(k) \/ Promise!Withdraw(k)
        \/ Promise!Terminate(k) \/ Promise!Claim(k)
    BY <2>1, <2>2 DEF Promise!Declare, Promise!Withdraw, Promise!Terminate, Promise!Claim
  <2>. QED  BY <2>3 DEF Promise!Next
<1>11. CASE from = "terminating" /\ to = "none" /\ n = None /\ d = None
  <2>1. Promise!Move(k, "terminating", "none")
    BY <1>2, <1>5, <1>11 DEF Promise!Move, Phases, Exts
  <2>2. ~ Exts[k]
    BY <1>3, <1>11
  <2>3. Promise!Finish(k)
    BY <2>1, <2>2 DEF Promise!Finish, Exts
  <2>. QED  BY <2>3 DEF Promise!Next
<1>12. \/ to = from /\ (d = None <=> n = None)
       \/ to = from /\ d # None /\ from \in {"claimed", "terminating"}
       \/ to = from /\ d = None /\ from = "terminating"
       \/ <<from, to>> \in OwnMoves /\ (d = None <=> n = None)
       \/ from = "terminating" /\ to = "none" /\ n = None /\ d = None
  BY <1>4 DEF MayBecome, from, to
<1>. QED  BY <1>7, <1>8, <1>9, <1>10, <1>11, <1>12

\* The Network reconciler keeps the promise of Lifecycle.
THEOREM NetworkImplementsLifecycle == Spec => ImplementsLifecycle
<1>1. Init => Promise!Init
  <2>. SUFFICES ASSUME Init PROVE Promise!Init
    OBVIOUS
  <2>1. \A k \in Key : Phase(api[k]) = "none" /\ config[k] = None
    BY NothingGood DEF Init, CtrlInit, Phase
  <2>. QED  BY <2>1 DEF Promise!Init
<1>2. NetworkInv /\ [Next]_vars => [Promise!Next]_(Promise!vars)
  <2>. SUFFICES ASSUME NetworkInv, [Next]_vars PROVE [Promise!Next]_(Promise!vars)
    OBVIOUS
  <2>1. CASE UNCHANGED <<api, config>>
    BY <2>1 DEF Promise!vars
  <2>. QED  BY <2>1, StepKinds, PromiseOfKey
<1>. QED  BY <1>1, <1>2, NetworkInvariant, PTL DEF Spec, ImplementsLifecycle, Promise!Spec

=============================================================================
