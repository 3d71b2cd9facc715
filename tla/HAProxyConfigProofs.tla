------------------------ MODULE HAProxyConfigProofs -------------------------
(***************************************************************************)
(* Theorems about HAProxyConfig, for any services, lists of routes and     *)
(* states of the Endpoints: of whatever length the lists are.              *)
(*                                                                         *)
(* Lists of unknown length are reasoned about by the least number for      *)
(* which something fails, which needs no theorem of the library that has   *)
(* an operator as a parameter.                                             *)
(***************************************************************************)
EXTENDS HAProxyConfig, FiniteSetTheorems, SequenceTheorems, TLAPS

-----------------------------------------------------------------------------
(* Lists of lists *)

\* A set of natural numbers has a least element.
LEMMA Least ==
    ASSUME NEW B \in SUBSET Nat, B # {}
    PROVE  \E x \in B : \A y \in B : x =< y
<1> DEFINE R == OpToRel(<, Nat)
<1>1. \E x \in B : \A y \in B : <<y, x>> \notin R
  <2>1. IsWellFoundedOn(R, Nat)
    BY NatLessThanWellFounded
  <2> HIDE DEF R
  <2> QED
    BY <2>1, WFMin
<1>2. PICK x \in B : \A y \in B : <<y, x>> \notin R
  BY <1>1
<1>3. ASSUME NEW y \in B PROVE x =< y
  <2>1. <<y, x>> \notin R
    BY <1>2
  <2>2. x \in Nat /\ y \in Nat
    OBVIOUS
  <2>3. ~(y < x)
    BY <2>1, <2>2 DEF OpToRel
  <2> QED
    BY <2>2, <2>3
<1> QED
  BY <1>3

\* flat[i] is the first i lists in one.
Flattens(flat, seqs, n) ==
    flat = [i \in 1..n |-> IF i = 1 THEN seqs[i] ELSE flat[i-1] \o seqs[i]]

\* The function FlattenSeq defines by recursion exists.
LEMMA FlatExists ==
    ASSUME NEW seqs, NEW n \in Nat \ {0}
    PROVE  \E flat : Flattens(flat, seqs, n)
<1> DEFINE B == {k \in Nat \ {0} : ~ \E flat : Flattens(flat, seqs, k)}
<1> SUFFICES ASSUME B # {} PROVE FALSE
  OBVIOUS
<1>1. PICK k \in B : \A j \in B : k =< j
  <2>1. B \in SUBSET Nat
    OBVIOUS
  <2> HIDE DEF B
  <2> QED
    BY <2>1, Least
<1>2. CASE k = 1
  <2> DEFINE flat == [i \in 1..1 |-> seqs[i]]
  <2>1. Flattens(flat, seqs, 1)
    BY DEF Flattens
  <2> QED
    BY <1>1, <1>2, <2>1
<1>3. CASE k # 1
  <2>1. k - 1 \in Nat \ {0} /\ k - 1 \notin B
    BY <1>1, <1>3
  <2>2. PICK flat : Flattens(flat, seqs, k - 1)
    BY <2>1
  <2> DEFINE longer == [i \in 1..k |-> IF i = k THEN flat[k-1] \o seqs[k]
                                       ELSE flat[i]]
  <2>3. \A i \in 1..k : longer[i] =
          IF i = 1 THEN seqs[i] ELSE longer[i-1] \o seqs[i]
    <3> TAKE i \in 1..k
    <3>1. CASE i = k
      <4>1. longer[k-1] = flat[k-1]
        BY <2>1
      <4> QED
        BY <1>3, <3>1, <4>1
    <3>2. CASE i # k
      <4>1. i \in 1..k-1 /\ (i # 1 => i - 1 \in 1..k-1 /\ i - 1 # k)
        BY <2>1, <3>2
      <4>2. flat[i] = IF i = 1 THEN seqs[i] ELSE flat[i-1] \o seqs[i]
        BY <2>2, <4>1 DEF Flattens
      <4> QED
        BY <3>2, <4>1, <4>2
    <3> QED
      BY <3>1, <3>2
  <2>4. Flattens(longer, seqs, k)
    <3>1. longer = [i \in 1..k |-> longer[i]]
      OBVIOUS
    <3> HIDE DEF longer
    <3> QED
      BY <2>3, <3>1 DEF Flattens
  <2> QED
    BY <1>1, <2>4
<1> QED
  BY <1>2, <1>3

\* The list "all" is made of the lists seqs[1], ..., seqs[n] and nothing else:
\* seqs[i] is there, after the first at[i] elements.
Places(all, seqs, n, at) ==
    /\ \A i \in 1..n : \A p \in 1..Len(seqs[i]) :
          at[i] + p \in 1..Len(all) /\ all[at[i] + p] = seqs[i][p]
    /\ \A q \in 1..Len(all) :
          \E i \in 1..n : \E p \in 1..Len(seqs[i]) : q = at[i] + p

\* One list more at the end.
LEMMA PlaceOne ==
    ASSUME NEW S, NEW all \in Seq(S), NEW n \in Nat, NEW seqs,
           \A i \in 1..n+1 : seqs[i] \in Seq(S),
           NEW at \in [1..n -> Nat], Places(all, seqs, n, at)
    PROVE  \E at2 \in [1..n+1 -> Nat] :
              Places(all \o seqs[n+1], seqs, n + 1, at2)
<1> DEFINE at2 == [i \in 1..n+1 |-> IF i = n + 1 THEN Len(all) ELSE at[i]]
<1> DEFINE one == seqs[n+1]
<1>1. one \in Seq(S) /\ Len(one) \in Nat /\ Len(all) \in Nat
  BY LenProperties
<1>2. /\ Len(all \o one) = Len(all) + Len(one)
      /\ \A q \in 1..Len(all) + Len(one) :
            (all \o one)[q] = IF q =< Len(all) THEN all[q]
                              ELSE one[q - Len(all)]
  BY <1>1, ConcatProperties
<1>3. at2 \in [1..n+1 -> Nat]
  BY <1>1
<1>4. ASSUME NEW i \in 1..n+1, NEW p \in 1..Len(seqs[i])
      PROVE  /\ at2[i] + p \in 1..Len(all \o one)
             /\ (all \o one)[at2[i] + p] = seqs[i][p]
  <2>1. CASE i = n + 1
    <3>1. at2[i] = Len(all) /\ seqs[i] = one /\ p \in Nat /\ p >= 1 /\ p =< Len(one)
      BY <1>1, <2>1
    <3> HIDE DEF at2, one
    <3>2. Len(all) + p \in 1..Len(all) + Len(one) /\ ~(Len(all) + p =< Len(all))
          /\ Len(all) + p - Len(all) = p
      BY <1>1, <3>1
    <3>3. (all \o one)[Len(all) + p] = one[p]
      BY <1>2, <3>2
    <3> QED
      BY <1>2, <3>1, <3>2, <3>3
  <2>2. CASE i # n + 1
    <3>1. i \in 1..n /\ at2[i] = at[i]
      BY <2>2
    <3>2. at[i] + p \in 1..Len(all) /\ all[at[i] + p] = seqs[i][p]
      BY <3>1 DEF Places
    <3> HIDE DEF at2, one
    <3>3. at[i] + p \in 1..Len(all) + Len(one) /\ at[i] + p =< Len(all)
      BY <1>1, <3>2
    <3> QED
      BY <1>2, <3>1, <3>2, <3>3
  <2> QED
    BY <2>1, <2>2
<1>5. ASSUME NEW q \in 1..Len(all \o one)
      PROVE  \E i \in 1..n+1 : \E p \in 1..Len(seqs[i]) : q = at2[i] + p
  <2>1. CASE q =< Len(all)
    <3>1. q \in 1..Len(all)
      BY <1>1, <1>2, <2>1
    <3>2. PICK i \in 1..n : \E p \in 1..Len(seqs[i]) : q = at[i] + p
      BY <3>1 DEF Places
    <3>3. i \in 1..n+1 /\ at2[i] = at[i]
      OBVIOUS
    <3> QED
      BY <3>2, <3>3
  <2>2. CASE ~(q =< Len(all))
    <3>1. n + 1 \in 1..n+1 /\ at2[n+1] = Len(all) /\ seqs[n+1] = one
      OBVIOUS
    <3>2. q - Len(all) \in 1..Len(one) /\ q = Len(all) + (q - Len(all))
      <4> HIDE DEF at2, one
      <4> QED
        BY <1>1, <1>2, <2>2
    <3> QED
      BY <3>1, <3>2
  <2> QED
    BY <2>1, <2>2
<1> HIDE DEF at2
<1> QED
  BY <1>3, <1>4, <1>5 DEF Places

\* FlattenSeq returns all the lists, in places of their own.
LEMMA FlattenPlaces ==
    ASSUME NEW S, NEW n \in Nat, NEW seqs \in [1..n -> Seq(S)]
    PROVE  /\ FlattenSeq(seqs) \in Seq(S)
           /\ \E at \in [1..n -> Nat] : Places(FlattenSeq(seqs), seqs, n, at)
<1>1. Len(seqs) = n /\ DOMAIN seqs = 1..n
  OBVIOUS
<1>2. CASE n = 0
  <2>1. FlattenSeq(seqs) = <<>>
    BY <1>1, <1>2 DEF FlattenSeq
  <2>2. <<>> \in Seq(S) /\ Len(<<>>) = 0
    BY EmptySeq
  <2>3. Places(<<>>, seqs, n, seqs)
    BY <1>2, <2>2 DEF Places
  <2>4. PICK at : at = [i \in 1..n |-> 0]
    OBVIOUS
  <2>5. at \in [1..n -> Nat] /\ Places(<<>>, seqs, n, at)
    BY <1>2, <2>2, <2>4 DEF Places
  <2> QED
    BY <2>1, <2>2, <2>5
<1>3. CASE n # 0
  <2> DEFINE flat == CHOOSE flat : Flattens(flat, seqs, n)
  <2>1. FlattenSeq(seqs) = flat[n]
    BY <1>1, <1>3 DEF FlattenSeq, Flattens
  <2>2. Flattens(flat, seqs, n)
    BY <1>3, FlatExists
  <2> HIDE DEF flat
  <2>3. \A i \in 1..n :
          flat[i] = IF i = 1 THEN seqs[i] ELSE flat[i-1] \o seqs[i]
    BY <2>2 DEF Flattens
  <2> DEFINE Right(i) == /\ flat[i] \in Seq(S)
                         /\ \E at \in [1..i -> Nat] :
                                Places(flat[i], seqs, i, at)
  <2> DEFINE B == {i \in 1..n : ~ Right(i)}
  <2>4. SUFFICES ASSUME B # {} PROVE FALSE
    <3>1. n \in 1..n
      BY <1>3
    <3>2. Right(n)
      BY <2>4, <3>1
    <3> QED
      BY <2>1, <3>2
  <2>5. PICK i \in B : \A j \in B : i =< j
    <3>1. B \in SUBSET Nat
      OBVIOUS
    <3> HIDE DEF B
    <3> QED
      BY <2>4, <3>1, Least
  <2>6. i \in 1..n /\ i \in Nat /\ ~ Right(i)
    <3> HIDE DEF Right
    <3> QED
      BY <2>5
  <2>7. CASE i = 1
    <3>1. flat[i] = seqs[1] /\ seqs[1] \in Seq(S)
      BY <2>3, <2>6, <2>7
    <3>2. PICK at : at = [j \in 1..1 |-> 0]
      OBVIOUS
    <3>3. at \in [1..1 -> Nat] /\ \A j \in 1..1 : j = 1 /\ at[j] = 0
      BY <3>2
    <3>4. Len(seqs[1]) \in Nat
      BY <3>1, LenProperties
    <3>5. Places(seqs[1], seqs, 1, at)
      <4>1. \A j \in 1..1 : \A p \in 1..Len(seqs[j]) :
              at[j] + p \in 1..Len(seqs[1]) /\ seqs[1][at[j] + p] = seqs[j][p]
        BY <3>3, <3>4
      <4>2. ASSUME NEW q \in 1..Len(seqs[1])
            PROVE  \E j \in 1..1 : \E p \in 1..Len(seqs[j]) : q = at[j] + p
        <5>1. 1 \in 1..1 /\ q = at[1] + q
          BY <3>3, <3>4
        <5> QED
          BY <5>1
      <4> QED
        BY <4>1, <4>2 DEF Places
    <3> QED
      BY <2>6, <2>7, <3>1, <3>3, <3>5
  <2>8. CASE i # 1
    <3>1. PICK k : k = i - 1
      OBVIOUS
    <3>2. k \in 1..n /\ k \in Nat /\ i = k + 1
      BY <2>6, <2>8, <3>1
    <3>3. Right(k)
      <4>1. ~(i =< k)
        BY <3>2
      <4>2. k \notin B
        BY <2>5, <4>1
      <4> QED
        BY <3>2, <4>2
    <3>4. PICK at \in [1..k -> Nat] : Places(flat[k], seqs, k, at)
      BY <3>3
    <3>5. flat[i] = flat[k] \o seqs[k+1]
      BY <2>3, <2>6, <2>8, <3>1, <3>2
    <3>6. \A j \in 1..k+1 : seqs[j] \in Seq(S)
      BY <2>6, <3>2
    <3>7. flat[k] \in Seq(S) /\ flat[i] \in Seq(S)
      <4>1. flat[k] \in Seq(S) /\ seqs[k+1] \in Seq(S)
        BY <3>2, <3>3, <3>6
      <4> QED
        BY <3>5, <4>1, ConcatProperties
    <3>8. \E at2 \in [1..k+1 -> Nat] :
              Places(flat[k] \o seqs[k+1], seqs, k + 1, at2)
      BY <3>2, <3>4, <3>6, <3>7, PlaceOne
    <3> QED
      BY <2>6, <3>2, <3>5, <3>7, <3>8
  <2> QED
    BY <2>7, <2>8
<1> QED
  BY <1>2, <1>3

-----------------------------------------------------------------------------
(* What the operators of EndpointStatus return *)

IsList(s) == s \in Seq(ToSet(s))

\* The fields of an entry.
IsEntry(e) ==
    e = [service |-> e.service, weight |-> e.weight, ips |-> e.ips]

\* A status is a list of entries, and the pairs of an entry are a list.
IsStatus(st) ==
    IsList(st) /\ \A i \in DOMAIN st : IsEntry(st[i]) /\ IsList(st[i].ips)

\* A sequence over any set is a list, with its positions for domain.
LEMMA ListOf ==
    ASSUME NEW S, NEW s \in Seq(S)
    PROVE  IsList(s) /\ Len(s) \in Nat /\ DOMAIN s = 1..Len(s)
<1>1. Len(s) \in Nat /\ DOMAIN s = 1..Len(s) /\ s \in [1..Len(s) -> S]
  BY LenProperties
<1>2. s \in [1..Len(s) -> ToSet(s)]
  BY <1>1 DEF ToSet
<1> QED
  BY <1>1, <1>2 DEF IsList

\* So is a function on an interval.
LEMMA ListOn ==
    ASSUME NEW n \in Nat, NEW s, s = [i \in 1..n |-> s[i]]
    PROVE  IsList(s) /\ Len(s) = n /\ DOMAIN s = 1..n
<1>1. s \in [1..n -> ToSet(s)]
  BY DEF ToSet
<1>2. s \in Seq(ToSet(s)) /\ Len(s) = n /\ DOMAIN s = 1..n
  BY <1>1
<1> QED
  BY <1>2 DEF IsList

\* The addresses of all subsets are a list.
LEMMA AddressesType ==
    ASSUME NEW e \in Endpoints
    PROVE  IsList(AllAddresses(e.subsets))
<1>1. PICK subsets : subsets = e.subsets
  OBVIOUS
<1>2. /\ IsList(subsets)
      /\ \A i \in DOMAIN subsets : IsList(subsets[i].addresses)
  <2>1. CASE e \in [exists : {TRUE}, subsets : SubsetLists]
    BY <1>1, <2>1, ConfigAssumption DEF IsList
  <2>2. CASE e = Absent
    <3>1. subsets = <<>> /\ <<>> \in Seq({}) /\ Len(<<>>) = 0
      BY <1>1, <2>2, EmptySeq DEF Absent
    <3>2. IsList(subsets) /\ DOMAIN subsets = 1..0
      BY <3>1, ListOf
    <3> QED
      BY <3>2
  <2> QED
    BY <2>1, <2>2 DEF Endpoints
<1>3. Len(subsets) \in Nat /\ DOMAIN subsets = 1..Len(subsets)
  BY <1>2, ListOf DEF IsList
<1> DEFINE S == UNION {ToSet(subsets[i].addresses) : i \in DOMAIN subsets}
<1>4. \A i \in DOMAIN subsets : subsets[i].addresses \in Seq(S)
  <2> TAKE i \in DOMAIN subsets
  <2>1. ToSet(subsets[i].addresses) \subseteq S
    OBVIOUS
  <2>2. subsets[i].addresses \in Seq(ToSet(subsets[i].addresses))
    BY <1>2 DEF IsList
  <2> HIDE DEF S
  <2> QED
    BY <2>1, <2>2, SeqMonotonic
<1> HIDE DEF S
<1>5. PICK seqs : seqs = [i \in DOMAIN subsets |-> subsets[i].addresses]
  OBVIOUS
<1>6. seqs \in [1..Len(subsets) -> Seq(S)]
  BY <1>3, <1>4, <1>5
<1>7. FlattenSeq(seqs) \in Seq(S)
  BY <1>3, <1>6, FlattenPlaces
<1>8. AllAddresses(e.subsets) = FlattenSeq(seqs)
  BY <1>1, <1>5 DEF AllAddresses
<1> QED
  BY <1>7, <1>8, ListOf

\* buildExpectedEndpointStatus returns an entry for each route, with the pair
\* of each address.
LEMMA BuildReturns ==
    ASSUME NEW r \in RouteLists, NEW e \in [Services -> Endpoints],
           NEW st, st = buildExpectedEndpointStatus(r, e)
    PROVE  /\ IsStatus(st) /\ DOMAIN st = DOMAIN r /\ Len(st) \in Nat
           /\ DOMAIN st = 1..Len(st)
           /\ \A i \in DOMAIN r :
                 /\ st[i].service = r[i].service /\ st[i].weight = r[i].weight
                 /\ \A a \in ToSet(AllAddresses(e[r[i].service].subsets)) :
                       \E p \in 1..Len(st[i].ips) : st[i].ips[p][1] = a
<1>1. IsList(r) /\ Len(r) \in Nat /\ DOMAIN r = 1..Len(r)
  BY ConfigAssumption, ListOf DEF IsList
<1>2. st = [i \in 1..Len(r) |-> Resolve(r[i], e)]
  BY <1>1 DEF buildExpectedEndpointStatus
<1>3. st = [i \in 1..Len(r) |-> st[i]]
  BY <1>2
<1>4. IsList(st) /\ Len(st) = Len(r) /\ DOMAIN st = 1..Len(r)
  BY <1>1, <1>3, ListOn
<1>5. ASSUME NEW i \in DOMAIN r
      PROVE  /\ st[i].service = r[i].service /\ st[i].weight = r[i].weight
             /\ IsEntry(st[i]) /\ IsList(st[i].ips)
             /\ \A a \in ToSet(AllAddresses(e[r[i].service].subsets)) :
                   \E p \in 1..Len(st[i].ips) : st[i].ips[p][1] = a
  <2>1. PICK addrs : addrs = AllAddresses(e[r[i].service].subsets)
    OBVIOUS
  <2>2. e[r[i].service] \in Endpoints
    BY ConfigAssumption
  <2>3. IsList(addrs) /\ Len(addrs) \in Nat /\ DOMAIN addrs = 1..Len(addrs)
    BY <2>1, <2>2, AddressesType, ListOf DEF IsList
  <2>4. PICK port :
           /\ IsEntry(st[i])
           /\ st[i].service = r[i].service /\ st[i].weight = r[i].weight
           /\ st[i].ips = [j \in DOMAIN addrs |-> <<addrs[j], port>>]
    <3>1. st[i] = Resolve(r[i], e)
      BY <1>1, <1>2
    <3>2. PICK port :
            port = verifyEndpointPortExist(e[r[i].service].subsets, r[i].port)
      OBVIOUS
    <3>3. st[i] = [service |-> r[i].service, weight |-> r[i].weight,
                   ips |-> [j \in DOMAIN addrs |-> <<addrs[j], port>>]]
      BY <2>1, <3>1, <3>2 DEF Resolve
    <3> QED
      BY <3>3 DEF IsEntry
  <2>5. st[i].ips = [j \in 1..Len(addrs) |-> st[i].ips[j]]
    BY <2>3, <2>4
  <2>6. IsList(st[i].ips) /\ Len(st[i].ips) = Len(addrs)
    BY <2>3, <2>5, ListOn
  <2>7. ASSUME NEW a \in ToSet(addrs)
        PROVE  \E p \in 1..Len(st[i].ips) : st[i].ips[p][1] = a
    <3>1. PICK p \in 1..Len(addrs) : addrs[p] = a
      BY <2>3 DEF ToSet
    <3>2. st[i].ips[p] = <<a, port>>
      BY <2>3, <2>4, <3>1
    <3> QED
      BY <2>6, <3>1, <3>2
  <2> QED
    BY <2>1, <2>4, <2>6, <2>7
<1> QED
  BY <1>1, <1>4, <1>5 DEF IsStatus

\* The lines of entry st[i] are those after the first at[i].
LinesAt(lines, st, at) ==
    /\ \A i \in 1..Len(st) : \A p \in 1..Len(st[i].ips) :
          /\ at[i] + p \in 1..Len(lines)
          /\ lines[at[i] + p] = ServersOf(st[i])[p]
    /\ \A q \in 1..Len(lines) :
          \E i \in 1..Len(st) : \E p \in 1..Len(st[i].ips) : q = at[i] + p

\* newHAProxyController returns one line for each pair of each entry.
LEMMA LinesOf ==
    ASSUME NEW st, IsStatus(st), NEW lines, lines = newHAProxyController(st)
    PROVE  /\ DOMAIN lines = 1..Len(lines)
           /\ \E at \in [1..Len(st) -> Nat] : LinesAt(lines, st, at)
<1>1. Len(st) \in Nat /\ DOMAIN st = 1..Len(st)
  BY ListOf DEF IsStatus, IsList
<1>2. PICK seqs : seqs = [i \in DOMAIN st |-> ServersOf(st[i])]
  OBVIOUS
<1>3. \A i \in 1..Len(st) :
         /\ seqs[i] = ServersOf(st[i]) /\ IsList(seqs[i])
         /\ Len(seqs[i]) = Len(st[i].ips)
  <2> TAKE i \in 1..Len(st)
  <2>1. Len(st[i].ips) \in Nat /\ DOMAIN st[i].ips = 1..Len(st[i].ips)
    BY <1>1, ListOf DEF IsStatus, IsList
  <2>2. seqs[i] = ServersOf(st[i])
    BY <1>1, <1>2
  <2>3. seqs[i] = [j \in 1..Len(st[i].ips) |-> seqs[i][j]]
    BY <2>1, <2>2 DEF ServersOf
  <2> QED
    BY <2>1, <2>2, <2>3, ListOn
<1> DEFINE S == UNION {ToSet(seqs[i]) : i \in 1..Len(st)}
<1>4. \A i \in 1..Len(st) : seqs[i] \in Seq(S)
  <2> TAKE i \in 1..Len(st)
  <2>1. ToSet(seqs[i]) \subseteq S
    OBVIOUS
  <2>2. seqs[i] \in Seq(ToSet(seqs[i]))
    BY <1>3 DEF IsList
  <2> HIDE DEF S
  <2> QED
    BY <2>1, <2>2, SeqMonotonic
<1> HIDE DEF S
<1>5. seqs \in [1..Len(st) -> Seq(S)]
  BY <1>1, <1>2, <1>4
<1>6. lines = FlattenSeq(seqs)
  BY <1>2 DEF newHAProxyController
<1>7. lines \in Seq(S) /\ \E at \in [1..Len(st) -> Nat] :
                              Places(lines, seqs, Len(st), at)
  BY <1>1, <1>5, <1>6, FlattenPlaces
<1>8. PICK at \in [1..Len(st) -> Nat] : Places(lines, seqs, Len(st), at)
  BY <1>7
<1>9. DOMAIN lines = 1..Len(lines)
  BY <1>7, ListOf
<1>10. \A i \in 1..Len(st) : \A p \in 1..Len(st[i].ips) :
          /\ at[i] + p \in 1..Len(lines)
          /\ lines[at[i] + p] = ServersOf(st[i])[p]
  <2> TAKE i \in 1..Len(st)
  <2> TAKE p \in 1..Len(st[i].ips)
  <2>1. p \in 1..Len(seqs[i]) /\ seqs[i] = ServersOf(st[i])
    BY <1>3
  <2> QED
    BY <1>8, <2>1 DEF Places
<1>11. ASSUME NEW q \in 1..Len(lines)
       PROVE  \E i \in 1..Len(st) : \E p \in 1..Len(st[i].ips) : q = at[i] + p
  <2>1. PICK i \in 1..Len(st) : \E p \in 1..Len(seqs[i]) : q = at[i] + p
    BY <1>8 DEF Places
  <2>2. Len(seqs[i]) = Len(st[i].ips)
    BY <1>3
  <2> QED
    BY <2>1, <2>2
<1>12. LinesAt(lines, st, at)
  BY <1>10, <1>11 DEF LinesAt
<1> QED
  BY <1>9, <1>12

\* A status compares as equal to itself.
LEMMA EqualToItself ==
    ASSUME NEW st, IsStatus(st)
    PROVE  deepEqualEndpointStatusList(st, st)
<1>1. DOMAIN st = 1..Len(st)
  BY ListOf DEF IsStatus, IsList
<1>2. ASSUME NEW i \in DOMAIN st PROVE deepEqualEndpointStatus(st[i], st[i])
  <2>1. DOMAIN st[i].ips = 1..Len(st[i].ips)
    BY ListOf DEF IsStatus, IsList
  <2> QED
    BY <2>1 DEF deepEqualEndpointStatus, Contains
<1> QED
  BY <1>2 DEF deepEqualEndpointStatusList, hasEndpointStatus

-----------------------------------------------------------------------------
(* The invariants *)

\* A status is one that was built, and after a reconciliation it compares as
\* equal to what is to be expected now.
SettledInv ==
    /\ IsStatus(status)
    /\ settled => deepEqualEndpointStatusList(
                      buildExpectedEndpointStatus(routes, eps), status)

\* No status, no lines.
LEMMA NothingBuilt ==
    IsStatus(<<>>) /\ newHAProxyController(<<>>) = <<>>
<1>1. <<>> \in Seq({}) /\ Len(<<>>) = 0
  BY EmptySeq
<1>2. IsList(<<>>) /\ DOMAIN <<>> = 1..0
  BY <1>1, ListOf
<1>3. IsStatus(<<>>)
  BY <1>2 DEF IsStatus
<1>4. PICK seqs : seqs = [i \in DOMAIN <<>> |-> ServersOf(<<>>[i])]
  OBVIOUS
<1>5. seqs = <<>>
  BY <1>2, <1>4
<1>6. newHAProxyController(<<>>) = FlattenSeq(seqs)
  BY <1>4 DEF newHAProxyController
<1>7. FlattenSeq(<<>>) = <<>>
  BY <1>1 DEF FlattenSeq
<1> QED
  BY <1>3, <1>5, <1>6, <1>7

\* The lines are written with the status they belong to.
LEMMA ConfigTypeStep == TypeOK /\ [Next]_vars => TypeOK'
<1> SUFFICES ASSUME TypeOK, [Next]_vars PROVE TypeOK'
  OBVIOUS
<1>1. CASE EditRoutes
  BY <1>1 DEF TypeOK, EditRoutes
<1>2. ASSUME NEW s \in Services, ChangeEndpoints(s) PROVE TypeOK'
  <2>1. PICK e \in Endpoints : eps' = [eps EXCEPT ![s] = e]
    BY <1>2 DEF ChangeEndpoints
  <2> QED
    BY <1>2, <2>1 DEF TypeOK, ChangeEndpoints
<1>3. CASE Reconcile
  BY <1>3 DEF TypeOK, Reconcile
<1>4. CASE UNCHANGED vars
  BY <1>4 DEF TypeOK, vars
<1> QED
  BY <1>1, <1>2, <1>3, <1>4 DEF Next

\* Spec => []TypeOK: the lines always belong to the recorded status, because
\* syncKanary writes both or neither.
THEOREM ConfigTypeCorrect == Spec => []TypeOK
<1>1. Init => TypeOK
  BY NothingBuilt DEF Init, TypeOK, Endpoints
<1> QED
  BY <1>1, ConfigTypeStep, PTL DEF Spec

\* A change unsettles; a reconciliation leaves what it expected, or what
\* compares as equal to it.
LEMMA SettledStep == TypeOK /\ SettledInv /\ [Next]_vars => SettledInv'
<1> SUFFICES ASSUME TypeOK, SettledInv, [Next]_vars PROVE SettledInv'
  OBVIOUS
<1>1. CASE EditRoutes
  BY <1>1 DEF SettledInv, EditRoutes
<1>2. ASSUME NEW s \in Services, ChangeEndpoints(s) PROVE SettledInv'
  BY <1>2 DEF SettledInv, ChangeEndpoints
<1>3. CASE Reconcile
  <2>1. PICK expected : expected = buildExpectedEndpointStatus(routes, eps)
    OBVIOUS
  <2>2. IsStatus(expected)
    BY <2>1, BuildReturns DEF TypeOK
  <2>3. /\ UNCHANGED <<routes, eps>>
        /\ \/ deepEqualEndpointStatusList(expected, status) /\ status' = status
           \/ status' = expected
    BY <1>3, <2>1 DEF Reconcile
  <2>4. IsStatus(status') /\ deepEqualEndpointStatusList(expected, status')
    BY <2>2, <2>3, EqualToItself DEF SettledInv
  <2> QED
    BY <2>1, <2>3, <2>4 DEF SettledInv
<1>4. CASE UNCHANGED vars
  BY <1>4 DEF SettledInv, vars
<1> QED
  BY <1>1, <1>2, <1>3, <1>4 DEF Next

\* Spec => [](TypeOK /\ SettledInv).
LEMMA SettledInvariant == Spec => [](TypeOK /\ SettledInv)
<1>1. Init => SettledInv
  BY NothingBuilt DEF Init, SettledInv
<1> QED
  BY <1>1, ConfigTypeCorrect, SettledStep, PTL DEF Spec

\* When the comparison finds nothing to do, each route has an entry with its
\* service and weight that has all the pairs expected now.
LEMMA EntryOf ==
    ASSUME TypeOK, SettledInv, settled, NEW expected,
           expected = buildExpectedEndpointStatus(routes, eps)
    PROVE  /\ DOMAIN routes = 1..Len(status) /\ Len(status) \in Nat
           /\ \A i \in DOMAIN routes :
                 \E k \in 1..Len(status) :
                    /\ status[k].service = routes[i].service
                    /\ status[k].weight = routes[i].weight
                    /\ \A p \in 1..Len(expected[i].ips) :
                          \E m \in 1..Len(status[k].ips) :
                              status[k].ips[m] = expected[i].ips[p]
<1>1. /\ IsStatus(expected) /\ DOMAIN expected = DOMAIN routes
      /\ DOMAIN expected = 1..Len(expected)
      /\ \A i \in DOMAIN routes :
            /\ expected[i].service = routes[i].service
            /\ expected[i].weight = routes[i].weight
  BY BuildReturns DEF TypeOK
<1>2. deepEqualEndpointStatusList(expected, status)
  BY DEF SettledInv
<1>3. IsStatus(status) /\ DOMAIN status = 1..Len(status) /\ Len(status) \in Nat
  BY ListOf DEF SettledInv, IsStatus, IsList
<1>4. Len(expected) = Len(status)
  BY <1>2 DEF deepEqualEndpointStatusList
<1>5. ASSUME NEW i \in DOMAIN routes
      PROVE  \E k \in 1..Len(status) :
                /\ status[k].service = routes[i].service
                /\ status[k].weight = routes[i].weight
                /\ \A p \in 1..Len(expected[i].ips) :
                      \E m \in 1..Len(status[k].ips) :
                          status[k].ips[m] = expected[i].ips[p]
  <2>1. PICK k \in 1..Len(status) :
            deepEqualEndpointStatus(expected[i], status[k])
    BY <1>1, <1>2, <1>3 DEF deepEqualEndpointStatusList, hasEndpointStatus
  <2>2. DOMAIN expected[i].ips = 1..Len(expected[i].ips)
    BY <1>1, ListOf DEF IsStatus, IsList
  <2>3. /\ status[k].service = routes[i].service
        /\ status[k].weight = routes[i].weight
    BY <1>1, <2>1 DEF deepEqualEndpointStatus
  <2>4. \A p \in 1..Len(expected[i].ips) :
            \E m \in 1..Len(status[k].ips) : status[k].ips[m] = expected[i].ips[p]
    BY <2>1, <2>2 DEF deepEqualEndpointStatus, Contains
  <2> QED
    BY <2>3, <2>4
<1> QED
  BY <1>1, <1>3, <1>4, <1>5

\* The entry of a route has a pair, hence a line, for each of its ready pods.
LEMMA SettledServes == TypeOK /\ SettledInv => EveryReadyPodIsServed
<1> SUFFICES ASSUME TypeOK, SettledInv, settled, NEW i \in DOMAIN routes,
                    NEW a \in ToSet(AllAddresses(eps[routes[i].service].subsets))
             PROVE  \E server \in ToSet(servers) :
                       /\ server.name[1] = routes[i].service
                       /\ server.ip[1] = a
  BY DEF EveryReadyPodIsServed
<1>1. PICK expected : expected = buildExpectedEndpointStatus(routes, eps)
  OBVIOUS
<1>2. PICK p \in 1..Len(expected[i].ips) : expected[i].ips[p][1] = a
  <2>1. routes \in RouteLists /\ eps \in [Services -> Endpoints]
    BY DEF TypeOK
  <2>2. \A j \in DOMAIN routes :
           \A b \in ToSet(AllAddresses(eps[routes[j].service].subsets)) :
              \E p \in 1..Len(expected[j].ips) : expected[j].ips[p][1] = b
    BY <1>1, <2>1, BuildReturns
  <2> QED
    BY <2>2
<1>3. PICK k \in 1..Len(status) :
        /\ status[k].service = routes[i].service
        /\ \A q \in 1..Len(expected[i].ips) :
              \E m \in 1..Len(status[k].ips) :
                  status[k].ips[m] = expected[i].ips[q]
  BY <1>1, EntryOf
<1>4. PICK m \in 1..Len(status[k].ips) : status[k].ips[m] = expected[i].ips[p]
  BY <1>2, <1>3
<1>5. IsStatus(status) /\ DOMAIN status = 1..Len(status)
  BY ListOf DEF SettledInv, IsStatus, IsList
<1>6. DOMAIN status[k].ips = 1..Len(status[k].ips)
  BY <1>5, ListOf DEF IsStatus, IsList
<1>7. PICK server : server = ServersOf(status[k])[m]
  OBVIOUS
<1>8. server \in ToSet(servers)
  <2>1. servers = newHAProxyController(status)
    BY DEF TypeOK
  <2>2. DOMAIN servers = 1..Len(servers)
    BY <1>5, <2>1, LinesOf
  <2>3. PICK at \in [1..Len(status) -> Nat] : LinesAt(servers, status, at)
    BY <1>5, <2>1, LinesOf
  <2>4. at[k] + m \in DOMAIN servers /\ servers[at[k] + m] = server
    BY <1>7, <2>2, <2>3 DEF LinesAt
  <2> QED
    BY <2>4 DEF ToSet
<1>9. server.name[1] = routes[i].service /\ server.ip[1] = a
  BY <1>2, <1>3, <1>4, <1>6, <1>7 DEF ServersOf
<1> QED
  BY <1>8, <1>9

\* Spec => []EveryReadyPodIsServed: whatever the lengths of the lists, a
\* reconciliation of syncKanary leaves no ready pod without a server.
THEOREM ReadyPodsAreServed == Spec => []EveryReadyPodIsServed
  BY SettledServes, SettledInvariant, PTL

-----------------------------------------------------------------------------
(* The division of a weight *)

\* The next power of two: a set with one element more has twice as many
\* subsets.
LEMMA PowerDoubles ==
    ASSUME NEW n \in Nat
    PROVE  2^n \in Nat /\ 2^(n+1) = 2 * 2^n
<1>1. PICK S, x : S = 1..n /\ x = n + 1
  OBVIOUS
<1>2. PICK A, B, C : /\ A = SUBSET S /\ C = SUBSET (S \cup {x})
                     /\ B = {T \cup {x} : T \in A}
  OBVIOUS
<1>3. IsFiniteSet(S) /\ Cardinality(S) = n
  BY <1>1, FS_Interval
<1>4. x \notin S
  BY <1>1
<1>5. IsFiniteSet(S \cup {x}) /\ Cardinality(S \cup {x}) = n + 1
  BY <1>3, <1>4, FS_AddElement
<1>6. /\ IsFiniteSet(A) /\ Cardinality(A) = 2^n
      /\ Cardinality(C) = 2^(n+1)
  BY <1>2, <1>3, <1>5, FS_SUBSET
<1>7. IsFiniteSet(B) /\ Cardinality(B) = Cardinality(A)
  <2>1. PICK f : f = [T \in A |-> T \cup {x}]
    OBVIOUS
  <2>2. f \in Bijection(A, B)
    <3>1. f \in [A -> B] /\ \A T \in A : f[T] = T \cup {x}
      BY <1>2, <2>1
    <3>2. \A T, U \in A : f[T] = f[U] => T = U
      <4> TAKE T, U \in A
      <4> HAVE f[T] = f[U]
      <4>1. T \cup {x} = U \cup {x} /\ x \notin T /\ x \notin U
        BY <1>2, <1>4, <3>1
      <4> QED
        BY <4>1
    <3>3. \A y \in B : \E T \in A : f[T] = y
      BY <1>2, <3>1
    <3> QED
      BY <3>1, <3>2, <3>3 DEF Bijection, Injection, Surjection, IsInjective
  <2> QED
    BY <1>6, <2>2, FS_Bijection DEF ExistsBijection
<1>8. C = A \cup B
  <2>1. ASSUME NEW U \in C PROVE U \in A \cup B
    <3>1. CASE x \in U
      <4>1. U \ {x} \in A /\ U = (U \ {x}) \cup {x}
        BY <1>2, <2>1, <3>1
      <4> QED
        BY <1>2, <4>1
    <3> QED
      BY <1>2, <2>1, <3>1
  <2>2. ASSUME NEW U \in A \cup B PROVE U \in C
    BY <1>2, <2>2
  <2> QED
    BY <2>1, <2>2
<1>9. A \cap B = {}
  BY <1>2, <1>4
<1>10. Cardinality(C) = Cardinality(A) + Cardinality(B) - Cardinality({})
  BY <1>6, <1>7, <1>8, <1>9, FS_Union
<1>11. Cardinality(A) \in Nat /\ Cardinality({}) = 0
  BY <1>6, FS_CardinalityType, FS_EmptySet
<1> QED
  BY <1>6, <1>7, <1>10, <1>11

\* Exact is a power of two.
LEMMA ExactIsPower == Exact \in Nat \ {0} /\ Exact = 2 * 2^23
BY SMT DEF Exact

\* 2^(23 + n) is large enough for n pods.
LEMMA PowerIsLarge ==
    ASSUME NEW n \in Nat
    PROVE  2 * 2^(23 + n) >= Exact * (n + 1)
<1> DEFINE Large(k) == 2 * 2^(23 + k) >= Exact * (k + 1)
<1> DEFINE B == {k \in Nat : ~ Large(k)}
<1> SUFFICES ASSUME B # {} PROVE FALSE
  OBVIOUS
<1>1. PICK k \in B : \A j \in B : k =< j
  <2>1. B \in SUBSET Nat
    OBVIOUS
  <2> HIDE DEF B
  <2> QED
    BY <2>1, Least
<1>2. CASE k = 0
  <2>1. PICK p : p = 2^23
    OBVIOUS
  <2>2. 23 + 0 = 23 /\ Exact * (0 + 1) = Exact
    BY ExactIsPower
  <2>3. 2 * p >= Exact
    BY <2>1, ExactIsPower
  <2>4. Large(0)
    BY <2>1, <2>2, <2>3
  <2> QED
    BY <1>1, <1>2, <2>4
<1>3. CASE k # 0
  <2>1. PICK j : j = k - 1
    OBVIOUS
  <2>2. j \in Nat /\ ~(k =< j) /\ k = j + 1
    BY <1>1, <1>3, <2>1
  <2>3. Large(j)
    <3>1. j \notin B
      BY <1>1, <2>2
    <3> HIDE DEF Large
    <3> QED
      BY <2>2, <3>1
  <2>4. PICK p, q : p = 2^(23 + j) /\ q = 2^(23 + k)
    OBVIOUS
  <2>5. p \in Nat /\ q = 2 * p
    <3>1. 23 + j \in Nat /\ 23 + k = (23 + j) + 1
      BY <2>2
    <3>2. 2^(23 + j) \in Nat /\ 2^((23 + j) + 1) = 2 * 2^(23 + j)
      BY <3>1, PowerDoubles
    <3> QED
      BY <2>4, <3>1, <3>2
  <2>6. PICK y : y = Exact * (j + 1)
    OBVIOUS
  <2>7. 2 * p >= y
    BY <2>3, <2>4, <2>6
  <2>8. /\ y \in Nat /\ y >= Exact /\ Exact * (k + 1) = y + Exact
    BY <2>2, <2>6, ExactIsPower
  <2>9. 2 * q >= y + Exact
    BY <2>5, <2>7, <2>8, ExactIsPower
  <2>10. Large(k)
    BY <2>4, <2>8, <2>9
  <2> QED
    BY <1>1, <2>10
<1> QED
  BY <1>2, <1>3

\* A weight that is not zero, divided, has a scale.
LEMMA ScaleExists ==
    ASSUME NEW a \in Int, a # 0, Magnitude(a) < Exact, NEW b \in Nat \ {0}
    PROVE  \E s \in 0..23 + b : Scales(a, b, s)
<1>1. PICK w, n : w = Magnitude(a) /\ n = Exact * b
  OBVIOUS
<1>2. w \in Nat \ {0} /\ n \in Nat /\ w < n
  <2>1. w \in Nat \ {0} /\ w < Exact
    BY <1>1 DEF Magnitude
  <2>2. Exact * b \in Nat /\ Exact =< Exact * b
    BY ExactIsPower
  <2> QED
    BY <1>1, <2>1, <2>2, ExactIsPower
<1> DEFINE B == {s \in Nat : n =< 2 * w * 2^s}
<1>3. 23 + b \in B
  <2>1. PICK p : p = 2^(23 + b)
    OBVIOUS
  <2>2. 2 * p >= n /\ p \in Nat
    <3>1. 23 + b \in Nat
      OBVIOUS
    <3>2. p \in Nat
      BY <2>1, <3>1, PowerDoubles
    <3>3. 2 * p >= Exact * (b + 1)
      BY <2>1, PowerIsLarge
    <3>4. Exact * (b + 1) = n + Exact
      BY <1>1, ExactIsPower
    <3> QED
      BY <1>2, <3>2, <3>3, <3>4, ExactIsPower
  <2>3. p =< w * p /\ w * p \in Nat /\ 2 * w * p = 2 * (w * p)
    BY <1>2, <2>2
  <2>4. n =< 2 * w * p
    BY <1>2, <2>2, <2>3
  <2> QED
    BY <2>1, <2>4
<1>4. PICK s \in B : \A t \in B : s =< t
  <2>1. B \in SUBSET Nat /\ B # {}
    BY <1>3
  <2> HIDE DEF B
  <2> QED
    BY <2>1, Least
<1>5. PICK p : p = 2^s
  OBVIOUS
<1>6. p \in Nat /\ s \in 0..23 + b /\ n =< 2 * w * p
  <2>1. s =< 23 + b
    BY <1>3, <1>4
  <2>2. s \in Nat /\ n =< 2 * w * 2^s
    BY <1>4
  <2>3. 2^s \in Nat
    BY <2>2, PowerDoubles
  <2> QED
    BY <1>5, <2>1, <2>2, <2>3
<1>7. w * p < n
  <2>1. CASE s = 0
    <3>1. 2^0 = 1
      OBVIOUS
    <3>2. p = 1
      BY <1>5, <2>1, <3>1
    <3> QED
      BY <1>2, <3>2
  <2>2. CASE s # 0
    <3>1. PICK t : t = s - 1
      OBVIOUS
    <3>2. t \in Nat /\ s = t + 1 /\ ~(s =< t)
      BY <1>6, <2>2, <3>1
    <3>3. PICK q : q = 2^t
      OBVIOUS
    <3>4. q \in Nat /\ p = 2 * q
      BY <1>5, <3>2, <3>3, PowerDoubles
    <3>5. ~(n =< 2 * w * q)
      <4>1. t \notin B
        BY <1>4, <3>2
      <4> QED
        BY <3>2, <3>3, <4>1
    <3>6. w * p = 2 * w * q /\ 2 * w * q \in Int
      BY <1>2, <3>4
    <3> QED
      BY <1>2, <3>5, <3>6
  <2> QED
    BY <2>1, <2>2
<1> QED
  BY <1>1, <1>5, <1>6, <1>7 DEF Scales

\* Rounding moves a number by a half at most.
LEMMA NearestIsNear ==
    ASSUME NEW a \in Int, NEW b \in Nat \ {0}
    PROVE  /\ NearestInt(a, b) \in Int
           /\ 2 * Magnitude(b * NearestInt(a, b) - a) =< b
<1>1. PICK below, rest : below = a \div b /\ rest = a % b
  OBVIOUS
<1>2. /\ below \in Int /\ rest \in Int /\ 0 =< rest /\ rest < b
      /\ a = b * below + rest
  BY <1>1
<1>3. PICK nearest : nearest = NearestInt(a, b)
  OBVIOUS
<1>4. \/ nearest = below + 1 /\ 2 * rest >= b
      \/ nearest = below /\ 2 * rest =< b
  BY <1>1, <1>2, <1>3 DEF NearestInt
<1>5. PICK z : z = b * below
  OBVIOUS
<1>6. z \in Int /\ b * (below + 1) = z + b
  BY <1>2, <1>5
<1>7. CASE nearest = below + 1 /\ 2 * rest >= b
  <2>1. b * nearest - a = b - rest
    BY <1>2, <1>5, <1>6, <1>7
  <2> QED
    BY <1>2, <1>3, <1>7, <2>1 DEF Magnitude
<1>8. CASE nearest = below /\ 2 * rest =< b
  <2>1. b * nearest - a = -rest
    BY <1>2, <1>5, <1>6, <1>8
  <2> QED
    BY <1>2, <1>3, <1>8, <2>1 DEF Magnitude
<1> QED
  BY <1>4, <1>7, <1>8

\* b times the float32 of a/b is a, but for one part in 2^24.
LEMMA QuotientIsNear ==
    ASSUME NEW a \in Int, Magnitude(a) < Exact, NEW b \in Nat \ {0},
           NEW f, f = Float32(a, b)
    PROVE  /\ f.num \in Int /\ f.den \in Int
           /\ Magnitude(b * f.num - a * f.den)
                =< (Magnitude(a) * f.den) \div Exact
<1>1. CASE a = 0
  <2>1. f.num = 0 /\ f.den = 1
    BY <1>1 DEF Float32
  <2>2. Magnitude(0) = 0 /\ b * 0 - 0 * 1 = 0 /\ 0 * 1 = 0
    BY DEF Magnitude
  <2>3. 0 \div Exact = 0
    BY ExactIsPower
  <2> QED
    BY <1>1, <2>1, <2>2, <2>3
<1>2. CASE a # 0
  <2>1. PICK s \in 0..23 + b :
           /\ Scales(a, b, s)
           /\ f = [num |-> NearestInt(a * 2^s, b), den |-> 2^s]
    <3>1. PICK s : s = CHOOSE t \in 0..23 + b : Scales(a, b, t)
      OBVIOUS
    <3>2. s \in 0..23 + b /\ Scales(a, b, s)
      BY <1>2, <3>1, ScaleExists
    <3>3. f = [num |-> NearestInt(a * 2^s, b), den |-> 2^s]
      BY <1>2, <3>1 DEF Float32
    <3> QED
      BY <3>2, <3>3
  <2>2. PICK p, w, x : p = 2^s /\ w = Magnitude(a) /\ x = a * p
    OBVIOUS
  <2>3. p \in Nat
    BY <2>2, PowerDoubles
  <2>4. w \in Nat /\ x \in Int
    BY <2>2, <2>3 DEF Magnitude
  <2>5. PICK y : y = w * p
    OBVIOUS
  <2>6. y \in Int /\ Exact * b =< 2 * y
    <3>1. Exact * b =< 2 * w * p
      BY <2>1, <2>2 DEF Scales
    <3>2. 2 * w * p = 2 * (w * p)
      BY <2>3, <2>4
    <3> QED
      BY <2>3, <2>4, <2>5, <3>1, <3>2
  <2>7. PICK m : m = NearestInt(x, b)
    OBVIOUS
  <2>8. m \in Int /\ 2 * Magnitude(b * m - x) =< b
    BY <2>4, <2>7, NearestIsNear
  <2>9. PICK e : e = Magnitude(b * m - x)
    OBVIOUS
  <2>10. e \in Nat /\ 2 * e =< b
    <3>1. b * m - x \in Int
      BY <2>4, <2>8
    <3> QED
      BY <2>8, <2>9, <3>1 DEF Magnitude
  <2>11. Exact * e =< y
    <3>1. Exact * (2 * e) =< Exact * b
      BY <2>10, ExactIsPower
    <3>2. Exact * (2 * e) = 2 * (Exact * e) /\ Exact * e \in Int /\ Exact * b \in Int
      BY <2>10, ExactIsPower
    <3> QED
      BY <2>6, <3>1, <3>2
  <2>12. e =< y \div Exact
    BY <2>6, <2>10, <2>11, ExactIsPower
  <2>13. f.num = m /\ f.den = p
    BY <2>1, <2>2, <2>7
  <2>14. /\ Magnitude(b * f.num - a * f.den) = e
         /\ (Magnitude(a) * f.den) \div Exact = y \div Exact
    BY <2>2, <2>5, <2>9, <2>13
  <2> QED
    BY <2>3, <2>8, <2>12, <2>13, <2>14
<1> QED
  BY <1>1, <1>2

-----------------------------------------------------------------------------
(* The weights of the lines of a service *)

\* The sum RouteWeightIsShared is about, and the recursion that defines it.
SumOf(f, T) == MapThenSumSet(LAMBDA l : f[l].weight.num, T)

Sums(sum, f, T) ==
    sum = [s \in SUBSET T |->
             IF s = {} THEN 0
             ELSE LET x == CHOOSE x \in s : TRUE
                  IN  f[x].weight.num + sum[s \ {x}]]

\* Lines of one weight weigh that much each.
LEMMA SumOfEqual ==
    ASSUME NEW T, IsFiniteSet(T), NEW c \in Int, NEW f,
           \A l \in T : f[l].weight.num = c
    PROVE  SumOf(f, T) = Cardinality(T) * c
<1> DEFINE sum == CHOOSE sum : Sums(sum, f, T)
<1>1. SumOf(f, T) = sum[T]
  BY DEF SumOf, MapThenSumSet, MapThenFoldSet, Sums
<1>2. \A s \in SUBSET T : IsFiniteSet(s) /\ Cardinality(s) \in Nat
  BY FS_Subset, FS_CardinalityType
<1>3. \A s \in SUBSET T : s # {} =>
         LET x == CHOOSE x \in s : TRUE
         IN  /\ x \in s /\ s \ {x} \in SUBSET T
             /\ Cardinality(s) = Cardinality(s \ {x}) + 1
  <2> TAKE s \in SUBSET T
  <2> HAVE s # {}
  <2>1. PICK x : x = CHOOSE y \in s : TRUE
    OBVIOUS
  <2>2. x \in s
    BY <2>1
  <2>3. Cardinality(s \ {x}) = Cardinality(s) - 1
    BY <1>2, <2>2, FS_RemoveElement
  <2>4. Cardinality(s) \in Nat
    BY <1>2
  <2> QED
    BY <2>1, <2>2, <2>3, <2>4
<1>4. \E g : Sums(g, f, T)
  <2>1. PICK g : g = [s \in SUBSET T |-> Cardinality(s) * c]
    OBVIOUS
  <2>2. \A s \in SUBSET T : g[s] =
           IF s = {} THEN 0
           ELSE LET x == CHOOSE x \in s : TRUE
                IN  f[x].weight.num + g[s \ {x}]
    <3> TAKE s \in SUBSET T
    <3>1. CASE s = {}
      BY <2>1, <3>1, FS_EmptySet
    <3>2. CASE s # {}
      <4>1. PICK x : x = CHOOSE y \in s : TRUE
        OBVIOUS
      <4>2. /\ x \in s /\ s \ {x} \in SUBSET T
            /\ Cardinality(s) = Cardinality(s \ {x}) + 1
        BY <1>3, <3>2, <4>1
      <4>3. f[x].weight.num = c
        BY <4>2
      <4>4. Cardinality(s \ {x}) \in Nat
        BY <1>2, <4>2
      <4>5. g[s] = Cardinality(s) * c /\ g[s \ {x}] = Cardinality(s \ {x}) * c
        BY <2>1, <4>2
      <4>6. \A n \in Nat : (n + 1) * c = c + n * c
        OBVIOUS
      <4>7. g[s] = f[x].weight.num + g[s \ {x}]
        BY <4>2, <4>3, <4>4, <4>5, <4>6
      <4> QED
        BY <3>2, <4>1, <4>7
    <3> QED
      BY <3>1, <3>2
  <2>3. g = [s \in SUBSET T |-> g[s]]
    BY <2>1
  <2>4. g = [s \in SUBSET T |->
               IF s = {} THEN 0
               ELSE LET x == CHOOSE x \in s : TRUE
                    IN  f[x].weight.num + g[s \ {x}]]
    BY <2>2, <2>3, Zenon
  <2> QED
    BY <2>4, Zenon DEF Sums
<1>5. Sums(sum, f, T)
  BY <1>4
<1> HIDE DEF sum
<1> DEFINE B == {n \in Nat : \E s \in SUBSET T :
                    Cardinality(s) = n /\ sum[s] # Cardinality(s) * c}
<1>6. B = {}
  <2> SUFFICES ASSUME B # {} PROVE FALSE
    OBVIOUS
  <2>1. PICK n \in B : \A m \in B : n =< m
    <3>1. B \in SUBSET Nat
      OBVIOUS
    <3> HIDE DEF B
    <3> QED
      BY <3>1, Least
  <2>2. PICK s \in SUBSET T :
          Cardinality(s) = n /\ sum[s] # Cardinality(s) * c
    BY <2>1
  <2>3. CASE s = {}
    <3>1. sum[s] = 0 /\ Cardinality(s) = 0
      BY <1>5, <2>3, FS_EmptySet DEF Sums
    <3> QED
      BY <2>2, <3>1
  <2>4. CASE s # {}
    <3>1. PICK x : x = CHOOSE y \in s : TRUE
      OBVIOUS
    <3>2. /\ x \in s /\ s \ {x} \in SUBSET T
          /\ Cardinality(s) = Cardinality(s \ {x}) + 1
      BY <1>3, <2>4, <3>1
    <3>3. Cardinality(s \ {x}) \in Nat
      BY <1>2, <3>2
    <3>4. sum[s] = c + sum[s \ {x}]
      <4>1. sum[s] = f[x].weight.num + sum[s \ {x}]
        BY <1>5, <2>4, <3>1 DEF Sums
      <4> QED
        BY <3>2, <4>1
    <3>5. Cardinality(s \ {x}) \notin B
      <4>1. ~(n =< Cardinality(s \ {x}))
        BY <2>2, <3>2, <3>3
      <4> HIDE DEF B
      <4> QED
        BY <2>1, <4>1
    <3>6. sum[s \ {x}] = Cardinality(s \ {x}) * c
      BY <3>2, <3>3, <3>5
    <3>7. \A m \in Nat : (m + 1) * c = c + m * c
      OBVIOUS
    <3> QED
      BY <2>2, <3>2, <3>3, <3>4, <3>6, <3>7
  <2> QED
    BY <2>3, <2>4
<1>7. sum[T] = Cardinality(T) * c
  <2>1. T \in SUBSET T /\ Cardinality(T) \in Nat
    BY <1>2
  <2> QED
    BY <1>6, <2>1
<1> QED
  BY <1>1, <1>7

\* n different positions of a list of length n are all of them.
LEMMA AllTaken ==
    ASSUME NEW n \in Nat, NEW h \in [1..n -> 1..n],
           \A i, j \in 1..n : h[i] = h[j] => i = j
    PROVE  \A k \in 1..n : \E i \in 1..n : h[i] = k
<1>1. IsFiniteSet(1..n)
  BY FS_Interval
<1>2. h \in Injection(1..n, 1..n)
  BY DEF Injection, IsInjective
<1>3. h \in Surjection(1..n, 1..n)
  BY <1>1, <1>2, FS_Injection
<1> QED
  BY <1>3 DEF Surjection

\* If no service has two routes, none has two entries: there are as many
\* entries as routes, and each route has one.
LEMMA EntryIsOnly ==
    ASSUME TypeOK, SettledInv, settled, DistinctServices,
           NEW i \in DOMAIN routes
    PROVE  \E k \in 1..Len(status) :
              /\ status[k].service = routes[i].service
              /\ status[k].weight = routes[i].weight
              /\ \A m \in 1..Len(status) :
                    status[m].service = routes[i].service => m = k
<1>1. PICK n : n = Len(status)
  OBVIOUS
<1>2. PICK expected : expected = buildExpectedEndpointStatus(routes, eps)
  OBVIOUS
<1>3. /\ n \in Nat /\ DOMAIN routes = 1..n
      /\ \A j \in 1..n : \E k \in 1..n :
            /\ status[k].service = routes[j].service
            /\ status[k].weight = routes[j].weight
  BY <1>1, <1>2, EntryOf
<1>4. PICK h : h = [j \in 1..n |-> CHOOSE k \in 1..n :
                       /\ status[k].service = routes[j].service
                       /\ status[k].weight = routes[j].weight]
  OBVIOUS
<1>5. \A j \in 1..n :
         /\ h[j] \in 1..n
         /\ status[h[j]].service = routes[j].service
         /\ status[h[j]].weight = routes[j].weight
  BY <1>3, <1>4
<1>6. h \in [1..n -> 1..n]
  BY <1>4, <1>5
<1>d. \A j, m \in 1..n : routes[j].service = routes[m].service => j = m
  BY <1>3 DEF DistinctServices
<1>7. \A j, m \in 1..n : h[j] = h[m] => j = m
  <2> TAKE j, m \in 1..n
  <2> HAVE h[j] = h[m]
  <2>1. routes[j].service = routes[m].service
    BY <1>5
  <2> QED
    BY <1>d, <2>1
<1>8. \A k \in 1..n : \E j \in 1..n : h[j] = k
  BY <1>3, <1>6, <1>7, AllTaken
<1>9. ASSUME NEW m \in 1..n, status[m].service = routes[i].service
      PROVE  m = h[i]
  <2>1. PICK j \in 1..n : h[j] = m
    BY <1>8
  <2>2. j = i
    <3>1. routes[j].service = routes[i].service /\ i \in 1..n
      BY <1>3, <1>5, <1>9, <2>1
    <3> QED
      BY <1>d, <3>1
  <2> QED
    BY <2>1, <2>2
<1> QED
  BY <1>1, <1>3, <1>5, <1>9

\* If no service has two routes, the lines of a service are those of one entry,
\* with the weight of its route.
LEMMA LinesOfService ==
    ASSUME TypeOK, SettledInv, settled, DistinctServices,
           NEW i \in DOMAIN routes, NEW lines,
           lines = {j \in DOMAIN servers : servers[j].name[1] = routes[i].service}
    PROVE  \E n \in Nat :
              /\ IsFiniteSet(lines) /\ Cardinality(lines) = n
              /\ \A j \in lines :
                    servers[j].weight = Float32(routes[i].weight, n)
<1>2. PICK k \in 1..Len(status) :
        /\ status[k].service = routes[i].service
        /\ status[k].weight = routes[i].weight
        /\ \A m \in 1..Len(status) :
              status[m].service = routes[i].service => m = k
  BY EntryIsOnly
<1>3. PICK n : n = Len(status[k].ips)
  OBVIOUS
<1>4. /\ IsStatus(status) /\ servers = newHAProxyController(status)
      /\ DOMAIN status = 1..Len(status)
  BY ListOf DEF SettledInv, TypeOK, IsStatus, IsList
<1>5. \A m \in 1..Len(status) : DOMAIN status[m].ips = 1..Len(status[m].ips)
                                /\ Len(status[m].ips) \in Nat
  BY <1>4, ListOf DEF IsStatus, IsList
<1>6. DOMAIN servers = 1..Len(servers)
  BY <1>4, LinesOf
<1>7. PICK at \in [1..Len(status) -> Nat] : LinesAt(servers, status, at)
  BY <1>4, LinesOf
<1>8. \A m \in 1..Len(status) : \A p \in 1..Len(status[m].ips) :
        /\ servers[at[m] + p].name[1] = status[m].service
        /\ servers[at[m] + p].weight
             = Float32(status[m].weight, Len(status[m].ips))
  <2> TAKE m \in 1..Len(status)
  <2> TAKE p \in 1..Len(status[m].ips)
  <2>1. servers[at[m] + p] = ServersOf(status[m])[p]
    BY <1>7 DEF LinesAt
  <2> QED
    BY <1>5, <2>1 DEF ServersOf
<1>9. \A q \in lines : /\ q \in at[k]+1..at[k]+n
                       /\ servers[q].weight = Float32(routes[i].weight, n)
  <2> TAKE q \in lines
  <2>1. q \in 1..Len(servers) /\ servers[q].name[1] = routes[i].service
    BY <1>6
  <2>2. PICK m \in 1..Len(status) :
           \E p \in 1..Len(status[m].ips) : q = at[m] + p
    BY <1>7, <2>1 DEF LinesAt
  <2>3. m = k
    BY <1>2, <1>8, <2>1, <2>2
  <2>4. PICK p \in 1..n : q = at[k] + p
    BY <1>3, <2>2, <2>3
  <2>5. n \in Nat /\ at[k] \in Nat
    BY <1>3, <1>5
  <2>6. q \in at[k]+1..at[k]+n
    BY <2>4, <2>5
  <2>7. servers[q].weight = Float32(status[k].weight, Len(status[k].ips))
    BY <1>3, <1>8, <2>4
  <2> QED
    BY <1>2, <1>3, <2>6, <2>7
<1>10. \A q \in at[k]+1..at[k]+n : q \in lines
  <2> TAKE q \in at[k]+1..at[k]+n
  <2>1. n \in Nat /\ at[k] \in Nat
    BY <1>3, <1>5
  <2>2. PICK p : p = q - at[k]
    OBVIOUS
  <2>3. p \in 1..n /\ q = at[k] + p
    BY <2>1, <2>2
  <2>4. q \in DOMAIN servers
    BY <1>3, <1>6, <1>7, <2>3 DEF LinesAt
  <2>5. servers[q].name[1] = routes[i].service
    BY <1>2, <1>3, <1>8, <2>3
  <2> QED
    BY <2>4, <2>5
<1>11. lines = at[k]+1..at[k]+n
  BY <1>9, <1>10
<1>12. n \in Nat /\ IsFiniteSet(lines) /\ Cardinality(lines) = n
  <2>1. n \in Nat /\ at[k] \in Nat
    BY <1>3, <1>5
  <2>2. PICK a, b : a = at[k] + 1 /\ b = at[k] + n /\ a \in Int /\ b \in Int
    BY <2>1
  <2>3. /\ IsFiniteSet(a..b)
        /\ Cardinality(a..b) = IF a > b THEN 0 ELSE b - a + 1
    BY <2>1, <2>2, FS_Interval
  <2>4. (IF a > b THEN 0 ELSE b - a + 1) = n
    BY <2>1, <2>2
  <2> QED
    BY <1>11, <2>1, <2>2, <2>3, <2>4
<1> QED
  BY <1>9, <1>12

\* A route that has a ready pod has a line.
LEMMA ReadyRouteHasLines ==
    ASSUME TypeOK, SettledInv, settled, NEW i \in DOMAIN routes, NEW lines,
           lines = {j \in DOMAIN servers : servers[j].name[1] = routes[i].service},
           AllAddresses(eps[routes[i].service].subsets) # <<>>
    PROVE  lines # {}
<1>1. PICK ready : ready = AllAddresses(eps[routes[i].service].subsets)
  OBVIOUS
<1>2. eps[routes[i].service] \in Endpoints
  BY ConfigAssumption DEF TypeOK
<1>3. IsList(ready) /\ Len(ready) \in Nat /\ DOMAIN ready = 1..Len(ready)
  BY <1>1, <1>2, AddressesType, ListOf DEF IsList
<1>4. Len(ready) # 0
  <2>1. ready \in Seq(ToSet(ready)) /\ ready # <<>>
    BY <1>1, <1>3 DEF IsList
  <2> QED
    BY <2>1, EmptySeq
<1>5. ready[1] \in ToSet(ready)
  BY <1>3, <1>4 DEF ToSet
<1>6. PICK server \in ToSet(servers) : server.name[1] = routes[i].service
  BY <1>1, <1>5, SettledServes DEF EveryReadyPodIsServed
<1> QED
  BY <1>6 DEF ToSet

\* What RouteWeightIsShared says of one route and its lines.
SharesNearly(w, lines) ==
    \E d \in {servers[j].weight.den : j \in lines} :
        /\ \A j \in lines : servers[j].weight.den = d
        /\ Magnitude(SumOf(servers, lines) - w * d)
              =< (Magnitude(w) * d) \div Exact

\* Lines of one entry share its weight.
LEMMA LinesShare ==
    ASSUME NEW w \in Int, Magnitude(w) < Exact, NEW lines, lines # {},
           NEW n \in Nat, IsFiniteSet(lines), Cardinality(lines) = n,
           \A j \in lines : servers[j].weight = Float32(w, n)
    PROVE  SharesNearly(w, lines)
<1>1. n \in Nat \ {0}
  BY FS_EmptySet
<1>2. PICK f : f = Float32(w, n)
  OBVIOUS
<1>3. /\ f.num \in Int /\ f.den \in Int
      /\ Magnitude(n * f.num - w * f.den) =< (Magnitude(w) * f.den) \div Exact
  BY <1>1, <1>2, QuotientIsNear
<1>4. \A j \in lines : servers[j].weight.num = f.num /\ servers[j].weight.den = f.den
  BY <1>2
<1>5. PICK c : c = f.num
  OBVIOUS
<1>6. SumOf(servers, lines) = n * c
  <2>1. c \in Int /\ \A l \in lines : servers[l].weight.num = c
    BY <1>3, <1>4, <1>5
  <2>2. SumOf(servers, lines) = Cardinality(lines) * c
    BY <2>1, SumOfEqual
  <2> QED
    BY <2>2
<1>7. f.den \in {servers[j].weight.den : j \in lines}
  BY <1>4
<1> QED
  BY <1>3, <1>4, <1>5, <1>6, <1>7 DEF SharesNearly

\* Spec => []RouteWeightIsShared: the float32 division of newHAProxyController
\* gives the lines of a service the weight of its route, however many they are,
\* but for one part in 2^24.
THEOREM WeightsAreShared == Spec => []RouteWeightIsShared
<1>1. TypeOK /\ SettledInv => RouteWeightIsShared
  <2> SUFFICES ASSUME TypeOK, SettledInv PROVE RouteWeightIsShared
    OBVIOUS
  <2> DEFINE linesOf(s) == {j \in DOMAIN servers : servers[j].name[1] = s}
  <2>1. ASSUME settled, DistinctServices, NEW i \in DOMAIN routes,
               Magnitude(routes[i].weight) < Exact,
               linesOf(routes[i].service) # {}
                 \/ AllAddresses(eps[routes[i].service].subsets) # <<>>
        PROVE  SharesNearly(routes[i].weight, linesOf(routes[i].service))
    <3>1. PICK lines : lines = linesOf(routes[i].service)
      OBVIOUS
    <3>2. lines # {}
      BY <2>1, <3>1, ReadyRouteHasLines
    <3>3. PICK n \in Nat :
            /\ IsFiniteSet(lines) /\ Cardinality(lines) = n
            /\ \A j \in lines :
                  servers[j].weight = Float32(routes[i].weight, n)
      BY <2>1, <3>1, LinesOfService
    <3>4. PICK w : w = routes[i].weight
      OBVIOUS
    <3>5. w \in Int /\ Magnitude(w) < Exact
      BY <2>1, <3>4, ConfigAssumption DEF TypeOK
    <3>6. SharesNearly(w, lines)
      BY <3>2, <3>3, <3>4, <3>5, LinesShare
    <3> QED
      BY <3>1, <3>4, <3>6
  <2> HIDE DEF linesOf
  <2>2. \A i \in DOMAIN routes :
          linesOf(routes[i].service)
            = {j \in DOMAIN servers : servers[j].name[1] = routes[i].service}
    BY DEF linesOf
  <2> QED
    BY <2>1, <2>2, Zenon DEF RouteWeightIsShared, SharesNearly, SumOf
<1> QED
  BY <1>1, SettledInvariant, PTL

-----------------------------------------------------------------------------
(* Copying the elements of an array, one after the other *)

\* What DeepCopyKanaryStatus does with an entry ...
CopyEntry(acc, entry) ==
    LET c == DeepCopyKanaryEndpointList(acc.memory, entry)
    IN  [memory |-> c.memory, out |-> Append(acc.out, c.out)]

\* ... and DeepCopyKanaryList with a Kanary.
CopyItem(acc, ky) ==
    LET c == DeepCopyKanary(acc.memory, ky)
    IN  [memory |-> c.memory, out |-> Append(acc.out, c.out)]

CopyNext(kind, acc, x) ==
    IF kind = "entry" THEN CopyEntry(acc, x) ELSE CopyItem(acc, x)

\* The recursion that defines FoldLeft with CopyNext.
FoldsCopies(iter, kind, base, seq, S) ==
    iter = [s \in SUBSET S |->
              IF s = {} THEN base
              ELSE CopyNext(kind, iter[s \ {Max(s)}], seq[Max(s)])]

\* A set of positions that is not empty has a last one.
LEMMA LastPosition ==
    ASSUME NEW n \in Nat, NEW s \in SUBSET (1..n), s # {}
    PROVE  Max(s) \in s /\ \A y \in s : y =< Max(s)
<1> DEFINE B == {d \in Nat : n - d \in s}
<1>1. B \in SUBSET Nat /\ B # {}
  <2>1. PICK x \in s : TRUE
    OBVIOUS
  <2>2. n - x \in Nat /\ n - (n - x) = x
    BY <2>1
  <2> QED
    BY <2>1, <2>2
<1>2. PICK d \in B : \A e \in B : d =< e
  <2> HIDE DEF B
  <2> QED
    BY <1>1, Least
<1>3. \A y \in s : n - d >= y
  <2> TAKE y \in s
  <2>1. n - y \in Nat /\ n - (n - y) = y /\ y \in Nat
    OBVIOUS
  <2>2. d =< n - y
    BY <1>2, <2>1
  <2> QED
    BY <2>1, <2>2
<1>4. \E x \in s : \A y \in s : x >= y
  BY <1>2, <1>3
<1>5. Max(s) \in s /\ \A y \in s : Max(s) >= y
  <2>1. PICK x : x = Max(s)
    OBVIOUS
  <2> QED
    BY <1>4 DEF Max
<1> HIDE DEF B
<1>6. PICK m : m = Max(s)
  OBVIOUS
<1>7. m \in s /\ \A y \in s : m >= y
  BY <1>5, <1>6
<1>8. \A y \in s : y \in Nat
  OBVIOUS
<1>9. \A y \in s : y =< m
  BY <1>7, <1>8
<1> QED
  BY <1>6, <1>7, <1>9

\* The last position of an interval is its end.
LEMMA LastOfInterval ==
    ASSUME NEW k \in Nat \ {0}, NEW n \in Nat, k =< n,
           NEW s \in SUBSET (1..k), k \in s
    PROVE  Max(s) = k
<1>1. Max(s) \in s /\ \A y \in s : y =< Max(s)
  BY LastPosition
<1>2. Max(s) \in 1..k /\ k =< Max(s)
  BY <1>1
<1> QED
  BY <1>2

\* The function FoldLeft defines by recursion exists.
LEMMA FoldExists ==
    ASSUME NEW kind, NEW base, NEW seq, NEW n \in Nat
    PROVE  \E iter : FoldsCopies(iter, kind, base, seq, 1..n)
<1> DEFINE B == {k \in Nat : ~ \E iter : FoldsCopies(iter, kind, base, seq, 1..k)}
<1> SUFFICES ASSUME B # {} PROVE FALSE
  OBVIOUS
<1>1. PICK k \in B : \A j \in B : k =< j
  <2>1. B \in SUBSET Nat
    OBVIOUS
  <2> HIDE DEF B
  <2> QED
    BY <2>1, Least
<1>2. CASE k = 0
  <2>1. PICK iter : iter = [s \in SUBSET (1..0) |-> base]
    OBVIOUS
  <2>2. \A s \in SUBSET (1..0) : s = {}
    OBVIOUS
  <2>3. FoldsCopies(iter, kind, base, seq, 1..0)
    BY <2>1, <2>2 DEF FoldsCopies
  <2> QED
    BY <1>1, <1>2, <2>3
<1>3. CASE k # 0
  <2>1. k - 1 \in Nat /\ k - 1 \notin B
    BY <1>1, <1>3
  <2>2. PICK g : FoldsCopies(g, kind, base, seq, 1..k-1)
    BY <2>1
  <2>3. PICK h : h = [s \in SUBSET (1..k) |->
                        IF k \in s THEN CopyNext(kind, g[s \ {k}], seq[k])
                        ELSE g[s]]
    OBVIOUS
  <2>4. \A s \in SUBSET (1..k) :
          h[s] = IF s = {} THEN base
                 ELSE CopyNext(kind, h[s \ {Max(s)}], seq[Max(s)])
    <3> TAKE s \in SUBSET (1..k)
    <3>1. CASE k \in s
      <4>1. Max(s) = k
        BY <1>3, <3>1, LastOfInterval
      <4>2. s \ {k} \in SUBSET (1..k) /\ k \notin s \ {k} /\ s # {}
        BY <3>1
      <4>3. h[s \ {k}] = g[s \ {k}]
        BY <2>3, <4>2
      <4> QED
        BY <2>3, <3>1, <4>1, <4>2, <4>3
    <3>2. CASE k \notin s
      <4>1. s \in SUBSET (1..k-1)
        BY <2>1, <3>2
      <4>2. h[s] = g[s]
        BY <2>3, <3>2
      <4>3. g[s] = IF s = {} THEN base
                   ELSE CopyNext(kind, g[s \ {Max(s)}], seq[Max(s)])
        BY <2>2, <4>1 DEF FoldsCopies
      <4>4. s \ {Max(s)} \in SUBSET (1..k) /\ k \notin s \ {Max(s)}
        BY <3>2
      <4>5. h[s \ {Max(s)}] = g[s \ {Max(s)}]
        BY <2>3, <4>4
      <4> QED
        BY <4>2, <4>3, <4>5
    <3> QED
      BY <3>1, <3>2
  <2>5. h = [s \in SUBSET (1..k) |-> h[s]]
    BY <2>3
  <2>6. h = [s \in SUBSET (1..k) |->
               IF s = {} THEN base
               ELSE CopyNext(kind, h[s \ {Max(s)}], seq[Max(s)])]
    BY <2>4, <2>5, Zenon
  <2>7. FoldsCopies(h, kind, base, seq, 1..k)
    BY <2>6, Zenon DEF FoldsCopies
  <2> QED
    BY <1>1, <2>7
<1> QED
  BY <1>2, <1>3

\* accs[k] is what there is after k elements.
CopiesOneByOne(accs, kind, base, seq, n) ==
    /\ accs[0] = base
    /\ \A k \in 1..n : accs[k] = CopyNext(kind, accs[k-1], seq[k])

\* The fold takes the elements from the first to the last.
LEMMA FoldSteps ==
    ASSUME NEW kind, NEW base, NEW seq, NEW n \in Nat,
           NEW iter, FoldsCopies(iter, kind, base, seq, 1..n)
    PROVE  \E accs : /\ CopiesOneByOne(accs, kind, base, seq, n)
                     /\ accs[n] = iter[1..n]
<1>1. PICK accs : accs = [k \in 0..n |-> iter[1..k]]
  OBVIOUS
<1>2. accs[0] = base
  <2>1. 1..0 = {} /\ {} \in SUBSET (1..n) /\ 0 \in 0..n
    OBVIOUS
  <2>2. iter[{}] = base
    BY <2>1 DEF FoldsCopies
  <2> QED
    BY <1>1, <2>1, <2>2
<1>3. \A k \in 1..n : accs[k] = CopyNext(kind, accs[k-1], seq[k])
  <2> TAKE k \in 1..n
  <2>1. /\ k \in Nat \ {0} /\ k =< n /\ 1..k \in SUBSET (1..n) /\ k \in 1..k
        /\ k \in 0..n /\ k - 1 \in 0..n /\ (1..k) \ {k} = 1..k-1
    OBVIOUS
  <2>2. Max(1..k) = k
    BY <2>1, LastOfInterval
  <2>3. iter[1..k] = IF 1..k = {} THEN base
             ELSE CopyNext(kind, iter[(1..k) \ {Max(1..k)}], seq[Max(1..k)])
    BY <2>1 DEF FoldsCopies
  <2>4. iter[1..k] = CopyNext(kind, iter[1..k-1], seq[k])
    BY <2>1, <2>2, <2>3
  <2> QED
    BY <1>1, <2>1, <2>4
<1>4. accs[n] = iter[1..n]
  BY <1>1
<1> QED
  BY <1>2, <1>3, <1>4 DEF CopiesOneByOne

\* The entries of a status are copied one by one.
LEMMA FoldOfEntries ==
    ASSUME NEW base, NEW seq, NEW n \in Nat, DOMAIN seq = 1..n
    PROVE  \E accs : /\ CopiesOneByOne(accs, "entry", base, seq, n)
                     /\ accs[n] = FoldLeft(CopyEntry, base, seq)
<1> DEFINE Folds(iter) ==
      iter = [s \in SUBSET (1..n) |->
                IF s = {} THEN base
                ELSE CopyEntry(iter[s \ {Max(s)}], seq[Max(s)])]
<1> DEFINE fold == CHOOSE iter : Folds(iter)
<1>1. FoldLeft(CopyEntry, base, seq) = fold[1..n]
  BY DEF FoldLeft, MapThenFoldSet
<1>2. \A acc, x : CopyNext("entry", acc, x) = CopyEntry(acc, x)
  BY DEF CopyNext
<1>3. \A iter : FoldsCopies(iter, "entry", base, seq, 1..n) <=> Folds(iter)
  BY <1>2, Zenon DEF FoldsCopies
<1>4. \E iter : Folds(iter)
  BY <1>3, FoldExists
<1>5. FoldsCopies(fold, "entry", base, seq, 1..n)
  <2> HIDE DEF Folds
  <2> QED
    BY <1>3, <1>4
<1> HIDE DEF fold
<1> QED
  BY <1>1, <1>5, FoldSteps

\* The Kanaries of a list are copied one by one.
LEMMA FoldOfItems ==
    ASSUME NEW base, NEW seq, NEW n \in Nat, DOMAIN seq = 1..n
    PROVE  \E accs : /\ CopiesOneByOne(accs, "item", base, seq, n)
                     /\ accs[n] = FoldLeft(CopyItem, base, seq)
<1> DEFINE Folds(iter) ==
      iter = [s \in SUBSET (1..n) |->
                IF s = {} THEN base
                ELSE CopyItem(iter[s \ {Max(s)}], seq[Max(s)])]
<1> DEFINE fold == CHOOSE iter : Folds(iter)
<1>1. FoldLeft(CopyItem, base, seq) = fold[1..n]
  BY DEF FoldLeft, MapThenFoldSet
<1>2. \A acc, x : CopyNext("item", acc, x) = CopyItem(acc, x)
  BY DEF CopyNext
<1>3. \A iter : FoldsCopies(iter, "item", base, seq, 1..n) <=> Folds(iter)
  BY <1>2, Zenon DEF FoldsCopies
<1>4. \E iter : Folds(iter)
  BY <1>3, FoldExists
<1>5. FoldsCopies(fold, "item", base, seq, 1..n)
  <2> HIDE DEF Folds
  <2> QED
    BY <1>3, <1>4
<1> HIDE DEF fold
<1> QED
  BY <1>1, <1>5, FoldSteps

-----------------------------------------------------------------------------
(* Memory *)

\* Memory m2 holds what memory m holds, where it holds it.
Grown(m, m2) ==
    /\ IsList(m) /\ IsList(m2)
    /\ Len(m) =< Len(m2)
    /\ \A i \in 1..Len(m) : m2[i] = m[i]

\* An array more leaves the others where they are.
LEMMA MadeGrows ==
    ASSUME NEW m, IsList(m), NEW x, NEW c, c = Made(m, x)
    PROVE  /\ Grown(m, c.memory)
           /\ Len(m) \in Nat /\ Len(c.memory) = Len(m) + 1
           /\ c.out = Len(m) + 1 /\ c.memory[c.out] = x
<1>1. PICK S : S = ToSet(m) \cup {x}
  OBVIOUS
<1>2. m \in Seq(ToSet(m)) /\ ToSet(m) \subseteq S /\ x \in S
  BY <1>1 DEF IsList
<1>3. m \in Seq(S)
  BY <1>2, SeqMonotonic
<1>4. PICK m2 : m2 = Append(m, x)
  OBVIOUS
<1>5. /\ m2 \in Seq(S) /\ Len(m2) = Len(m) + 1
      /\ \A i \in 1..Len(m) : m2[i] = m[i]
      /\ m2[Len(m) + 1] = x
  BY <1>2, <1>3, <1>4, AppendProperties
<1>6. Len(m) \in Nat
  BY <1>3, LenProperties
<1>7. IsList(m2)
  BY <1>5, ListOf
<1>8. c.memory = m2 /\ c.out = Len(m) + 1
  BY <1>4 DEF Made
<1>9. Len(m) =< Len(m2)
  BY <1>5, <1>6
<1> QED
  BY <1>5, <1>6, <1>7, <1>8, <1>9 DEF Grown

\* Growing once more.
LEMMA GrownTransitive ==
    ASSUME NEW m1, NEW m2, NEW m3, Grown(m1, m2), Grown(m2, m3)
    PROVE  Grown(m1, m3)
<1>1. Len(m1) \in Nat /\ Len(m2) \in Nat /\ Len(m3) \in Nat
  BY ListOf DEF Grown, IsList
<1>2. Len(m1) =< Len(m3)
  BY <1>1 DEF Grown
<1>3. \A i \in 1..Len(m1) : m3[i] = m1[i]
  <2> TAKE i \in 1..Len(m1)
  <2>1. i \in 1..Len(m2)
    BY <1>1 DEF Grown
  <2> QED
    BY <2>1 DEF Grown
<1> QED
  BY <1>2, <1>3 DEF Grown

\* A list has grown from itself.
LEMMA GrownReflexive ==
    ASSUME NEW m, IsList(m)
    PROVE  Grown(m, m)
<1>1. Len(m) \in Nat
  BY ListOf DEF IsList
<1> QED
  BY <1>1 DEF Grown

\* What memory held before it grew is a prefix of it.
LEMMA GrownIsPrefix ==
    ASSUME NEW m, NEW m2, Grown(m, m2)
    PROVE  IsPrefix(m, m2)
<1>1. Len(m) \in Nat /\ Len(m2) \in Nat /\ Len(m) =< Len(m2)
  BY ListOf DEF Grown, IsList
<1>2. PICK S : S = ToSet(m) \cup ToSet(m2)
  OBVIOUS
<1>3. m \in Seq(S) /\ m2 \in Seq(S)
  <2>1. ToSet(m) \subseteq S /\ ToSet(m2) \subseteq S
    BY <1>2
  <2> QED
    BY <2>1, SeqMonotonic DEF Grown, IsList
<1>4. \A i \in 1..Len(m) : m[i] \in S /\ m2[i] = m[i]
  BY <1>3, LenProperties DEF Grown
<1>5. PICK s, t : s = SubSeq(m, 1, Len(m)) /\ t = SubSeq(m2, 1, Len(m))
  OBVIOUS
<1>6. /\ s \in Seq(S)
      /\ Len(s) = IF 1 =< Len(m) THEN Len(m) - 1 + 1 ELSE 0
      /\ \A i \in 1..Len(m) - 1 + 1 : s[i] = m[1 + i - 1]
  BY <1>1, <1>4, <1>5, SubSeqProperties
<1>7. /\ t \in Seq(S)
      /\ Len(t) = IF 1 =< Len(m) THEN Len(m) - 1 + 1 ELSE 0
      /\ \A i \in 1..Len(m) - 1 + 1 : t[i] = m2[1 + i - 1]
  BY <1>1, <1>4, <1>5, SubSeqProperties
<1>8. Len(s) = Len(m) /\ Len(t) = Len(m)
  BY <1>1, <1>6, <1>7
<1>9. \A i \in 1..Len(m) : s[i] = t[i]
  <2> TAKE i \in 1..Len(m)
  <2>1. i \in 1..Len(m) - 1 + 1 /\ 1 + i - 1 = i
    BY <1>1
  <2>2. s[i] = m[i] /\ t[i] = m2[i]
    BY <1>6, <1>7, <2>1
  <2> QED
    BY <1>4, <2>2
<1>10. s = t
  BY <1>6, <1>7, <1>8, <1>9, SeqEqual
<1> QED
  BY <1>1, <1>5, <1>10 DEF IsPrefix

\* A reference is nil or one of memory's arrays from the a-th to the b-th.
RefIn(ref, a, b) == ref = Nil \/ ref \in a..b

\* A clone is new and holds the same.
LEMMA ClonedGrows ==
    ASSUME NEW m, IsList(m), NEW ref, RefIn(ref, 1, Len(m)),
           NEW c, c = Cloned(m, ref)
    PROVE  /\ Grown(m, c.memory)
           /\ RefIn(c.out, Len(m) + 1, Len(c.memory))
           /\ c.out = Nil <=> ref = Nil
           /\ Contents(c.memory, c.out) = Contents(m, ref)
<1>1. Len(m) \in Nat
  BY ListOf DEF IsList
<1>2. CASE ref = Nil
  <2>1. c.memory = m /\ c.out = Nil
    BY <1>2 DEF Cloned
  <2> QED
    BY <1>2, <2>1, GrownReflexive DEF RefIn, Contents
<1>3. CASE ref # Nil
  <2>1. c = Made(m, m[ref])
    BY <1>3 DEF Cloned
  <2>2. /\ Grown(m, c.memory) /\ Len(c.memory) = Len(m) + 1
        /\ c.out = Len(m) + 1 /\ c.memory[c.out] = m[ref]
    BY <2>1, MadeGrows
  <2>3. c.out # Nil /\ c.out \in Len(m) + 1..Len(c.memory)
    BY <1>1, <2>2 DEF Nil
  <2> QED
    BY <1>3, <2>2, <2>3 DEF RefIn, Contents
<1> QED
  BY <1>2, <1>3

\* What a reference shows stays as it is while memory grows.
LEMMA GrownShows ==
    ASSUME NEW m, NEW m2, Grown(m, m2), NEW ref, RefIn(ref, 1, Len(m))
    PROVE  Contents(m2, ref) = Contents(m, ref)
BY DEF Grown, RefIn, Contents

\* References into a part are references into a larger one.
LEMMA RefWidens ==
    ASSUME NEW a \in Nat, NEW b \in Nat, NEW a2 \in Nat, NEW b2 \in Nat,
           a2 =< a, b =< b2, NEW ref, RefIn(ref, a, b)
    PROVE  RefIn(ref, a2, b2)
BY DEF RefIn

-----------------------------------------------------------------------------
(* Entries and their copies *)

\* Entries whose lists are in the part of memory from a to b.
EntriesIn(entries, a, b) ==
    /\ IsList(entries)
    /\ \A i \in 1..Len(entries) :
          IsEntry(entries[i]) /\ RefIn(entries[i].ips, a, b)

\* Entry e2 shows in memory m2 what e shows in m, and its list is new.
EntryCopied(m, e, m2, e2) ==
    /\ IsEntry(e2) /\ e2.service = e.service /\ e2.weight = e.weight
    /\ RefIn(e2.ips, Len(m) + 1, Len(m2))
    /\ Contents(m2, e2.ips) = Contents(m, e.ips)

\* The first k entries have been copied.
EntriesCopied(m, entries, acc, k) ==
    /\ Grown(m, acc.memory)
    /\ IsList(acc.out) /\ Len(acc.out) = k
    /\ \A i \in 1..k : EntryCopied(m, entries[i], acc.memory, acc.out[i])

\* A list with an element more.
LEMMA OneMore ==
    ASSUME NEW s, IsList(s), NEW x
    PROVE  /\ IsList(Append(s, x)) /\ Len(Append(s, x)) = Len(s) + 1
           /\ \A i \in 1..Len(s) : Append(s, x)[i] = s[i]
           /\ Append(s, x)[Len(s) + 1] = x
<1>1. PICK c : c = Made(s, x)
  OBVIOUS
<1>2. c.memory = Append(s, x) /\ c.out = Len(s) + 1
  BY <1>1 DEF Made
<1>3. /\ Grown(s, c.memory) /\ Len(c.memory) = Len(s) + 1
      /\ c.out = Len(s) + 1 /\ c.memory[c.out] = x
  BY <1>1, MadeGrows
<1> QED
  BY <1>2, <1>3 DEF Grown

\* What has been copied stays copied while memory grows.
LEMMA EntryStaysCopied ==
    ASSUME NEW m, IsList(m), NEW m2, NEW m3, Grown(m2, m3), NEW e, NEW e2,
           EntryCopied(m, e, m2, e2)
    PROVE  EntryCopied(m, e, m3, e2)
<1>1. Len(m) \in Nat /\ Len(m2) \in Nat /\ Len(m3) \in Nat /\ Len(m2) =< Len(m3)
  BY ListOf DEF Grown, IsList
<1>2. RefIn(e2.ips, Len(m) + 1, Len(m2))
  BY DEF EntryCopied
<1>3. RefIn(e2.ips, Len(m) + 1, Len(m3))
  BY <1>1, <1>2, RefWidens
<1>4. RefIn(e2.ips, 1, Len(m2))
  BY <1>1, <1>2, RefWidens
<1>5. Contents(m3, e2.ips) = Contents(m2, e2.ips)
  BY <1>4, GrownShows
<1> QED
  BY <1>3, <1>5 DEF EntryCopied

\* One entry more.
LEMMA CopyOneEntry ==
    ASSUME NEW m, IsList(m), NEW entries, EntriesIn(entries, 1, Len(m)),
           NEW acc, NEW k \in Nat, k + 1 \in 1..Len(entries),
           EntriesCopied(m, entries, acc, k),
           NEW acc2, acc2 = CopyNext("entry", acc, entries[k + 1])
    PROVE  EntriesCopied(m, entries, acc2, k + 1)
<1>1. PICK e : e = entries[k + 1]
  OBVIOUS
<1>2. IsEntry(e) /\ RefIn(e.ips, 1, Len(m))
  BY <1>1 DEF EntriesIn
<1>3. Grown(m, acc.memory) /\ IsList(acc.memory) /\ IsList(acc.out)
      /\ Len(acc.out) = k
  BY DEF EntriesCopied, Grown
<1>4. PICK c : c = Cloned(acc.memory, e.ips)
  OBVIOUS
<1>5. PICK e2 : e2 = [e EXCEPT !.ips = c.out]
  OBVIOUS
<1>6. acc2.memory = c.memory /\ acc2.out = Append(acc.out, e2)
  <2>1. acc2 = CopyEntry(acc, e)
    BY <1>1 DEF CopyNext
  <2> QED
    BY <1>4, <1>5, <2>1 DEF CopyEntry, DeepCopyKanaryEndpointList
<1>7. Len(m) \in Nat /\ Len(acc.memory) \in Nat /\ Len(m) =< Len(acc.memory)
  BY <1>3, ListOf DEF Grown, IsList
<1>8. RefIn(e.ips, 1, Len(acc.memory))
  BY <1>2, <1>7, RefWidens
<1>9. /\ Grown(acc.memory, c.memory)
      /\ RefIn(c.out, Len(acc.memory) + 1, Len(c.memory))
      /\ Contents(c.memory, c.out) = Contents(acc.memory, e.ips)
  BY <1>3, <1>4, <1>8, ClonedGrows
<1>10. Contents(acc.memory, e.ips) = Contents(m, e.ips)
  BY <1>2, <1>3, GrownShows
<1>11. Grown(m, c.memory)
  BY <1>3, <1>9, GrownTransitive
<1>12. EntryCopied(m, e, c.memory, e2)
  <2>1. IsEntry(e2) /\ e2.service = e.service /\ e2.weight = e.weight
        /\ e2.ips = c.out
    BY <1>2, <1>5 DEF IsEntry
  <2>2. Len(c.memory) \in Nat
    BY <1>11, ListOf DEF Grown, IsList
  <2>3. /\ Len(m) + 1 \in Nat /\ Len(acc.memory) + 1 \in Nat
        /\ Len(m) + 1 =< Len(acc.memory) + 1 /\ Len(c.memory) =< Len(c.memory)
    BY <1>7, <2>2
  <2>4. RefIn(c.out, Len(m) + 1, Len(c.memory))
    <3>1. PICK a, a2, b : /\ a = Len(acc.memory) + 1 /\ a2 = Len(m) + 1
                          /\ b = Len(c.memory)
      OBVIOUS
    <3>2. a \in Nat /\ a2 \in Nat /\ b \in Nat /\ a2 =< a /\ b =< b
      BY <2>2, <2>3, <3>1
    <3>3. RefIn(c.out, a, b)
      BY <1>9, <3>1
    <3>4. RefIn(c.out, a2, b)
      BY <3>2, <3>3, RefWidens
    <3> QED
      BY <3>1, <3>4
  <2> QED
    BY <1>9, <1>10, <2>1, <2>4 DEF EntryCopied
<1>13. /\ IsList(acc2.out) /\ Len(acc2.out) = k + 1
       /\ \A i \in 1..k : acc2.out[i] = acc.out[i]
       /\ acc2.out[k + 1] = e2
  <2>1. PICK out : out = acc.out
    OBVIOUS
  <2>2. IsList(out) /\ Len(out) = k /\ acc2.out = Append(out, e2)
    BY <1>3, <1>6, <2>1
  <2>3. /\ IsList(Append(out, e2)) /\ Len(Append(out, e2)) = Len(out) + 1
        /\ \A i \in 1..Len(out) : Append(out, e2)[i] = out[i]
        /\ Append(out, e2)[Len(out) + 1] = e2
    BY <2>2, OneMore
  <2> QED
    BY <2>1, <2>2, <2>3
<1>14. ASSUME NEW i \in 1..k + 1
       PROVE  EntryCopied(m, entries[i], acc2.memory, acc2.out[i])
  <2>1. CASE i = k + 1
    BY <1>1, <1>6, <1>12, <1>13, <2>1
  <2>2. CASE i # k + 1
    <3>1. i \in 1..k
      BY <2>2
    <3>2. EntryCopied(m, entries[i], acc.memory, acc.out[i])
      BY <3>1 DEF EntriesCopied
    <3>3. EntryCopied(m, entries[i], c.memory, acc.out[i])
      BY <1>9, <3>2, EntryStaysCopied
    <3> QED
      BY <1>6, <1>13, <3>1, <3>3
  <2> QED
    BY <2>1, <2>2
<1> QED
  BY <1>6, <1>11, <1>13, <1>14 DEF EntriesCopied

\* All entries.
LEMMA CopyAllEntries ==
    ASSUME NEW m, IsList(m), NEW entries, EntriesIn(entries, 1, Len(m)),
           NEW acc,
           acc = FoldLeft(CopyEntry, [memory |-> m, out |-> <<>>], entries)
    PROVE  EntriesCopied(m, entries, acc, Len(entries))
<1>1. PICK n : n = Len(entries)
  OBVIOUS
<1>2. n \in Nat /\ DOMAIN entries = 1..n
  BY <1>1, ListOf DEF EntriesIn, IsList
<1>3. PICK base : base = [memory |-> m, out |-> <<>>]
  OBVIOUS
<1>4. PICK accs : /\ CopiesOneByOne(accs, "entry", base, entries, n)
                  /\ accs[n] = FoldLeft(CopyEntry, base, entries)
  BY <1>2, FoldOfEntries
<1> DEFINE B == {k \in 0..n : ~ EntriesCopied(m, entries, accs[k], k)}
<1>5. SUFFICES ASSUME B # {} PROVE FALSE
  <2>1. n \in 0..n
    BY <1>2
  <2>2. EntriesCopied(m, entries, accs[n], n)
    BY <1>5, <2>1
  <2>3. accs[n] = acc
    BY <1>3, <1>4
  <2> QED
    BY <1>1, <2>2, <2>3
<1>6. PICK k \in B : \A j \in B : k =< j
  <2>1. B \in SUBSET Nat
    BY <1>2
  <2> HIDE DEF B
  <2> QED
    BY <1>5, <2>1, Least
<1>7. k \in Nat /\ k =< n /\ ~ EntriesCopied(m, entries, accs[k], k)
  BY <1>2, <1>6
<1>8. CASE k = 0
  <2>1. accs[0] = base
    BY <1>4 DEF CopiesOneByOne
  <2>2. Grown(m, m)
    BY GrownReflexive
  <2>3. IsList(<<>>) /\ Len(<<>>) = 0
    BY EmptySeq, ListOf
  <2>4. EntriesCopied(m, entries, base, 0)
    <3>1. base.memory = m /\ base.out = <<>>
      BY <1>3
    <3> QED
      BY <2>2, <2>3, <3>1 DEF EntriesCopied
  <2> QED
    BY <1>7, <1>8, <2>1, <2>4
<1>9. CASE k # 0
  <2>1. PICK j : j = k - 1
    OBVIOUS
  <2>2. j \in Nat /\ j \in 0..n /\ k = j + 1 /\ ~(k =< j) /\ k \in 1..n
    BY <1>2, <1>7, <1>9, <2>1
  <2>3. EntriesCopied(m, entries, accs[j], j)
    BY <1>6, <2>2
  <2>4. accs[k] = CopyNext("entry", accs[j], entries[j + 1])
    BY <1>4, <2>1, <2>2 DEF CopiesOneByOne
  <2>5. EntriesCopied(m, entries, accs[k], j + 1)
    BY <1>1, <2>2, <2>3, <2>4, CopyOneEntry
  <2> QED
    BY <1>7, <2>2, <2>5
<1> QED
  BY <1>8, <1>9

\* What a reader of entries sees.
Shown(m, entries) ==
    [i \in DOMAIN entries |-> [entries[i] EXCEPT !.ips = Contents(m, @)]]

\* Copied entries show the same.
LEMMA ShownAlike ==
    ASSUME NEW n, NEW m, NEW entries, DOMAIN entries = 1..n,
           \A i \in 1..n : IsEntry(entries[i]),
           NEW m2, NEW copies, DOMAIN copies = 1..n,
           \A i \in 1..n : EntryCopied(m, entries[i], m2, copies[i])
    PROVE  Shown(m2, copies) = Shown(m, entries)
<1>1. \A i \in 1..n : [copies[i] EXCEPT !.ips = Contents(m2, @)]
                        = [entries[i] EXCEPT !.ips = Contents(m, @)]
  <2> TAKE i \in 1..n
  <2>1. PICK e, e2 : e = entries[i] /\ e2 = copies[i]
    OBVIOUS
  <2>2. PICK x : x = Contents(m, e.ips)
    OBVIOUS
  <2>3. IsEntry(e) /\ IsEntry(e2) /\ e2.service = e.service
        /\ e2.weight = e.weight /\ Contents(m2, e2.ips) = x
    BY <2>1, <2>2 DEF EntryCopied
  <2>4. [e EXCEPT !.ips = x]
          = [service |-> e.service, weight |-> e.weight, ips |-> x]
    BY <2>3 DEF IsEntry
  <2>5. [e2 EXCEPT !.ips = x]
          = [service |-> e2.service, weight |-> e2.weight, ips |-> x]
    BY <2>3 DEF IsEntry
  <2>6. [e2 EXCEPT !.ips = x] = [e EXCEPT !.ips = x]
    BY <2>3, <2>4, <2>5
  <2> QED
    BY <2>1, <2>2, <2>3, <2>6
<1> QED
  BY <1>1 DEF Shown

-----------------------------------------------------------------------------
(* Kanaries and their copies *)

\* A Kanary whose arrays and maps are in the part of memory from a to b.
KanaryIn(m, ky, a, b) ==
    /\ ky = [meta   |-> [annotations |-> ky.meta.annotations],
             spec   |-> [routes |-> ky.spec.routes],
             status |-> [eps |-> ky.status.eps]]
    /\ RefIn(ky.meta.annotations, a, b)
    /\ RefIn(ky.spec.routes, a, b)
    /\ RefIn(ky.status.eps, a, b)
    /\ EntriesIn(Contents(m, ky.status.eps), a, b)

\* A copied status is new as a whole and shows the same entries.
LEMMA CopyOfStatus ==
    ASSUME NEW m, IsList(m), NEW st, st = [eps |-> st.eps],
           RefIn(st.eps, 1, Len(m)),
           EntriesIn(Contents(m, st.eps), 1, Len(m)),
           NEW c, c = DeepCopyKanaryStatus(m, st)
    PROVE  /\ Grown(m, c.memory)
           /\ c.out = [eps |-> c.out.eps]
           /\ RefIn(c.out.eps, Len(m) + 1, Len(c.memory))
           /\ EntriesIn(Contents(c.memory, c.out.eps),
                        Len(m) + 1, Len(c.memory))
           /\ Shown(c.memory, Contents(c.memory, c.out.eps))
                = Shown(m, Contents(m, st.eps))
<1>1. PICK entries : entries = Contents(m, st.eps)
  OBVIOUS
<1>2. PICK n : n = Len(entries)
  OBVIOUS
<1>3. IsList(entries) /\ n \in Nat /\ DOMAIN entries = 1..n
  BY <1>1, <1>2, ListOf DEF EntriesIn, IsList
<1>4. CASE st.eps = Nil
  <2>1. c.memory = m /\ c.out = st
    BY <1>4 DEF DeepCopyKanaryStatus
  <2>2. entries = <<>>
    BY <1>1, <1>4 DEF Contents
  <2>3. IsList(<<>>) /\ Len(<<>>) = 0 /\ DOMAIN <<>> = 1..0
    BY EmptySeq, ListOf
  <2>4. EntriesIn(entries, Len(m) + 1, Len(c.memory))
    BY <2>2, <2>3 DEF EntriesIn
  <2>5. Shown(c.memory, entries) = Shown(m, entries)
    BY <2>1
  <2> QED
    BY <1>1, <1>4, <2>1, <2>4, <2>5, GrownReflexive DEF RefIn
<1>5. CASE st.eps # Nil
  <2>1. PICK acc :
          acc = FoldLeft(CopyEntry, [memory |-> m, out |-> <<>>], entries)
    OBVIOUS
  <2>2. EntriesCopied(m, entries, acc, n)
    BY <1>1, <1>2, <2>1, CopyAllEntries
  <2>3. PICK made : made = Made(acc.memory, acc.out)
    OBVIOUS
  <2>4. c.memory = made.memory /\ c.out = [st EXCEPT !.eps = made.out]
    <3>1. entries = m[st.eps]
      BY <1>1, <1>5 DEF Contents
    <3>2. acc = FoldLeft(CopyEntry, [memory |-> m, out |-> <<>>], m[st.eps])
      BY <2>1, <3>1
    <3>3. DeepCopyKanaryStatus(m, st) =
            IF st.eps = Nil THEN [memory |-> m, out |-> st]
            ELSE LET all == FoldLeft(CopyEntry, [memory |-> m, out |-> <<>>],
                                     m[st.eps])
                     new == Made(all.memory, all.out)
                 IN  [memory |-> new.memory,
                      out |-> [st EXCEPT !.eps = new.out]]
      BY DEF DeepCopyKanaryStatus, CopyEntry, FoldLeft, MapThenFoldSet
    <3>4. DeepCopyKanaryStatus(m, st) =
            [memory |-> made.memory, out |-> [st EXCEPT !.eps = made.out]]
      BY <1>5, <2>3, <3>2, <3>3
    <3> QED
      BY <3>4
  <2>5. /\ Grown(m, acc.memory) /\ IsList(acc.memory)
        /\ IsList(acc.out) /\ Len(acc.out) = n
    BY <2>2 DEF EntriesCopied, Grown
  <2>6. /\ Grown(acc.memory, c.memory)
        /\ Len(acc.memory) \in Nat /\ Len(c.memory) = Len(acc.memory) + 1
        /\ made.out = Len(acc.memory) + 1 /\ c.memory[made.out] = acc.out
    <3>1. PICK m2, x : m2 = acc.memory /\ x = acc.out
      OBVIOUS
    <3>2. IsList(m2) /\ made = Made(m2, x)
      BY <2>3, <2>5, <3>1
    <3>3. /\ Grown(m2, made.memory)
          /\ Len(m2) \in Nat /\ Len(made.memory) = Len(m2) + 1
          /\ made.out = Len(m2) + 1 /\ made.memory[made.out] = x
      BY <3>2, MadeGrows
    <3> QED
      BY <2>4, <3>1, <3>3
  <2>7. Grown(m, c.memory)
    BY <2>5, <2>6, GrownTransitive
  <2>8. c.out = [eps |-> made.out] /\ c.out.eps = made.out
    BY <2>4
  <2>9. Len(m) \in Nat /\ Len(m) =< Len(acc.memory)
    BY <2>5, ListOf DEF Grown, IsList
  <2>10. made.out \in Len(m) + 1..Len(c.memory) /\ made.out # Nil
    BY <2>6, <2>9 DEF Nil
  <2>11. Contents(c.memory, c.out.eps) = acc.out
    BY <2>6, <2>8, <2>10 DEF Contents
  <2>12. \A i \in 1..n : EntryCopied(m, entries[i], c.memory, acc.out[i])
    <3> TAKE i \in 1..n
    <3>1. EntryCopied(m, entries[i], acc.memory, acc.out[i])
      BY <2>2 DEF EntriesCopied
    <3> QED
      BY <2>6, <3>1, EntryStaysCopied
  <2>13. EntriesIn(acc.out, Len(m) + 1, Len(c.memory))
    BY <2>5, <2>12 DEF EntriesIn, EntryCopied
  <2>14. DOMAIN acc.out = 1..n
    BY <2>5, ListOf DEF IsList
  <2>15. \A i \in 1..n : IsEntry(entries[i])
    BY <1>1, <1>2 DEF EntriesIn
  <2>16. Shown(c.memory, acc.out) = Shown(m, entries)
    BY <1>3, <2>12, <2>14, <2>15, ShownAlike
  <2>17. RefIn(c.out.eps, Len(m) + 1, Len(c.memory))
    BY <2>8, <2>10 DEF RefIn
  <2> QED
    BY <1>1, <2>7, <2>8, <2>11, <2>13, <2>16, <2>17
<1> QED
  BY <1>4, <1>5

\* A Kanary stays what it is while memory grows.
LEMMA KanaryStays ==
    ASSUME NEW m, NEW m2, Grown(m, m2), NEW a \in Nat \ {0}, NEW b \in Nat,
           b =< Len(m), NEW ky, KanaryIn(m, ky, a, b)
    PROVE  /\ KanaryIn(m2, ky, a, b)
           /\ Routes(m2, ky) = Routes(m, ky)
           /\ Status(m2, ky) = Status(m, ky)
<1>1. Len(m) \in Nat /\ 1 =< a /\ 0 \in Nat /\ 1 \in Nat
  BY ListOf DEF Grown, IsList
<1>2. \A ref : RefIn(ref, a, b) => Contents(m2, ref) = Contents(m, ref)
  <2> TAKE ref
  <2> HAVE RefIn(ref, a, b)
  <2>1. RefIn(ref, 1, Len(m))
    BY <1>1, RefWidens
  <2> QED
    BY <2>1, GrownShows
<1>3. PICK entries : entries = Contents(m, ky.status.eps)
  OBVIOUS
<1>4. /\ Contents(m2, ky.status.eps) = entries
      /\ Contents(m2, ky.spec.routes) = Contents(m, ky.spec.routes)
      /\ EntriesIn(entries, a, b)
  BY <1>2, <1>3 DEF KanaryIn
<1>5. KanaryIn(m2, ky, a, b)
  BY <1>3, <1>4 DEF KanaryIn
<1>6. Shown(m2, entries) = Shown(m, entries)
  <2>1. DOMAIN entries = 1..Len(entries)
    BY <1>4, ListOf DEF EntriesIn, IsList
  <2>2. \A i \in DOMAIN entries :
          Contents(m2, entries[i].ips) = Contents(m, entries[i].ips)
    BY <1>2, <1>4, <2>1 DEF EntriesIn
  <2> QED
    BY <2>2 DEF Shown
<1>7. /\ Status(m2, ky) = Shown(m2, entries)
      /\ Status(m, ky) = Shown(m, entries)
  BY <1>3, <1>4 DEF Status, Shown
<1> QED
  BY <1>4, <1>5, <1>6, <1>7 DEF Routes

\* A part of memory is in a larger one.
LEMMA KanaryWidens ==
    ASSUME NEW m, NEW a \in Nat, NEW b \in Nat, NEW a2 \in Nat, NEW b2 \in Nat,
           a2 =< a, b =< b2, NEW ky, KanaryIn(m, ky, a, b)
    PROVE  KanaryIn(m, ky, a2, b2)
<1>1. \A ref : RefIn(ref, a, b) => RefIn(ref, a2, b2)
  BY RefWidens
<1>2. EntriesIn(Contents(m, ky.status.eps), a2, b2)
  BY <1>1 DEF KanaryIn, EntriesIn
<1> QED
  BY <1>1, <1>2 DEF KanaryIn

\* What a Kanary reaches is in its part of memory.
LEMMA ReachesOnly ==
    ASSUME NEW m, NEW ky, NEW a, NEW b, KanaryIn(m, ky, a, b)
    PROVE  Reached(m, ky) \subseteq a..b
<1>1. PICK entries : entries = Contents(m, ky.status.eps)
  OBVIOUS
<1>2. EntriesIn(entries, a, b)
  BY <1>1 DEF KanaryIn
<1>3. DOMAIN entries = 1..Len(entries)
  BY <1>2, ListOf DEF EntriesIn, IsList
<1>4. \A e \in ToSet(entries) : RefIn(e.ips, a, b)
  BY <1>2, <1>3 DEF ToSet, EntriesIn
<1>5. /\ RefIn(ky.meta.annotations, a, b)
      /\ RefIn(ky.spec.routes, a, b)
      /\ RefIn(ky.status.eps, a, b)
  BY DEF KanaryIn
<1>6. Reached(m, ky) = ({ky.meta.annotations, ky.spec.routes, ky.status.eps}
                         \cup {e.ips : e \in ToSet(entries)}) \ {Nil}
  BY <1>1 DEF Reached
<1> QED
  BY <1>4, <1>5, <1>6 DEF RefIn

\* A copy of a Kanary is new as a whole and shows the same.
LEMMA CopyOfKanary ==
    ASSUME NEW m, IsList(m), NEW ky, KanaryIn(m, ky, 1, Len(m)),
           NEW c, c = DeepCopyKanary(m, ky)
    PROVE  /\ Grown(m, c.memory)
           /\ KanaryIn(c.memory, c.out, Len(m) + 1, Len(c.memory))
           /\ Routes(c.memory, c.out) = Routes(m, ky)
           /\ Status(c.memory, c.out) = Status(m, ky)
<1>0. Len(m) \in Nat /\ 1 \in Nat \ {0}
  BY ListOf DEF IsList
<1>1. PICK c1 : c1 = Cloned(m, ky.meta.annotations)
  OBVIOUS
<1>2. PICK c2 : c2 = Cloned(c1.memory, ky.spec.routes)
  OBVIOUS
<1>3. PICK c3 : c3 = DeepCopyKanaryStatus(c2.memory, ky.status)
  OBVIOUS
<1>4. /\ ky.meta = [annotations |-> ky.meta.annotations]
      /\ ky.spec = [routes |-> ky.spec.routes]
      /\ ky.status = [eps |-> ky.status.eps]
  BY DEF KanaryIn
<1>5. /\ c.memory = c3.memory
      /\ c.out = [meta |-> [annotations |-> c1.out],
                  spec |-> [routes |-> c2.out], status |-> c3.out]
  <2>1. DeepCopyKanary(m, ky) =
          [memory |-> c3.memory,
           out |-> [meta |-> [ky.meta EXCEPT !.annotations = c1.out],
                    spec |-> [ky.spec EXCEPT !.routes = c2.out],
                    status |-> c3.out]]
    BY <1>1, <1>2, <1>3
       DEF DeepCopyKanary, DeepCopyObjectMeta, DeepCopyKanarySpec
  <2>2. /\ [ky.meta EXCEPT !.annotations = c1.out] = [annotations |-> c1.out]
        /\ [ky.spec EXCEPT !.routes = c2.out] = [routes |-> c2.out]
    BY <1>4
  <2> QED
    BY <2>1, <2>2
<1>6. /\ Grown(m, c1.memory) /\ IsList(c1.memory)
      /\ RefIn(c1.out, Len(m) + 1, Len(c1.memory))
  <2>1. RefIn(ky.meta.annotations, 1, Len(m))
    BY DEF KanaryIn
  <2>2. /\ Grown(m, c1.memory)
        /\ RefIn(c1.out, Len(m) + 1, Len(c1.memory))
    BY <1>1, <2>1, ClonedGrows
  <2> QED
    BY <2>2 DEF Grown
<1>7. Len(c1.memory) \in Nat /\ Len(m) =< Len(c1.memory)
  BY <1>6, ListOf DEF Grown, IsList
<1>8. /\ KanaryIn(c1.memory, ky, 1, Len(m))
      /\ Routes(c1.memory, ky) = Routes(m, ky)
      /\ Status(c1.memory, ky) = Status(m, ky)
  <2>1. Len(m) =< Len(m)
    BY <1>0
  <2> QED
    BY <1>0, <1>6, <2>1, KanaryStays
<1>9. KanaryIn(c1.memory, ky, 1, Len(c1.memory))
  BY <1>0, <1>7, <1>8, KanaryWidens
<1>10. /\ Grown(c1.memory, c2.memory) /\ IsList(c2.memory)
       /\ RefIn(c2.out, Len(c1.memory) + 1, Len(c2.memory))
       /\ Contents(c2.memory, c2.out) = Routes(m, ky)
  <2>1. RefIn(ky.spec.routes, 1, Len(c1.memory))
    BY <1>9 DEF KanaryIn
  <2>2. /\ Grown(c1.memory, c2.memory)
        /\ RefIn(c2.out, Len(c1.memory) + 1, Len(c2.memory))
        /\ Contents(c2.memory, c2.out) = Contents(c1.memory, ky.spec.routes)
    BY <1>2, <1>6, <2>1, ClonedGrows
  <2> QED
    BY <1>8, <2>2 DEF Grown, Routes
<1>11. Len(c2.memory) \in Nat /\ Len(c1.memory) =< Len(c2.memory)
  BY <1>10, ListOf DEF Grown, IsList
<1>12. /\ KanaryIn(c2.memory, ky, 1, Len(c1.memory))
       /\ Status(c2.memory, ky) = Status(m, ky)
  <2>1. PICK m1, m2, b : m1 = c1.memory /\ m2 = c2.memory /\ b = Len(m1)
    OBVIOUS
  <2>2. /\ Grown(m1, m2) /\ b \in Nat /\ b =< Len(m1) /\ KanaryIn(m1, ky, 1, b)
    BY <1>7, <1>9, <1>10, <2>1
  <2>3. KanaryIn(m2, ky, 1, b) /\ Status(m2, ky) = Status(m1, ky)
    BY <1>0, <2>2, KanaryStays
  <2>4. /\ KanaryIn(c2.memory, ky, 1, Len(c1.memory))
        /\ Status(c2.memory, ky) = Status(c1.memory, ky)
    BY <2>1, <2>3
  <2> QED
    BY <1>8, <2>4
<1>13. KanaryIn(c2.memory, ky, 1, Len(c2.memory))
  BY <1>0, <1>7, <1>11, <1>12, KanaryWidens
<1>14. PICK copies : copies = Contents(c3.memory, c3.out.eps)
  OBVIOUS
<1>15. /\ Grown(c2.memory, c3.memory) /\ IsList(c3.memory)
       /\ c3.out = [eps |-> c3.out.eps]
       /\ RefIn(c3.out.eps, Len(c2.memory) + 1, Len(c3.memory))
       /\ EntriesIn(copies, Len(c2.memory) + 1, Len(c3.memory))
       /\ Shown(c3.memory, copies) = Status(m, ky)
  <2>1. /\ RefIn(ky.status.eps, 1, Len(c2.memory))
        /\ EntriesIn(Contents(c2.memory, ky.status.eps), 1, Len(c2.memory))
    BY <1>13 DEF KanaryIn
  <2>2. /\ Grown(c2.memory, c3.memory)
        /\ c3.out = [eps |-> c3.out.eps]
        /\ RefIn(c3.out.eps, Len(c2.memory) + 1, Len(c3.memory))
        /\ EntriesIn(copies, Len(c2.memory) + 1, Len(c3.memory))
        /\ Shown(c3.memory, copies)
             = Shown(c2.memory, Contents(c2.memory, ky.status.eps))
    BY <1>3, <1>4, <1>10, <1>14, <2>1, CopyOfStatus
  <2>3. Status(c2.memory, ky)
          = Shown(c2.memory, Contents(c2.memory, ky.status.eps))
    BY DEF Status, Shown
  <2> QED
    BY <1>12, <2>2, <2>3 DEF Grown
<1>16. Len(c3.memory) \in Nat /\ Len(c2.memory) =< Len(c3.memory)
  BY <1>15, ListOf DEF Grown, IsList
<1>17. Grown(m, c3.memory)
  <2>1. Grown(m, c2.memory)
    BY <1>6, <1>10, GrownTransitive
  <2> QED
    BY <1>15, <2>1, GrownTransitive
<1>18. PICK a, b : a = Len(m) + 1 /\ b = Len(c3.memory)
  OBVIOUS
<1>19. /\ a \in Nat /\ b \in Nat
       /\ a =< Len(c1.memory) + 1 /\ Len(c1.memory) + 1 \in Nat
       /\ a =< Len(c2.memory) + 1 /\ Len(c2.memory) + 1 \in Nat
       /\ Len(c1.memory) =< b /\ Len(c2.memory) =< b /\ a =< a /\ b =< b
  BY <1>0, <1>7, <1>11, <1>16, <1>18
<1>20. RefIn(c1.out, a, b) /\ RefIn(c2.out, a, b) /\ RefIn(c3.out.eps, a, b)
  <2>1. RefIn(c1.out, a, b)
    BY <1>6, <1>7, <1>18, <1>19, RefWidens
  <2>2. RefIn(c2.out, a, b)
    BY <1>10, <1>11, <1>19, RefWidens
  <2>3. RefIn(c3.out.eps, a, b)
    BY <1>15, <1>18, <1>19, RefWidens
  <2> QED
    BY <2>1, <2>2, <2>3
<1>21. EntriesIn(copies, a, b)
  <2>1. \A ref : RefIn(ref, Len(c2.memory) + 1, Len(c3.memory))
                   => RefIn(ref, a, b)
    BY <1>18, <1>19, RefWidens
  <2> QED
    BY <1>15, <2>1 DEF EntriesIn
<1>22. KanaryIn(c.memory, c.out, a, b)
  <2>1. /\ c.out.meta.annotations = c1.out /\ c.out.spec.routes = c2.out
        /\ c.out.status.eps = c3.out.eps
        /\ c.out = [meta |-> [annotations |-> c1.out],
                    spec |-> [routes |-> c2.out],
                    status |-> [eps |-> c3.out.eps]]
    BY <1>5, <1>15
  <2>2. Contents(c.memory, c.out.status.eps) = copies
    BY <1>5, <1>14, <2>1
  <2> QED
    BY <1>20, <1>21, <2>1, <2>2 DEF KanaryIn
<1>23. Routes(c.memory, c.out) = Routes(m, ky)
  <2>1. RefIn(c2.out, 1, Len(c2.memory))
    <3>1. 1 =< Len(c1.memory) + 1 /\ Len(c2.memory) =< Len(c2.memory)
      BY <1>7, <1>11
    <3> QED
      BY <1>0, <1>10, <1>11, <1>19, <3>1, RefWidens
  <2>2. Contents(c3.memory, c2.out) = Contents(c2.memory, c2.out)
    BY <1>15, <2>1, GrownShows
  <2>3. Routes(c.memory, c.out) = Contents(c3.memory, c2.out)
    BY <1>5 DEF Routes
  <2> QED
    BY <1>10, <2>2, <2>3
<1>24. Status(c.memory, c.out) = Status(m, ky)
  <2>1. Status(c.memory, c.out) = Shown(c3.memory, copies)
    <3>1. c.out.status.eps = c3.out.eps
      BY <1>5
    <3> QED
      BY <1>5, <1>14, <3>1 DEF Status, Shown
  <2> QED
    BY <1>15, <2>1
<1> QED
  BY <1>5, <1>17, <1>18, <1>22, <1>23, <1>24

\* A decoded Kanary is new as a whole and shows what was decoded.
LEMMA DecodedKanary ==
    ASSUME NEW m, IsList(m), NEW rts, NEW st, IsStatus(st),
           NEW d, d = Decoded(m, rts, st)
    PROVE  /\ Grown(m, d.memory)
           /\ KanaryIn(d.memory, d.out, Len(m) + 1, Len(d.memory))
           /\ Routes(d.memory, d.out) = rts
<1>1. PICK at, n : at = Len(m) /\ n = Len(st)
  OBVIOUS
<1>2. at \in Nat /\ n \in Nat /\ DOMAIN st = 1..n
  BY <1>1, ListOf DEF IsStatus, IsList
<1>3. PICK entries :
        entries = [i \in 1..n |-> [st[i] EXCEPT !.ips = at + 2 + i]]
  OBVIOUS
<1>4. PICK ips : ips = [i \in 1..n |-> st[i].ips]
  OBVIOUS
<1>5. /\ IsList(entries) /\ Len(entries) = n /\ DOMAIN entries = 1..n
      /\ IsList(ips) /\ Len(ips) = n
  <2>1. /\ entries = [i \in 1..n |-> entries[i]]
        /\ ips = [i \in 1..n |-> ips[i]]
    BY <1>3, <1>4
  <2> QED
    BY <1>2, <2>1, ListOn
<1>6. PICK two : two = <<rts, entries>>
  OBVIOUS
<1>7. PICK m1, m2 : m1 = m \o two /\ m2 = m1 \o ips
  OBVIOUS
<1>8. /\ d.memory = m2
      /\ d.out = [meta |-> [annotations |-> Nil],
                  spec |-> [routes |-> IF rts = <<>> THEN Nil ELSE at + 1],
                  status |-> [eps |-> IF st = <<>> THEN Nil ELSE at + 2]]
  <2>1. d = [memory |-> m \o <<rts, entries>> \o ips,
             out |-> [meta |-> [annotations |-> Nil],
                  spec |-> [routes |-> IF rts = <<>> THEN Nil ELSE at + 1],
                  status |-> [eps |-> IF st = <<>> THEN Nil ELSE at + 2]]]
    BY <1>1, <1>2, <1>3, <1>4 DEF Decoded
  <2> QED
    BY <1>6, <1>7, <2>1
<1>9. PICK S : S = ToSet(m) \cup {rts, entries} \cup ToSet(ips)
  OBVIOUS
<1>10. m \in Seq(S) /\ two \in Seq(S) /\ ips \in Seq(S)
  <2>1. m \in Seq(ToSet(m)) /\ ips \in Seq(ToSet(ips))
    BY <1>5 DEF IsList
  <2>2. ToSet(m) \subseteq S /\ ToSet(ips) \subseteq S /\ rts \in S /\ entries \in S
    BY <1>9
  <2>3. m \in Seq(S) /\ ips \in Seq(S)
    BY <2>1, <2>2, SeqMonotonic
  <2>4. two \in Seq(S)
    BY <1>6, <2>2
  <2> QED
    BY <2>3, <2>4
<1>11. /\ m1 \in Seq(S) /\ Len(m1) = at + 2
       /\ \A i \in 1..at : m1[i] = m[i]
       /\ m1[at + 1] = rts /\ m1[at + 2] = entries
  <2>1. Len(two) = 2 /\ two[1] = rts /\ two[2] = entries
    BY <1>6
  <2>2. /\ m1 \in Seq(S) /\ Len(m1) = Len(m) + Len(two)
        /\ \A i \in 1..Len(m) + Len(two) :
              m1[i] = IF i <= Len(m) THEN m[i] ELSE two[i - Len(m)]
    BY <1>7, <1>10, ConcatProperties
  <2>3. \A i \in 1..at + 2 : m1[i] = IF i <= at THEN m[i] ELSE two[i - at]
    BY <1>1, <2>1, <2>2
  <2>4. \A i \in 1..at : m1[i] = m[i]
    BY <1>2, <2>3
  <2>5. m1[at + 1] = two[1] /\ m1[at + 2] = two[2]
    <3>1. /\ at + 1 \in 1..at + 2 /\ ~(at + 1 <= at) /\ at + 1 - at = 1
          /\ at + 2 \in 1..at + 2 /\ ~(at + 2 <= at) /\ at + 2 - at = 2
      BY <1>2
    <3>2. PICK i, j : i = at + 1 /\ j = at + 2
      OBVIOUS
    <3>3. m1[i] = two[i - at] /\ m1[j] = two[j - at]
      BY <2>3, <3>1, <3>2
    <3>4. i - at = 1 /\ j - at = 2
      BY <1>2, <3>2
    <3> QED
      BY <3>2, <3>3, <3>4
  <2> QED
    BY <1>1, <2>1, <2>2, <2>4, <2>5
<1>12. /\ m2 \in Seq(S) /\ Len(m2) = at + 2 + n
       /\ \A i \in 1..at + 2 : m2[i] = m1[i]
  <2>1. /\ m2 \in Seq(S) /\ Len(m2) = Len(m1) + Len(ips)
        /\ \A i \in 1..Len(m1) + Len(ips) :
              m2[i] = IF i <= Len(m1) THEN m1[i] ELSE ips[i - Len(m1)]
    <3>1. m1 \in Seq(S) /\ ips \in Seq(S) /\ m2 = m1 \o ips
      BY <1>7, <1>10, <1>11
    <3> QED
      BY <3>1, ConcatProperties
  <2>2. /\ Len(m2) = at + 2 + n
        /\ \A i \in 1..at + 2 + n :
              m2[i] = IF i <= at + 2 THEN m1[i] ELSE ips[i - (at + 2)]
    BY <1>5, <1>11, <2>1
  <2>3. \A i \in 1..at + 2 : i \in 1..at + 2 + n /\ i <= at + 2
    BY <1>2
  <2> QED
    BY <2>1, <2>2, <2>3
<1>13. Grown(m, m2)
  <2>1. IsList(m2)
    BY <1>12, ListOf
  <2>2. at =< Len(m2) /\ \A i \in 1..at : i \in 1..at + 2
    BY <1>2, <1>12
  <2> QED
    BY <1>1, <1>11, <1>12, <2>1, <2>2 DEF Grown
<1>14. m2[at + 1] = rts /\ m2[at + 2] = entries
  <2>1. at + 1 \in 1..at + 2 /\ at + 2 \in 1..at + 2
    BY <1>2
  <2> QED
    BY <1>11, <1>12, <2>1
<1>15. PICK a, b : a = at + 1 /\ b = Len(m2)
  OBVIOUS
<1>16. /\ at + 1 \in a..b /\ at + 2 \in a..b /\ at + 1 # Nil /\ at + 2 # Nil
       /\ \A i \in 1..n : at + 2 + i \in a..b
  BY <1>2, <1>12, <1>15 DEF Nil
<1>17. EntriesIn(Contents(m2, d.out.status.eps), a, b)
  <2>1. CASE st = <<>>
    <3>1. Contents(m2, d.out.status.eps) = <<>>
      BY <1>8, <2>1 DEF Contents
    <3>2. IsList(<<>>) /\ Len(<<>>) = 0
      BY EmptySeq, ListOf
    <3> QED
      BY <3>1, <3>2 DEF EntriesIn
  <2>2. CASE st # <<>>
    <3>1. Contents(m2, d.out.status.eps) = entries
      BY <1>8, <1>14, <1>16, <2>2 DEF Contents
    <3>2. \A i \in 1..n : IsEntry(entries[i]) /\ entries[i].ips = at + 2 + i
      <4> TAKE i \in 1..n
      <4>1. PICK e, x : e = st[i] /\ x = at + 2 + i
        OBVIOUS
      <4>2. e = [service |-> e.service, weight |-> e.weight, ips |-> e.ips]
        BY <1>2, <4>1 DEF IsStatus, IsEntry
      <4>3. entries[i] = [e EXCEPT !.ips = x]
        BY <1>3, <4>1
      <4>4. entries[i] = [service |-> e.service, weight |-> e.weight, ips |-> x]
        BY <4>2, <4>3
      <4> QED
        BY <4>1, <4>4 DEF IsEntry
    <3> QED
      BY <1>5, <1>16, <3>1, <3>2 DEF EntriesIn, RefIn
  <2> QED
    BY <2>1, <2>2
<1>18. KanaryIn(m2, d.out, a, b)
  <2>1. /\ d.out.meta.annotations = Nil
        /\ d.out.spec.routes \in {Nil, at + 1}
        /\ d.out.status.eps \in {Nil, at + 2}
        /\ d.out = [meta   |-> [annotations |-> d.out.meta.annotations],
                    spec   |-> [routes |-> d.out.spec.routes],
                    status |-> [eps |-> d.out.status.eps]]
    BY <1>8
  <2> QED
    BY <1>16, <1>17, <2>1 DEF KanaryIn, RefIn
<1>19. Routes(m2, d.out) = rts
  BY <1>8, <1>14, <1>16 DEF Routes, Contents
<1> QED
  BY <1>1, <1>8, <1>13, <1>15, <1>18, <1>19

\* The names are in memory m2, and memory m is as it was.
NamesWritten(m, m2, ref, names) == IsPrefix(m, m2) /\ ToSet(m2[ref]) = names

\* addKanaryRefInEp on a cached Endpoints object: the names are in a map that
\* is new.
LEMMA AnnotatedCopy ==
    ASSUME NEW m, IsList(m), NEW owner, NEW other,
           NEW map, map = Made(m, <<other>>),
           NEW ep, ep = [annotations |-> map.out],
           NEW new, new = AnnotateCopy(map.memory, ep, owner)
    PROVE  NamesWritten(map.memory, new.memory, new.out.annotations,
                        {owner, other})
<1>1. /\ Grown(m, map.memory) /\ IsList(map.memory)
      /\ Len(m) \in Nat /\ Len(map.memory) = Len(m) + 1
      /\ map.out = Len(m) + 1 /\ map.memory[map.out] = <<other>>
  <2>1. /\ Grown(m, map.memory)
        /\ Len(m) \in Nat /\ Len(map.memory) = Len(m) + 1
        /\ map.out = Len(m) + 1 /\ map.memory[map.out] = <<other>>
    BY MadeGrows
  <2> QED
    BY <2>1 DEF Grown
<1>2. PICK c : c = Made(map.memory, <<other>>)
  OBVIOUS
<1>3. /\ Grown(map.memory, c.memory) /\ Len(map.memory) \in Nat
      /\ Len(c.memory) = Len(map.memory) + 1
      /\ c.out = Len(map.memory) + 1 /\ c.memory[c.out] = <<other>>
  BY <1>1, <1>2, MadeGrows
<1>4. map.out # Nil /\ c.out # Nil
  BY <1>1, <1>3 DEF Nil
<1>5. PICK refs : refs = addKanaryRefInEp(<<other>>, owner)
  OBVIOUS
<1>6. ToSet(refs) = {owner, other}
  <2>1. Len(<<other>>) = 1 /\ <<other>>[1] = other /\ DOMAIN <<other>> = 1..1
    OBVIOUS
  <2>2. \A i \in 1..1 : i = 1
    OBVIOUS
  <2>3. CASE owner = other
    <3>1. Contains(<<other>>, owner)
      BY <2>1, <2>3 DEF Contains
    <3>2. refs = <<other>>
      BY <1>5, <3>1 DEF addKanaryRefInEp
    <3> QED
      BY <2>1, <2>2, <2>3, <3>2 DEF ToSet
  <2>4. CASE owner # other
    <3>1. ~Contains(<<other>>, owner)
      BY <2>1, <2>2, <2>4 DEF Contains
    <3>2. refs = Append(<<other>>, owner)
      BY <1>5, <3>1 DEF addKanaryRefInEp
    <3>3. DOMAIN refs = 1..2 /\ refs[1] = other /\ refs[2] = owner
      <4>1. PICK one : one = <<other>>
        OBVIOUS
      <4>2. IsList(one) /\ Len(one) = 1 /\ one[1] = other
        BY <2>1, <4>1 DEF IsList, ToSet
      <4>3. /\ IsList(Append(one, owner)) /\ Len(Append(one, owner)) = Len(one) + 1
            /\ \A i \in 1..Len(one) : Append(one, owner)[i] = one[i]
            /\ Append(one, owner)[Len(one) + 1] = owner
        BY <4>2, OneMore
      <4>4. IsList(refs) /\ Len(refs) = 2 /\ refs[1] = other /\ refs[2] = owner
        BY <3>2, <4>1, <4>2, <4>3
      <4> QED
        BY <4>4, ListOf DEF IsList
    <3> QED
      BY <3>3 DEF ToSet
  <2> QED
    BY <2>3, <2>4
<1>7. /\ new.memory = [c.memory EXCEPT ![c.out] = refs]
      /\ new.out.annotations = c.out
  <2>1. Cloned(map.memory, map.out) = c
    BY <1>1, <1>2, <1>4 DEF Cloned
  <2>2. DeepCopyObjectMeta(map.memory, ep)
          = [memory |-> c.memory, out |-> [annotations |-> c.out]]
    BY <2>1 DEF DeepCopyObjectMeta
  <2>3. Contents(c.memory, c.out) = <<other>> /\ <<other>> # <<>>
    BY <1>3, <1>4 DEF Contents
  <2> QED
    BY <1>5, <2>2, <2>3 DEF AnnotateCopy
<1>8. c.out \in 1..Len(c.memory) /\ IsList(c.memory)
  BY <1>3 DEF Grown
<1>9. PICK S : S = ToSet(c.memory) \cup {refs}
  OBVIOUS
<1>10. c.memory \in Seq(S)
  <2>1. ToSet(c.memory) \subseteq S
    BY <1>9
  <2> QED
    BY <1>8, <2>1, SeqMonotonic DEF IsList
<1>11. /\ new.memory \in Seq(S) /\ Len(new.memory) = Len(c.memory)
       /\ \A j \in 1..Len(c.memory) :
             new.memory[j] = IF j = c.out THEN refs ELSE c.memory[j]
  <2>1. PICK m2, i : m2 = c.memory /\ i = c.out
    OBVIOUS
  <2>2. m2 \in Seq(S) /\ i \in 1..Len(m2) /\ refs \in S
    BY <1>8, <1>9, <1>10, <2>1
  <2>3. /\ [m2 EXCEPT ![i] = refs] \in Seq(S)
        /\ Len([m2 EXCEPT ![i] = refs]) = Len(m2)
        /\ \A j \in 1..Len(m2) :
              [m2 EXCEPT ![i] = refs][j] = IF j = i THEN refs ELSE m2[j]
    BY <2>2, ExceptSeq
  <2>4. new.memory = [m2 EXCEPT ![i] = refs]
    BY <1>7, <2>1
  <2> QED
    BY <2>1, <2>3, <2>4
<1>12. Grown(map.memory, new.memory)
  <2>1. IsList(new.memory)
    BY <1>11, ListOf
  <2>2. Len(map.memory) =< Len(new.memory)
    BY <1>3, <1>11
  <2>3. \A i \in 1..Len(map.memory) : new.memory[i] = map.memory[i]
    <3> TAKE i \in 1..Len(map.memory)
    <3>1. i \in 1..Len(c.memory) /\ i # c.out
      BY <1>3
    <3>2. c.memory[i] = map.memory[i]
      BY <1>3 DEF Grown
    <3> QED
      BY <1>11, <3>1, <3>2
  <2> QED
    BY <1>1, <2>1, <2>2, <2>3 DEF Grown
<1>13. new.memory[new.out.annotations] = refs
  BY <1>7, <1>8, <1>11
<1> QED
  BY <1>6, <1>12, <1>13, GrownIsPrefix DEF NamesWritten

\* Spec => []CachedObjectsAreNotWritten: updateStatusEndpoint and
\* addKanaryRefInEp write to copies only, whatever the lengths of the lists.
THEOREM CacheIsNotWritten == Spec => []CachedObjectsAreNotWritten
<1>1. TypeOK /\ SettledInv => CachedObjectsAreNotWritten
  <2> SUFFICES ASSUME TypeOK, SettledInv PROVE CachedObjectsAreNotWritten
    OBVIOUS
  <2>1. PICK ky : ky = Decoded(<<>>, routes, status)
    OBVIOUS
  <2>2. PICK list : list = Made(ky.memory, <<>>)
    OBVIOUS
  <2>3. PICK c : c = DeepCopyKanary(list.memory, ky.out)
    OBVIOUS
  <2>4. PICK recorded : recorded = RecordInCopy(list.memory, ky.out, list.out)
    OBVIOUS
  <2>5. IsList(<<>>) /\ Len(<<>>) = 0 /\ DOMAIN <<>> = 1..0
    BY EmptySeq, ListOf
  <2>6. /\ Grown(<<>>, ky.memory) /\ IsList(ky.memory)
        /\ KanaryIn(ky.memory, ky.out, 1, Len(ky.memory))
        /\ Routes(ky.memory, ky.out) = routes
    <3>1. IsStatus(status)
      BY DEF SettledInv
    <3>2. /\ Grown(<<>>, ky.memory)
          /\ KanaryIn(ky.memory, ky.out, Len(<<>>) + 1, Len(ky.memory))
          /\ Routes(ky.memory, ky.out) = routes
      BY <2>1, <2>5, <3>1, DecodedKanary
    <3>3. Len(<<>>) + 1 = 1
      BY <2>5
    <3> QED
      BY <3>2, <3>3 DEF Grown
  <2>7. /\ Grown(ky.memory, list.memory) /\ IsList(list.memory)
        /\ Len(ky.memory) \in Nat /\ Len(list.memory) = Len(ky.memory) + 1
        /\ list.out = Len(ky.memory) + 1 /\ list.memory[list.out] = <<>>
    <3>1. /\ Grown(ky.memory, list.memory)
          /\ Len(ky.memory) \in Nat /\ Len(list.memory) = Len(ky.memory) + 1
          /\ list.out = Len(ky.memory) + 1 /\ list.memory[list.out] = <<>>
      BY <2>2, <2>6, MadeGrows
    <3> QED
      BY <3>1 DEF Grown
  <2>8. /\ KanaryIn(list.memory, ky.out, 1, Len(ky.memory))
        /\ Routes(list.memory, ky.out) = routes
    <3>1. 1 \in Nat \ {0} /\ Len(ky.memory) =< Len(ky.memory)
      BY <2>7
    <3> QED
      BY <2>6, <2>7, <3>1, KanaryStays
  <2>9. KanaryIn(list.memory, ky.out, 1, Len(list.memory))
    <3>1. /\ 1 \in Nat /\ 1 =< 1 /\ Len(list.memory) \in Nat
          /\ Len(ky.memory) =< Len(list.memory)
      BY <2>7
    <3> QED
      BY <2>7, <2>8, <3>1, KanaryWidens
  <2>10. /\ Grown(list.memory, c.memory)
         /\ KanaryIn(c.memory, c.out, Len(list.memory) + 1, Len(c.memory))
         /\ Routes(c.memory, c.out) = routes
    BY <2>3, <2>7, <2>8, <2>9, CopyOfKanary
  <2>11. /\ recorded.memory = c.memory
         /\ recorded.out.status.eps = list.out
         /\ recorded.out.spec = c.out.spec
    <3>1. recorded.memory = c.memory
          /\ recorded.out = [c.out EXCEPT !.status.eps = list.out]
      BY <2>3, <2>4 DEF RecordInCopy
    <3>2. c.out = [meta   |-> [annotations |-> c.out.meta.annotations],
                   spec   |-> [routes |-> c.out.spec.routes],
                   status |-> [eps |-> c.out.status.eps]]
      BY <2>10 DEF KanaryIn
    <3> QED
      BY <3>1, <3>2
  <2>12. IsPrefix(list.memory, recorded.memory)
    BY <2>10, <2>11, GrownIsPrefix
  <2>13. Status(recorded.memory, recorded.out) = <<>>
    <3>1. list.out \in 1..Len(list.memory) /\ list.out # Nil
      BY <2>7 DEF Nil
    <3>2. Contents(recorded.memory, recorded.out.status.eps) = <<>>
      BY <2>7, <2>10, <2>11, <3>1 DEF Contents, Grown
    <3> QED
      BY <3>2, <2>5 DEF Status
  <2>14. Routes(recorded.memory, recorded.out) = routes
    BY <2>10, <2>11 DEF Routes
  <2>15. \A owner, other \in Services :
            LET map == Made(list.memory, <<other>>)
                ep == [annotations |-> map.out]
                new == AnnotateCopy(map.memory, ep, owner)
            IN  /\ IsPrefix(map.memory, new.memory)
                /\ ToSet(new.memory[new.out.annotations]) = {owner, other}
    <3> TAKE owner, other \in Services
    <3>1. PICK map : map = Made(list.memory, <<other>>)
      OBVIOUS
    <3>2. PICK ep : ep = [annotations |-> map.out]
      OBVIOUS
    <3>3. PICK new : new = AnnotateCopy(map.memory, ep, owner)
      OBVIOUS
    <3>4. NamesWritten(map.memory, new.memory, new.out.annotations,
                       {owner, other})
      <4>1. PICK m : m = list.memory
        OBVIOUS
      <4>2. IsList(m) /\ map = Made(m, <<other>>)
        BY <2>7, <3>1, <4>1
      <4> QED
        BY <3>2, <3>3, <4>2, AnnotatedCopy
    <3> QED
      BY <3>1, <3>2, <3>3, <3>4 DEF NamesWritten
  <2> QED
    BY <2>1, <2>2, <2>4, <2>12, <2>13, <2>14, <2>15, Zenon
       DEF CachedObjectsAreNotWritten
<1> QED
  BY <1>1, SettledInvariant, PTL

\* A list of one and an element more.
LEMMA AppendToOne ==
    ASSUME NEW x, NEW y
    PROVE  Append(<<x>>, y) = <<x, y>>
<1>1. PICK s, t : s = <<x>> /\ t = <<x, y>>
  OBVIOUS
<1>2. s \in Seq({x, y}) /\ t \in Seq({x, y})
  BY <1>1
<1>3. Len(s) = 1 /\ s[1] = x /\ Len(t) = 2 /\ t[1] = x /\ t[2] = y
  BY <1>1
<1>4. PICK u : u = Append(s, y)
  OBVIOUS
<1>5. /\ u \in Seq({x, y}) /\ Len(u) = Len(s) + 1
      /\ \A i \in 1..Len(s) : u[i] = s[i]
      /\ u[Len(s) + 1] = y
  BY <1>2, <1>4, AppendProperties
<1>6. Len(u) = 2 /\ u[1] = x /\ u[2] = y
  BY <1>3, <1>5
<1>7. \A i \in 1..2 : i = 1 \/ i = 2
  OBVIOUS
<1>8. u = t
  BY <1>2, <1>3, <1>5, <1>6, <1>7, SeqEqual
<1> QED
  BY <1>1, <1>4, <1>8

\* A list of two Kanaries is copied one after the other, then the array.
LEMMA CopyOfTwo ==
    ASSUME NEW m, NEW items, items # Nil, NEW ky1, NEW ky2,
           m[items] = <<ky1, ky2>>,
           NEW c1, c1 = DeepCopyKanary(m, ky1),
           NEW c2, c2 = DeepCopyKanary(c1.memory, ky2)
    PROVE  DeepCopyKanaryList(m, items) = Made(c2.memory, <<c1.out, c2.out>>)
<1>1. PICK kys, base : kys = <<ky1, ky2>> /\ base = [memory |-> m, out |-> <<>>]
  OBVIOUS
<1>2. DOMAIN kys = 1..2 /\ kys[1] = ky1 /\ kys[2] = ky2
  BY <1>1
<1>3. PICK accs : /\ CopiesOneByOne(accs, "item", base, kys, 2)
                  /\ accs[2] = FoldLeft(CopyItem, base, kys)
  BY <1>2, FoldOfItems
<1>4. /\ accs[0] = base
      /\ \A k \in 1..2 : accs[k] = CopyItem(accs[k-1], kys[k])
  BY <1>3 DEF CopiesOneByOne, CopyNext
<1>5. accs[1] = CopyItem(base, ky1) /\ accs[2] = CopyItem(accs[1], ky2)
  <2>1. 1 \in 1..2 /\ 2 \in 1..2 /\ 1 - 1 = 0 /\ 2 - 1 = 1
    OBVIOUS
  <2>2. \A k \in 1..2 : accs[k] = CopyItem(accs[k-1], kys[k])
    BY <1>4
  <2>3. accs[1] = CopyItem(accs[1-1], kys[1]) /\ accs[2] = CopyItem(accs[2-1], kys[2])
    BY <2>1, <2>2
  <2> QED
    BY <1>2, <1>4, <2>1, <2>3
<1>6. accs[1] = [memory |-> c1.memory, out |-> <<c1.out>>]
  <2>1. base.memory = m /\ base.out = <<>>
    BY <1>1
  <2>2. accs[1] = [memory |-> c1.memory, out |-> Append(<<>>, c1.out)]
    BY <1>5, <2>1 DEF CopyItem
  <2> QED
    BY <2>2
<1>7. accs[2] = [memory |-> c2.memory, out |-> <<c1.out, c2.out>>]
  <2>1. accs[1].memory = c1.memory /\ accs[1].out = <<c1.out>>
    BY <1>6
  <2>2. accs[2] = [memory |-> c2.memory, out |-> Append(<<c1.out>>, c2.out)]
    BY <1>5, <2>1 DEF CopyItem
  <2>3. Append(<<c1.out>>, c2.out) = <<c1.out, c2.out>>
    BY AppendToOne
  <2> QED
    BY <2>2, <2>3
<1>8. DeepCopyKanaryList(m, items) =
        LET all == FoldLeft(CopyItem, [memory |-> m, out |-> <<>>], m[items])
        IN  IF items = Nil THEN [memory |-> m, out |-> Nil]
            ELSE Made(all.memory, all.out)
  BY DEF DeepCopyKanaryList, CopyItem, FoldLeft, MapThenFoldSet
<1>9. FoldLeft(CopyItem, [memory |-> m, out |-> <<>>], m[items]) = accs[2]
  BY <1>1, <1>3
<1>10. DeepCopyKanaryList(m, items) = Made(accs[2].memory, accs[2].out)
  BY <1>8, <1>9
<1> QED
  BY <1>7, <1>10

\* Parts of memory that lie apart.
LEMMA PartsApart ==
    ASSUME NEW m, NEW n \in Nat, NEW all, NEW lo, NEW hi,
           \A i \in 1..n : /\ lo[i] \in Nat /\ hi[i] \in Nat
                           /\ KanaryIn(m, all[i], lo[i], hi[i]),
           \A i, j \in 1..n : i < j => hi[i] < lo[j]
    PROVE  \A i, j \in 1..n : i # j =>
              Reached(m, all[i]) \cap Reached(m, all[j]) = {}
<1> TAKE i, j \in 1..n
<1> HAVE i # j
<1>1. PICK R, Q : R = Reached(m, all[i]) /\ Q = Reached(m, all[j])
  OBVIOUS
<1>2. R \subseteq lo[i]..hi[i] /\ Q \subseteq lo[j]..hi[j]
  BY <1>1, ReachesOnly
<1>3. hi[i] < lo[j] \/ hi[j] < lo[i]
  BY i \in Nat, j \in Nat
<1>4. \A x : ~(x \in lo[i]..hi[i] /\ x \in lo[j]..hi[j])
  BY <1>3
<1> QED
  BY <1>1, <1>2, <1>4

\* What CopiesAreIndependent says of the Kanaries kys in memory m, the first
\* two of "all", and of their copies in memory m2, the other two.
CopiesApart(m, kys, m2, all) ==
    /\ \A i \in 1..2 : /\ Routes(m2, all[i + 2]) = Routes(m, kys[i])
                      /\ Status(m2, all[i + 2]) = Status(m, kys[i])
    /\ \A i, j \in 1..4 : i # j =>
          Reached(m2, all[i]) \cap Reached(m2, all[j]) = {}

\* Spec => []CopiesAreIndependent: the copies of an informer's objects share
\* no array with it or with each other, whatever the lengths of the lists.
THEOREM CopiesShareNothing == Spec => []CopiesAreIndependent
<1>1. TypeOK /\ SettledInv => CopiesAreIndependent
  <2> SUFFICES ASSUME TypeOK, SettledInv PROVE CopiesAreIndependent
    OBVIOUS
  <2>1. PICK first : first = Decoded(<<>>, routes, status)
    OBVIOUS
  <2>2. PICK second : second = Decoded(first.memory, routes, <<>>)
    OBVIOUS
  <2>3. PICK k1, k2, kys : k1 = first.out /\ k2 = second.out /\ kys = <<k1, k2>>
    OBVIOUS
  <2>4. PICK items : items = Made(second.memory, kys)
    OBVIOUS
  <2>5. PICK c1 : c1 = DeepCopyKanary(items.memory, k1)
    OBVIOUS
  <2>6. PICK c2 : c2 = DeepCopyKanary(c1.memory, k2)
    OBVIOUS
  <2>7. PICK list : list = DeepCopyKanaryList(items.memory, items.out)
    OBVIOUS
  <2>8. PICK m1, m2, m3, m4, m5, m6 :
          /\ m1 = first.memory /\ m2 = second.memory /\ m3 = items.memory
          /\ m4 = c1.memory /\ m5 = c2.memory /\ m6 = list.memory
    OBVIOUS
  <2>9. /\ Grown(<<>>, m1) /\ KanaryIn(m1, k1, 1, Len(m1))
    <3>1. IsList(<<>>) /\ Len(<<>>) + 1 = 1
      <4>1. <<>> \in Seq({}) /\ Len(<<>>) = 0
        BY EmptySeq
      <4>2. IsList(<<>>)
        BY <4>1, ListOf
      <4> QED
        BY <4>1, <4>2
    <3>2. IsStatus(status)
      BY DEF SettledInv
    <3>3. /\ Grown(<<>>, first.memory)
          /\ KanaryIn(first.memory, first.out, Len(<<>>) + 1, Len(first.memory))
      BY <2>1, <3>1, <3>2, DecodedKanary
    <3> QED
      BY <2>3, <2>8, <3>1, <3>3
  <2>10. /\ Grown(m1, m2) /\ KanaryIn(m2, k2, Len(m1) + 1, Len(m2))
    <3>1. IsList(first.memory)
      BY <2>8, <2>9 DEF Grown
    <3>2. IsStatus(<<>>)
      BY NothingBuilt
    <3>3. /\ Grown(first.memory, second.memory)
          /\ KanaryIn(second.memory, second.out, Len(first.memory) + 1,
                      Len(second.memory))
      BY <2>2, <3>1, <3>2, DecodedKanary
    <3> QED
      BY <2>3, <2>8, <3>3
  <2>11. /\ Grown(m2, m3) /\ Len(m2) \in Nat /\ Len(m3) = Len(m2) + 1
         /\ items.out = Len(m2) + 1 /\ m3[items.out] = kys
    <3>1. IsList(m2) /\ items = Made(m2, kys)
      BY <2>4, <2>8, <2>10 DEF Grown
    <3>2. /\ Grown(m2, items.memory) /\ Len(m2) \in Nat
          /\ Len(items.memory) = Len(m2) + 1
          /\ items.out = Len(m2) + 1 /\ items.memory[items.out] = kys
      BY <3>1, MadeGrows
    <3> QED
      BY <2>8, <3>2
  <2>12. IsList(m1) /\ IsList(m2) /\ IsList(m3)
    BY <2>9, <2>10, <2>11 DEF Grown
  <2>13. /\ Len(m1) \in Nat /\ Len(m1) =< Len(m2) /\ Len(m3) \in Nat
         /\ 1 \in Nat \ {0} /\ Len(m1) + 1 \in Nat \ {0}
    <3>1. Len(m1) \in Nat
      BY <2>12, ListOf DEF IsList
    <3>2. Len(m1) =< Len(m2)
      BY <2>10 DEF Grown
    <3> QED
      BY <2>11, <3>1, <3>2
  <2>14. KanaryIn(m3, k1, 1, Len(m1)) /\ KanaryIn(m3, k2, Len(m1) + 1, Len(m2))
    <3>1. Len(m1) =< Len(m1) /\ Len(m2) =< Len(m2) /\ Len(m1) =< Len(m2)
      BY <2>11, <2>13
    <3>2. Grown(m1, m3)
      BY <2>10, <2>11, GrownTransitive
    <3>3. KanaryIn(m3, k1, 1, Len(m1))
      BY <2>9, <2>13, <3>1, <3>2, KanaryStays
    <3>4. KanaryIn(m3, k2, Len(m1) + 1, Len(m2))
      BY <2>10, <2>11, <2>13, <3>1, KanaryStays
    <3> QED
      BY <3>3, <3>4
  <2>15. /\ Grown(m3, m4) /\ KanaryIn(m4, c1.out, Len(m3) + 1, Len(m4))
         /\ Routes(m4, c1.out) = Routes(m3, k1)
         /\ Status(m4, c1.out) = Status(m3, k1)
    <3>1. KanaryIn(m3, k1, 1, Len(m3))
      <4>1. 1 \in Nat /\ 1 =< 1 /\ Len(m1) =< Len(m3)
        BY <2>11, <2>13
      <4> QED
        BY <2>13, <2>14, <4>1, KanaryWidens
    <3>2. c1 = DeepCopyKanary(m3, k1)
      BY <2>5, <2>8
    <3>3. /\ Grown(m3, c1.memory)
          /\ KanaryIn(c1.memory, c1.out, Len(m3) + 1, Len(c1.memory))
          /\ Routes(c1.memory, c1.out) = Routes(m3, k1)
          /\ Status(c1.memory, c1.out) = Status(m3, k1)
      BY <2>12, <3>1, <3>2, CopyOfKanary
    <3> QED
      BY <2>8, <3>3
  <2>16. IsList(m4) /\ Len(m4) \in Nat /\ Len(m3) =< Len(m4)
    <3>1. IsList(m4) /\ Len(m3) =< Len(m4)
      BY <2>15 DEF Grown
    <3> QED
      BY <3>1, ListOf DEF IsList
  <2>17. /\ KanaryIn(m4, k2, Len(m1) + 1, Len(m2))
         /\ Routes(m4, k2) = Routes(m3, k2)
         /\ Status(m4, k2) = Status(m3, k2)
    <3>1. Len(m2) =< Len(m3)
      BY <2>11
    <3> QED
      BY <2>11, <2>13, <2>14, <2>15, <3>1, KanaryStays
  <2>18. /\ Grown(m4, m5) /\ KanaryIn(m5, c2.out, Len(m4) + 1, Len(m5))
         /\ Routes(m5, c2.out) = Routes(m3, k2)
         /\ Status(m5, c2.out) = Status(m3, k2)
    <3>1. KanaryIn(m4, k2, 1, Len(m4))
      <4>1. /\ 1 \in Nat /\ 1 =< Len(m1) + 1 /\ Len(m2) =< Len(m4)
            /\ Len(m1) + 1 \in Nat
        BY <2>11, <2>13, <2>16
      <4> QED
        BY <2>11, <2>16, <2>17, <4>1, KanaryWidens
    <3>2. c2 = DeepCopyKanary(m4, k2)
      BY <2>6, <2>8
    <3>3. /\ Grown(m4, c2.memory)
          /\ KanaryIn(c2.memory, c2.out, Len(m4) + 1, Len(c2.memory))
          /\ Routes(c2.memory, c2.out) = Routes(m4, k2)
          /\ Status(c2.memory, c2.out) = Status(m4, k2)
      BY <2>16, <3>1, <3>2, CopyOfKanary
    <3> QED
      BY <2>8, <2>17, <3>3
  <2>19. IsList(m5) /\ Len(m5) \in Nat /\ Len(m4) =< Len(m5)
    <3>1. IsList(m5) /\ Len(m4) =< Len(m5)
      BY <2>18 DEF Grown
    <3> QED
      BY <3>1, ListOf DEF IsList
  <2>20. Grown(m5, m6) /\ list.memory[list.out] = <<c1.out, c2.out>>
    <3>1. items.out # Nil /\ items.memory[items.out] = <<k1, k2>>
      BY <2>3, <2>8, <2>11 DEF Nil
    <3>2. list = Made(c2.memory, <<c1.out, c2.out>>)
      BY <2>5, <2>6, <2>7, <3>1, CopyOfTwo
    <3>3. IsList(c2.memory)
      BY <2>8, <2>19
    <3>4. Grown(c2.memory, list.memory) /\ list.memory[list.out] = <<c1.out, c2.out>>
      BY <3>2, <3>3, MadeGrows
    <3> QED
      BY <2>8, <3>4
  <2>21. PICK lo, hi : /\ lo = <<1, Len(m1) + 1, Len(m3) + 1, Len(m4) + 1>>
                       /\ hi = <<Len(m1), Len(m2), Len(m4), Len(m5)>>
    OBVIOUS
  <2>22. PICK all : all = kys \o list.memory[list.out]
    OBVIOUS
  <2>23. all[1] = k1 /\ all[2] = k2 /\ all[3] = c1.out /\ all[4] = c2.out
    <3>1. all = <<k1, k2>> \o <<c1.out, c2.out>>
      BY <2>3, <2>20, <2>22
    <3> QED
      BY <3>1
  <2>24. /\ KanaryIn(m6, c1.out, Len(m3) + 1, Len(m4))
         /\ Routes(m6, c1.out) = Routes(m3, k1)
         /\ Status(m6, c1.out) = Status(m3, k1)
    <3>1. Grown(m4, m6)
      BY <2>18, <2>20, GrownTransitive
    <3>2. Len(m3) + 1 \in Nat \ {0} /\ Len(m4) =< Len(m4)
      BY <2>13, <2>16
    <3>3. /\ KanaryIn(m6, c1.out, Len(m3) + 1, Len(m4))
          /\ Routes(m6, c1.out) = Routes(m4, c1.out)
          /\ Status(m6, c1.out) = Status(m4, c1.out)
      BY <2>15, <2>16, <3>1, <3>2, KanaryStays
    <3> QED
      BY <2>15, <3>3
  <2>25. /\ KanaryIn(m6, c2.out, Len(m4) + 1, Len(m5))
         /\ Routes(m6, c2.out) = Routes(m3, k2)
         /\ Status(m6, c2.out) = Status(m3, k2)
    <3>1. Len(m4) + 1 \in Nat \ {0} /\ Len(m5) =< Len(m5)
      BY <2>16, <2>19
    <3>2. /\ KanaryIn(m6, c2.out, Len(m4) + 1, Len(m5))
          /\ Routes(m6, c2.out) = Routes(m5, c2.out)
          /\ Status(m6, c2.out) = Status(m5, c2.out)
      BY <2>18, <2>19, <2>20, <3>1, KanaryStays
    <3> QED
      BY <2>18, <3>2
  <2>26. /\ KanaryIn(m6, k1, 1, Len(m1))
         /\ KanaryIn(m6, k2, Len(m1) + 1, Len(m2))
    <3>1. Grown(m3, m6)
      <4>1. Grown(m3, m5)
        BY <2>15, <2>18, GrownTransitive
      <4> QED
        BY <2>20, <4>1, GrownTransitive
    <3>2. Len(m1) =< Len(m3) /\ Len(m2) =< Len(m3)
      BY <2>11, <2>13
    <3>3. KanaryIn(m6, k1, 1, Len(m1))
      BY <2>13, <2>14, <3>1, <3>2, KanaryStays
    <3>4. KanaryIn(m6, k2, Len(m1) + 1, Len(m2))
      BY <2>11, <2>13, <2>14, <3>1, <3>2, KanaryStays
    <3> QED
      BY <3>3, <3>4
  <2>27. \A i \in 1..4 : i = 1 \/ i = 2 \/ i = 3 \/ i = 4
    OBVIOUS
  <2>28. /\ lo[1] = 1 /\ lo[2] = Len(m1) + 1 /\ lo[3] = Len(m3) + 1
         /\ lo[4] = Len(m4) + 1
         /\ hi[1] = Len(m1) /\ hi[2] = Len(m2) /\ hi[3] = Len(m4)
         /\ hi[4] = Len(m5)
    BY <2>21
  <2>29. \A i \in 1..4 : lo[i] \in Nat /\ hi[i] \in Nat
    <3>1. /\ 1 \in Nat /\ Len(m1) + 1 \in Nat /\ Len(m3) + 1 \in Nat
          /\ Len(m4) + 1 \in Nat
      BY <2>13, <2>16
    <3> QED
      BY <2>11, <2>13, <2>16, <2>19, <2>27, <2>28, <3>1
  <2>30. \A i \in 1..4 : KanaryIn(m6, all[i], lo[i], hi[i])
    BY <2>23, <2>24, <2>25, <2>26, <2>27, <2>28
  <2>31. /\ hi[1] < lo[2] /\ hi[1] < lo[3] /\ hi[1] < lo[4]
         /\ hi[2] < lo[3] /\ hi[2] < lo[4] /\ hi[3] < lo[4]
    BY <2>11, <2>13, <2>16, <2>28
  <2>32. \A i, j \in 1..4 : i < j => hi[i] < lo[j]
    BY <2>27, <2>31
  <2>33. \A i, j \in 1..4 : i # j =>
            Reached(m6, all[i]) \cap Reached(m6, all[j]) = {}
    BY <2>29, <2>30, <2>32, PartsApart
  <2>34. \A i \in 1..2 : /\ Routes(m6, all[i + 2]) = Routes(m3, kys[i])
                         /\ Status(m6, all[i + 2]) = Status(m3, kys[i])
    <3>1. kys[1] = k1 /\ kys[2] = k2
      BY <2>3
    <3>2. all[1 + 2] = c1.out /\ all[2 + 2] = c2.out
      BY <2>23
    <3>3. \A i \in 1..2 : i = 1 \/ i = 2
      OBVIOUS
    <3> QED
      BY <2>24, <2>25, <3>1, <3>2, <3>3
  <2>35. CopiesApart(items.memory, kys, list.memory, all)
    BY <2>8, <2>33, <2>34 DEF CopiesApart
  <2>36. kys = <<first.out, second.out>>
    BY <2>3
  <2>37. CopiesAreIndependent <=>
           LET decoded == Decoded(<<>>, routes, status)
               created == Decoded(decoded.memory, routes, <<>>)
               both == <<decoded.out, created.out>>
               array == Made(created.memory, both)
               answer == DeepCopyKanaryList(array.memory, array.out)
           IN  CopiesApart(array.memory, both, answer.memory,
                           both \o answer.memory[answer.out])
    BY Zenon DEF CopiesAreIndependent, CopiesApart
  <2> QED
    BY <2>1, <2>2, <2>4, <2>7, <2>22, <2>35, <2>36, <2>37, Zenon
<1> QED
  BY <1>1, SettledInvariant, PTL

=============================================================================
