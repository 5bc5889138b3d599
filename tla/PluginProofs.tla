----------------------------- MODULE PluginProofs -----------------------------
(***************************************************************************)
(* What the loop of GetIdentityCapability computes, for every answer of a  *)
(* driver.                                                                 *)
(*                                                                         *)
(* The loop is a recursive function, and what is said of it is proved by   *)
(* induction.  The theorems of the library about induction are about an    *)
(* operator, which the provers cannot instantiate; here the induction is   *)
(* over the members of a set of numbers, which they can.                   *)
(***************************************************************************)
EXTENDS Plugin, TLAPS, WellFoundedInduction

\* Every set of numbers that is not empty has a least member.
LEMMA LeastMember ==
  ASSUME NEW T \in SUBSET Nat, T # {}
  PROVE  \E n \in T : \A m \in T : ~(m < n)
<1>1. IsWellFoundedOn(OpToRel(<, Nat), Nat)
  BY NatLessThanWellFounded
<1>2. \E x \in T : \A y \in T : <<y, x>> \notin OpToRel(<, Nat)
  BY <1>1, WFMin
<1>3. \A x, y \in Nat : y < x => <<y, x>> \in OpToRel(<, Nat)
  BY DEF OpToRel
<1>4. PICK x \in T : \A y \in T : <<y, x>> \notin OpToRel(<, Nat)
  BY <1>2
<1>5. \A y \in T : ~(y < x)
  BY <1>3, <1>4, Zenon
<1> QED BY <1>5, Zenon

\* A set that has 0, and n + 1 with every n below m, has the numbers up to m.
LEMMA InductionUpTo ==
  ASSUME NEW T, NEW m \in Nat,
         0 \in T, \A n \in 0..m : n \in T /\ n < m => n + 1 \in T
  PROVE  0..m \subseteq T
<1> DEFINE U == {n \in 0..m : n \notin T}
<1>1. SUFFICES ASSUME U # {} PROVE FALSE
  OBVIOUS
<1>2. U \in SUBSET Nat
  OBVIOUS
<1>3. PICK n \in U : \A k \in U : ~(k < n)
  BY <1>1, <1>2, LeastMember
<1>4. n \in 0..m /\ n # 0 /\ n - 1 \in 0..m /\ n - 1 \notin U
  BY <1>3
<1>5. n - 1 \in T /\ n - 1 < m
  BY <1>4
<1> QED BY <1>4, <1>5

-----------------------------------------------------------------------------

Nothing == [topology |-> FALSE, expand |-> ""]

\* The results of the loop over the first n entries.
Results(capabilities, n, g) ==
  g = [k \in 0..n |-> IF k = 0 THEN Nothing
                               ELSE ReadCapability(g[k - 1], capabilities[k])]

\* The loop of GetIdentityCapability ends: it has a result after every entry.
LEMMA ResultsExist ==
  ASSUME NEW capabilities, NEW m \in Nat
  PROVE  \E g : Results(capabilities, m, g)
<1> DEFINE T == {n \in 0..m : \E g : Results(capabilities, n, g)}
<1>1. 0 \in T
  <2> DEFINE g == [k \in 0..0 |-> Nothing]
  <2>1. Results(capabilities, 0, g)
    BY DEF Results
  <2> QED BY <2>1
<1>2. ASSUME NEW n \in 0..m, n \in T, n < m PROVE n + 1 \in T
  <2>1. PICK g : Results(capabilities, n, g)
    BY <1>2
  <2> DEFINE h == [k \in 0..(n + 1) |->
                     IF k = n + 1 THEN ReadCapability(g[n], capabilities[n + 1]) ELSE g[k]]
  <2>2. h = [k \in 0..(n + 1) |-> IF k = 0 THEN Nothing
                               ELSE ReadCapability(h[k - 1], capabilities[k])]
    <3> SUFFICES ASSUME NEW k \in 0..(n + 1)
                 PROVE h[k] = IF k = 0 THEN Nothing
                               ELSE ReadCapability(h[k - 1], capabilities[k])
      OBVIOUS
    <3>1. CASE k = n + 1
      BY <3>1
    <3>2. CASE k # n + 1 /\ k # 0
      <4>1. k \in 0..n /\ k - 1 \in 0..n /\ k - 1 # n + 1
        BY <3>2
      <4>2. h[k] = g[k] /\ h[k - 1] = g[k - 1]
        BY <4>1
      <4>3. g[k] = ReadCapability(g[k - 1], capabilities[k])
        BY <2>1, <3>2, <4>1 DEF Results
      <4> QED BY <3>2, <4>2, <4>3
    <3>3. CASE k = 0
      <4>1. k # n + 1 /\ k \in 0..n
        BY <3>3
      <4> QED BY <2>1, <3>3, <4>1 DEF Results
    <3> QED BY <3>1, <3>2, <3>3
  <2>3. Results(capabilities, n + 1, h)
    BY <2>2 DEF Results
  <2> QED BY <2>3, <1>2
<1> HIDE DEF T
<1>3. 0..m \subseteq T
  BY <1>1, <1>2, InductionUpTo
<1> QED BY <1>3 DEF T

\* GetIdentityCapability returns the last of these results.
LEMMA IdentityIsResult ==
  ASSUME NEW capabilities \in Seq(PluginCapabilities)
  PROVE  \E g : /\ Results(capabilities, Len(capabilities), g)
                /\ IdentityCapability(capabilities) = g[Len(capabilities)]
<1>1. Len(capabilities) \in Nat
  OBVIOUS
<1> DEFINE g == CHOOSE g : Results(capabilities, Len(capabilities), g)
<1>2. Results(capabilities, Len(capabilities), g)
  BY <1>1, ResultsExist
<1>3. IdentityCapability(capabilities) = g[Len(capabilities)]
  BY DEF IdentityCapability, Results, Nothing
<1> QED BY <1>2, <1>3

LEMMA ReadType ==
  ASSUME NEW result \in Identities, NEW capability
  PROVE  ReadCapability(result, capability) \in Identities
BY DEF ReadCapability, Identities, ExpandMode, ExpandModes

LEMMA ResultsStep ==
  ASSUME NEW capabilities, NEW m \in Nat, NEW g, Results(capabilities, m, g)
  PROVE  /\ g[0] = Nothing
         /\ \A n \in 0..m : n < m => g[n + 1] = ReadCapability(g[n], capabilities[n + 1])
<1>1. g[0] = Nothing
  BY DEF Results
<1>2. ASSUME NEW n \in 0..m, n < m PROVE g[n + 1] = ReadCapability(g[n], capabilities[n + 1])
  <2>1. n + 1 \in 0..m /\ n + 1 # 0 /\ (n + 1) - 1 = n
    BY <1>2
  <2> QED BY <2>1 DEF Results
<1> QED BY <1>1, <1>2

\* GetIdentityCapability returns a flag and one of the modes of expansion of the
\* API, whatever a driver lists.
THEOREM IdentityType ==
  ASSUME NEW capabilities \in Seq(PluginCapabilities)
  PROVE  IdentityCapability(capabilities) \in Identities
<1> DEFINE m == Len(capabilities)
<1>1. m \in Nat
  OBVIOUS
<1>2. PICK g : Results(capabilities, m, g) /\ IdentityCapability(capabilities) = g[m]
  BY IdentityIsResult
<1> HIDE DEF m
<1> DEFINE T == {n \in 0..m : g[n] \in Identities}
<1>3. 0 \in T
  <2>1. g[0] = Nothing /\ 0 \in 0..m
    BY <1>1, <1>2, ResultsStep
  <2>2. Nothing \in Identities
    BY DEF Nothing, Identities, ExpandModes
  <2> QED BY <2>1, <2>2
<1>4. ASSUME NEW n \in 0..m, n \in T, n < m PROVE n + 1 \in T
  <2>1. g[n + 1] = ReadCapability(g[n], capabilities[n + 1])
    BY <1>1, <1>2, <1>4, ResultsStep
  <2>2. g[n + 1] \in Identities
    BY <2>1, <1>4, ReadType
  <2> QED BY <2>2, <1>1, <1>4
<1> HIDE DEF T
<1>5. 0..m \subseteq T
  BY <1>1, <1>3, <1>4, InductionUpTo
<1> QED BY <1>1, <1>2, <1>5 DEF T

\* The first n entries have no expansion and result has none, or result has the
\* last of them.
LastOf(capabilities, n, result) ==
  \/ /\ \A i \in 1..n : capabilities[i] \notin Expansions
     /\ result.expand = ""
  \/ \E i \in 1..n :
       /\ capabilities[i] \in Expansions
       /\ \A j \in 1..n : j > i => capabilities[j] \notin Expansions
       /\ result.expand = ExpandMode(capabilities[i])

\* One turn of the loop.
LEMMA LastOfStep ==
  ASSUME NEW capabilities, NEW n \in Nat, NEW result \in Identities,
         LastOf(capabilities, n, result)
  PROVE  LastOf(capabilities, n + 1, ReadCapability(result, capabilities[n + 1]))
<1> DEFINE new == ReadCapability(result, capabilities[n + 1])
<1>1. \A i \in 1..(n + 1) : i \in 1..n \/ i = n + 1
  OBVIOUS
<1>2. 1..n \subseteq 1..(n + 1) /\ n + 1 \in 1..(n + 1)
  OBVIOUS
<1>3. CASE capabilities[n + 1] \in Expansions
  <2>1. new.expand = ExpandMode(capabilities[n + 1])
    BY <1>3 DEF ReadCapability, Identities, Expansions
  <2>2. \A j \in 1..(n + 1) : ~(j > n + 1)
    OBVIOUS
  <2> QED BY <1>2, <1>3, <2>1, <2>2 DEF LastOf
<1>4. CASE capabilities[n + 1] \notin Expansions
  <2>1. new.expand = result.expand
    BY <1>4 DEF ReadCapability, Identities
  <2> QED BY <1>1, <1>2, <1>4, <2>1 DEF LastOf
<1> QED BY <1>3, <1>4

\* The mode of expansion GetIdentityCapability returns is the one of the last
\* expansion a driver lists, and none when it lists none: the reference definition.
THEOREM LastExpansionReturned ==
  ASSUME NEW capabilities \in Seq(PluginCapabilities)
  PROVE  IdentityCapability(capabilities).expand = LastExpansion(capabilities)
<1> DEFINE m == Len(capabilities)
<1>1. m \in Nat /\ DOMAIN capabilities = 1..m
  OBVIOUS
<1>2. PICK g : Results(capabilities, m, g) /\ IdentityCapability(capabilities) = g[m]
  BY IdentityIsResult
<1> HIDE DEF m
<1> DEFINE T == {n \in 0..m : g[n] \in Identities /\ LastOf(capabilities, n, g[n])}
<1>3. 0 \in T
  <2>1. g[0] = Nothing /\ 0 \in 0..m
    BY <1>1, <1>2, ResultsStep
  <2>2. Nothing \in Identities
    BY DEF Nothing, Identities, ExpandModes
  <2>3. LastOf(capabilities, 0, Nothing)
    BY DEF Nothing, LastOf
  <2> QED BY <2>1, <2>2, <2>3
<1>4. ASSUME NEW n \in 0..m, n \in T, n < m PROVE n + 1 \in T
  <2>1. g[n + 1] = ReadCapability(g[n], capabilities[n + 1])
    BY <1>1, <1>2, <1>4, ResultsStep
  <2>2. g[n + 1] \in Identities
    BY <2>1, <1>4, ReadType
  <2>3. LastOf(capabilities, n + 1, g[n + 1])
    BY <2>1, <1>4, LastOfStep
  <2> QED BY <2>2, <2>3, <1>1, <1>4
<1> HIDE DEF T
<1>5. 0..m \subseteq T
  BY <1>1, <1>3, <1>4, InductionUpTo
<1>6. LastOf(capabilities, m, IdentityCapability(capabilities))
  BY <1>1, <1>2, <1>5 DEF T
<1> DEFINE expansions == {i \in DOMAIN capabilities : capabilities[i] \in Expansions}
<1>7. CASE expansions = {}
  <2>1. \A i \in 1..m : capabilities[i] \notin Expansions
    BY <1>1, <1>7
  <2>2. IdentityCapability(capabilities).expand = ""
    BY <1>6, <2>1 DEF LastOf
  <2> QED BY <1>7, <2>2 DEF LastExpansion
<1>8. CASE expansions # {}
  <2>1. PICK i \in 1..m :
          /\ capabilities[i] \in Expansions
          /\ \A j \in 1..m : j > i => capabilities[j] \notin Expansions
          /\ IdentityCapability(capabilities).expand = ExpandMode(capabilities[i])
    BY <1>1, <1>6, <1>8 DEF LastOf
  <2>2. i \in expansions /\ \A j \in expansions : i >= j
    BY <1>1, <2>1
  <2>3. \A k \in expansions : (\A j \in expansions : k >= j) => k = i
    <3> SUFFICES ASSUME NEW k \in expansions, \A j \in expansions : k >= j PROVE k = i
      OBVIOUS
    <3>1. k >= i /\ i >= k /\ k \in 1..m
      BY <1>1, <2>2
    <3> QED BY <3>1
  <2>4. Max(expansions) = i
    BY <2>2, <2>3 DEF Max
  <2> QED BY <1>8, <2>1, <2>4 DEF LastExpansion
<1> QED BY <1>7, <1>8

===============================================================================
