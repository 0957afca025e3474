------------------------- MODULE RelaySelectorProofs -------------------------
(***************************************************************************)
(* Proofs about ApiClient, RelayList and RelaySelector: the daemon starts    *)
(* with a sound address and with relays, its list never goes back, and what  *)
(* is chosen fits the settings, for all lists, weights, port ranges,         *)
(* constraints and widths of a port.                                        *)
(*                                                                         *)
(* What is said of sums over a list is proved by looking at the first place  *)
(* where it fails: a set of naturals that is not empty has a least element.  *)
(***************************************************************************)
EXTENDS RelaySelector, WellFoundedInduction, TLAPS

-----------------------------------------------------------------------------
(* Sums                                                                    *)

\* A set of naturals that is not empty has a least element.
LEMMA LeastNatural ==
    ASSUME NEW S, S \subseteq Nat, S # {}
    PROVE  \E m \in S : \A j \in S : m <= j
<1> DEFINE R == {ss \in Nat \X Nat : ss[1] < ss[2]}
<1>1. \A m, n \in Nat : <<m, n>> \in R <=> m < n
      OBVIOUS
<1>2. IsWellFoundedOn(R, Nat)
      BY NatLessThanWellFounded, Zenon DEF OpToRel
<1> HIDE DEF R
<1>3. PICK x \in S : \A y \in S : ~(<<y, x>> \in R)
      BY <1>2, WFMin
<1>4. ASSUME NEW y \in S PROVE x <= y
      <2>1. x \in Nat /\ y \in Nat
            OBVIOUS
      <2>2. ~(<<y, x>> \in R)
            BY <1>3
      <2>3. ~(y < x)
            BY <1>1, <2>1, <2>2
      <2> QED BY <2>1, <2>3
<1> QED BY <1>4

\* A function of which every value is the one before plus an amount.
Adds(f, amount, m) ==
    f \in [0 .. m -> Nat] /\ f[0] = 0 /\ \A k \in 1 .. m : f[k] = f[k - 1] + amount[k]

\* There is one for every length.
LEMMA SumExists ==
    ASSUME NEW n \in Nat, NEW amount \in [1 .. n -> Nat]
    PROVE  \A m \in 0 .. n : \E f : Adds(f, amount, m)
<1> DEFINE S == {m \in 0 .. n : ~ \E f : Adds(f, amount, m)}
<1> SUFFICES ASSUME S # {} PROVE FALSE
    OBVIOUS
<1>0. S \subseteq Nat
      OBVIOUS
<1>1. PICK m \in S : \A j \in S : m <= j
      <2> HIDE DEF S
      <2> QED BY <1>0, LeastNatural
<1>2. m # 0
      <2>1. Adds([k \in 0 .. 0 |-> 0], amount, 0)
            BY DEF Adds
      <2> QED BY <2>1
<1>3. m - 1 \in 0 .. n /\ m - 1 \notin S /\ m \in 1 .. n
      BY <1>1, <1>2
<1>4. PICK f : Adds(f, amount, m - 1)
      BY <1>3
<1> DEFINE g == [k \in 0 .. m |-> IF k = m THEN f[m - 1] + amount[m] ELSE f[k]]
<1>5. Adds(g, amount, m)
      <2>1. f \in [0 .. m - 1 -> Nat] /\ f[0] = 0 /\ \A k \in 1 .. m - 1 : f[k] = f[k - 1] + amount[k]
            BY <1>4 DEF Adds
      <2>2. m \in Nat /\ m \in 1 .. n /\ amount[m] \in Nat /\ f[m - 1] \in Nat
            BY <1>3, <2>1
      <2>3. g \in [0 .. m -> Nat]
            <3>1. ASSUME NEW k \in 0 .. m PROVE (IF k = m THEN f[m - 1] + amount[m] ELSE f[k]) \in Nat
                  BY <2>1, <2>2
            <3> QED BY <3>1
      <2>4. g[0] = 0
            BY <1>2, <2>1, <2>2
      <2>5. ASSUME NEW k \in 1 .. m PROVE g[k] = g[k - 1] + amount[k]
            <3>1. k \in 0 .. m /\ k - 1 \in 0 .. m /\ k - 1 # m /\ (k # m => k \in 1 .. m - 1)
                  BY <2>2
            <3>2. g[k - 1] = f[k - 1] /\ (k # m => g[k] = f[k]) /\ (k = m => g[k] = f[m - 1] + amount[m])
                  BY <3>1
            <3> QED BY <2>1, <3>1, <3>2
      <2> QED BY <2>3, <2>4, <2>5 DEF Adds
<1> QED BY <1>1, <1>5

\* SumUpTo is that function.
LEMMA SumAdds ==
    ASSUME NEW n \in Nat, NEW amount \in [1 .. n -> Nat]
    PROVE  Adds(SumUpTo(amount, n), amount, n)
<1> DEFINE s == SumUpTo(amount, n)
<1>1. PICK f : Adds(f, amount, n)
      BY SumExists
<1>2. f = [k \in 0 .. n |-> IF k = 0 THEN 0 ELSE f[k - 1] + amount[k]]
      BY <1>1 DEF Adds
<1>3. s = [k \in 0 .. n |-> IF k = 0 THEN 0 ELSE s[k - 1] + amount[k]]
      BY <1>2, Zenon DEF SumUpTo
<1> HIDE DEF s
<1>4. \A k \in 0 .. n : s[k] \in Nat
      <2> DEFINE S == {k \in 0 .. n : s[k] \notin Nat}
      <2> SUFFICES ASSUME S # {} PROVE FALSE
          OBVIOUS
      <2>0. S \subseteq Nat
            OBVIOUS
      <2>1. PICK m \in S : \A j \in S : m <= j
            <3> HIDE DEF S
            <3> QED BY <2>0, LeastNatural
      <2>2. m # 0
            BY <1>3, <2>1
      <2>3. m - 1 \in 0 .. n /\ m - 1 \notin S /\ m \in 1 .. n
            BY <2>1, <2>2
      <2> QED BY <1>3, <2>1, <2>3
<1> QED BY <1>3, <1>4 DEF Adds, s

\* Sums grow.
LEMMA SumGrows ==
    ASSUME NEW n \in Nat, NEW amount \in [1 .. n -> Nat], NEW s, Adds(s, amount, n),
           NEW j \in 0 .. n, NEW k \in 0 .. n, j <= k
    PROVE  s[j] <= s[k]
<1> DEFINE S == {m \in j .. n : ~(s[j] <= s[m])}
<1> SUFFICES ASSUME S # {} PROVE FALSE
    OBVIOUS
<1>0. S \subseteq Nat
      OBVIOUS
<1>1. PICK m \in S : \A i \in S : m <= i
      <2> HIDE DEF S
      <2> QED BY <1>0, LeastNatural
<1>2. m # j
      <2>1. s[j] \in Nat
            BY DEF Adds
      <2> QED BY <1>1, <2>1
<1>3. m - 1 \in j .. n /\ m - 1 \notin S /\ m \in 1 .. n
      BY <1>1, <1>2
<1>4. s[m] = s[m - 1] + amount[m] /\ s[m - 1] \in Nat /\ amount[m] \in Nat /\ s[j] \in Nat
      BY <1>3 DEF Adds
<1> QED BY <1>1, <1>3, <1>4

\* Every number below the whole sum lies within exactly one amount.
LEMMA SumCrosses ==
    ASSUME NEW n \in Nat, NEW amount \in [1 .. n -> Nat], NEW s, Adds(s, amount, n),
           NEW i \in Nat, i < s[n]
    PROVE  /\ \E k \in 1 .. n : s[k - 1] <= i /\ i < s[k]
           /\ \A j, k \in 1 .. n : s[j - 1] <= i /\ i < s[j] /\ s[k - 1] <= i /\ i < s[k] => j = k
<1>1. \E k \in 1 .. n : s[k - 1] <= i /\ i < s[k]
      <2> DEFINE S == {k \in 0 .. n : i < s[k]}
      <2>0. n \in S /\ S \subseteq Nat
            OBVIOUS
      <2>1. PICK m \in S : \A j \in S : m <= j
            <3> HIDE DEF S
            <3> QED BY <2>0, LeastNatural
      <2>2. m # 0
            BY <2>1 DEF Adds
      <2>3. m - 1 \in 0 .. n /\ m - 1 \notin S /\ m \in 1 .. n
            BY <2>1, <2>2
      <2>4. s[m - 1] \in Nat
            BY <2>3 DEF Adds
      <2> QED BY <2>1, <2>3, <2>4
<1>2. ASSUME NEW j \in 1 .. n, NEW k \in 1 .. n, s[j - 1] <= i, i < s[k]
      PROVE  j <= k
      <2>1. j - 1 \in 0 .. n /\ k \in 0 .. n
            OBVIOUS
      <2>2. s[j - 1] \in Nat /\ s[k] \in Nat
            BY <2>1 DEF Adds
      <2>3. ~(s[k] <= s[j - 1])
            BY <1>2, <2>2
      <2>4. ~(k <= j - 1)
            BY <2>1, <2>3, SumGrows
      <2> QED BY <2>4
<1>3. ASSUME NEW j \in 1 .. n, NEW k \in 1 .. n, s[j - 1] <= i, i < s[j], s[k - 1] <= i, i < s[k]
      PROVE  j = k
      <2>1. j <= k /\ k <= j
            BY <1>2, <1>3
      <2> QED BY <2>1
<1> QED BY <1>1, <1>3

\* The whole sum is zero exactly if all amounts are.
LEMMA SumIsZero ==
    ASSUME NEW n \in Nat, NEW amount \in [1 .. n -> Nat], NEW s, Adds(s, amount, n)
    PROVE  s[n] = 0 <=> \A k \in 1 .. n : amount[k] = 0
<1>1. ASSUME NEW k \in 1 .. n, amount[k] # 0 PROVE s[n] # 0
      <2>1. s[k] = s[k - 1] + amount[k] /\ s[k - 1] \in Nat /\ s[k] \in Nat /\ s[n] \in Nat
            BY DEF Adds
      <2>2. s[k] <= s[n]
            BY SumGrows
      <2> QED BY <1>1, <2>1, <2>2
<1>2. ASSUME s[n] # 0 PROVE \E k \in 1 .. n : amount[k] # 0
      <2>1. 0 \in Nat /\ s[n] \in Nat /\ 0 < s[n]
            BY <1>2 DEF Adds
      <2>2. PICK k \in 1 .. n : s[k - 1] <= 0 /\ 0 < s[k]
            BY <2>1, SumCrosses
      <2>3. s[k] = s[k - 1] + amount[k] /\ s[k - 1] \in Nat
            BY DEF Adds
      <2> QED BY <2>2, <2>3
<1> QED BY <1>1, <1>2

-----------------------------------------------------------------------------
(* Random choices                                                          *)

\* Relays with weights at places of a list of length n.
Weighted(relays, n) == DOMAIN relays \subseteq 1 .. n /\ \A k \in DOMAIN relays : relays[k].weight \in Nat

\* The weights add up.
LEMMA WeightsAdd ==
    ASSUME NEW n \in Nat, NEW relays, Weighted(relays, n)
    PROVE  \E amount \in [1 .. n -> Nat] :
              /\ Adds(WeightUpTo(relays, n), amount, n)
              /\ \A k \in DOMAIN relays : amount[k] = relays[k].weight
              /\ \A k \in 1 .. n : amount[k] # 0 => k \in DOMAIN relays
<1> DEFINE amount == [k \in 1 .. n |-> IF k \in DOMAIN relays THEN relays[k].weight ELSE 0]
<1>1. amount \in [1 .. n -> Nat]
      BY DEF Weighted
<1>2. /\ \A k \in DOMAIN relays : amount[k] = relays[k].weight
      /\ \A k \in 1 .. n : amount[k] # 0 => k \in DOMAIN relays
      BY DEF Weighted
<1>3. WeightUpTo(relays, n) = SumUpTo(amount, n)
      BY DEF WeightUpTo
<1> HIDE DEF amount
<1>4. Adds(SumUpTo(amount, n), amount, n)
      BY <1>1, SumAdds
<1> QED BY <1>1, <1>2, <1>3, <1>4

\* A random number that is not 0 finds the relay in whose weight it lies, and only that.
LEMMA FoundByNumber ==
    ASSUME NEW n \in Nat, NEW relays, Weighted(relays, n), NEW w, NEW amount \in [1 .. n -> Nat],
           w = WeightUpTo(relays, n), Adds(w, amount, n),
           \A k \in 1 .. n : amount[k] # 0 => k \in DOMAIN relays,
           NEW i \in Nat \ {0}, i <= w[n]
    PROVE  \E k \in DOMAIN relays : FoundBy(relays, n, i) = {k} /\ amount[k] # 0
<1>1. PICK before \in Nat : before = i - 1 /\ before < w[n]
      <2>1. i - 1 \in Nat /\ w[n] \in Nat /\ i - 1 < w[n]
            BY DEF Adds
      <2> QED BY <2>1
<1>2. PICK k \in 1 .. n : w[k - 1] <= before /\ before < w[k]
      BY <1>1, SumCrosses
<1>3. w[k - 1] \in Nat /\ w[k] = w[k - 1] + amount[k] /\ amount[k] \in Nat /\ w[k - 1] < i /\ w[k] >= i
      BY <1>1, <1>2 DEF Adds
<1>4. k \in DOMAIN relays /\ amount[k] # 0
      BY <1>2, <1>3
<1>5. ASSUME NEW j \in DOMAIN relays, j < k PROVE w[j] < i
      <2>1. j \in 0 .. n /\ k - 1 \in 0 .. n /\ j <= k - 1
            BY <1>5 DEF Weighted
      <2>2. w[j] <= w[k - 1] /\ w[j] \in Nat
            BY <2>1, SumGrows DEF Adds
      <2> QED BY <1>3, <2>2
<1>6. k \in FoundBy(relays, n, i)
      BY <1>3, <1>4, <1>5 DEF FoundBy
<1>7. ASSUME NEW j \in FoundBy(relays, n, i) PROVE j = k
      <2>1. j \in 1 .. n /\ w[j] >= i /\ (k < j => w[k] < i)
            BY <1>4, <1>7 DEF FoundBy, Weighted
      <2>2. j \in DOMAIN relays /\ w[j] \in Nat /\ w[k] \in Nat
            BY <1>7, <2>1 DEF FoundBy, Adds
      <2>3. ~(j < k)
            <3>1. j < k => w[j] < i
                  BY <1>5, <2>2
            <3> QED BY <2>1, <2>2, <3>1
      <2>4. ~(k < j)
            BY <1>3, <2>1, <2>2
      <2> QED BY <2>1, <2>3, <2>4
<1> QED BY <1>4, <1>6, <1>7

\* The number 0 finds the first relay, if there is one.
LEMMA FoundByZero ==
    ASSUME NEW n \in Nat, NEW relays, Weighted(relays, n)
    PROVE  /\ FoundBy(relays, n, 0) = {k \in DOMAIN relays : \A i \in DOMAIN relays : k <= i}
           /\ DOMAIN relays # {} => FoundBy(relays, n, 0) # {}
<1> DEFINE w == WeightUpTo(relays, n)
<1>0. PICK amount \in [1 .. n -> Nat] : Adds(w, amount, n)
      BY WeightsAdd
<1> HIDE DEF w
<1>1. \A k \in DOMAIN relays : w[k] \in Nat /\ k \in Nat
      <2>1. ASSUME NEW k \in DOMAIN relays PROVE w[k] \in Nat /\ k \in Nat
            <3>1. k \in 1 .. n /\ k \in 0 .. n
                  BY DEF Weighted
            <3> QED BY <1>0, <3>1 DEF Adds
      <2> QED BY <2>1
<1>2. ASSUME NEW k \in DOMAIN relays
      PROVE  k \in FoundBy(relays, n, 0) <=> \A i \in DOMAIN relays : k <= i
      <2>1. k \in FoundBy(relays, n, 0) <=> w[k] >= 0 /\ \A j \in DOMAIN relays : j < k => w[j] < 0
            BY DEF FoundBy, w
      <2>2. w[k] >= 0 /\ \A j \in DOMAIN relays : ~(w[j] < 0) /\ (~(j < k) <=> k <= j)
            BY <1>1
      <2> QED BY <2>1, <2>2
<1>3. FoundBy(relays, n, 0) \subseteq DOMAIN relays
      BY DEF FoundBy
<1>4. DOMAIN relays # {} => \E m \in DOMAIN relays : \A j \in DOMAIN relays : m <= j
      BY <1>1, LeastNatural
<1> QED BY <1>2, <1>3, <1>4

\* pick_random_relay: whatever the weights, the random number finds a relay, so that the
\* search has something to unwrap; a relay with a weight can be found, and one without only
\* if it is the first.
THEOREM RelayIsFound ==
    ASSUME NEW n \in Nat, NEW relays, Weighted(relays, n)
    PROVE  RelayChoiceIsSound(relays, n)
<1> DEFINE w == WeightUpTo(relays, n)
           total == w[n]
           found == UNION {FoundBy(relays, n, i) : i \in 0 .. total}
           good == {j \in DOMAIN relays : relays[j].weight > 0 \/ \A i \in DOMAIN relays : j <= i}
<1>1. PICK amount \in [1 .. n -> Nat] :
          /\ Adds(w, amount, n)
          /\ \A k \in DOMAIN relays : amount[k] = relays[k].weight
          /\ \A k \in 1 .. n : amount[k] # 0 => k \in DOMAIN relays
      BY WeightsAdd
<1>2. total \in Nat
      BY <1>1 DEF Adds
<1> SUFFICES ASSUME total > 0
             PROVE  (\A i \in 0 .. total : FoundBy(relays, n, i) # {}) /\ found = good
    <2>1. total > 0 => total # 0
          BY <1>2
    <2> QED BY <2>1 DEF RelayChoiceIsSound, pick_random_relay
<1>3. PICK p \in 1 .. n : amount[p] # 0 /\ p \in DOMAIN relays
      BY <1>1, <1>2, SumIsZero
<1>4. \A i \in 1 .. total : \E k \in DOMAIN relays : FoundBy(relays, n, i) = {k} /\ amount[k] # 0
      <2>1. ASSUME NEW i \in 1 .. total
            PROVE  \E k \in DOMAIN relays : FoundBy(relays, n, i) = {k} /\ amount[k] # 0
            <3>1. i \in Nat \ {0} /\ i <= w[n]
                  BY <1>2, <2>1
            <3> HIDE DEF w
            <3> QED BY <1>1, <3>1, FoundByNumber DEF w
      <2> QED BY <2>1
<1>5. FoundBy(relays, n, 0) # {} /\ FoundBy(relays, n, 0) = {k \in DOMAIN relays : \A i \in DOMAIN relays : k <= i}
      BY <1>3, FoundByZero
<1> HIDE DEF w
<1>6. \A i \in 0 .. total : i = 0 \/ i \in 1 .. total
      BY <1>2
<1>7. \A i \in 0 .. total : FoundBy(relays, n, i) # {}
      BY <1>4, <1>5, <1>6
<1>8. ASSUME NEW k \in found PROVE k \in good
      <2>1. PICK i \in 0 .. total : k \in FoundBy(relays, n, i)
            OBVIOUS
      <2>2. CASE i = 0
            BY <1>5, <2>1, <2>2
      <2>3. CASE i # 0
            <3>1. k \in DOMAIN relays /\ amount[k] # 0
                  BY <1>4, <1>6, <2>1, <2>3
            <3>2. relays[k].weight \in Nat /\ relays[k].weight # 0
                  BY <1>1, <3>1 DEF Weighted
            <3> QED BY <3>1, <3>2
      <2> QED BY <2>2, <2>3
<1>9. ASSUME NEW k \in good PROVE k \in found
      <2>1. CASE \A i \in DOMAIN relays : k <= i
            <3>1. k \in FoundBy(relays, n, 0) /\ 0 \in 0 .. total
                  BY <1>2, <1>5, <2>1
            <3> QED BY <3>1
      <2>2. CASE relays[k].weight > 0
            <3>1. k \in 1 .. n /\ k \in 0 .. n /\ k - 1 \in 0 .. n /\ n \in 0 .. n
                  BY DEF Weighted
            <3>2. w[k] = w[k - 1] + amount[k] /\ w[k] \in Nat /\ w[k - 1] \in Nat /\ w[k - 1] < w[k]
                  <4>1. w[k] = w[k - 1] + amount[k] /\ w[k] \in Nat /\ w[k - 1] \in Nat
                        BY <1>1, <3>1 DEF Adds
                  <4>2. amount[k] \in Nat /\ amount[k] > 0
                        BY <1>1, <2>2, <3>1
                  <4> QED BY <4>1, <4>2
            <3>3. w[k] <= total
                  <4>1. k <= n
                        BY <3>1
                  <4>2. w[k] <= w[n]
                        BY <1>1, <3>1, <4>1, SumGrows
                  <4> QED BY <4>2
            <3>4. ASSUME NEW j \in DOMAIN relays, j < k PROVE w[j] < w[k]
                  <4>1. j \in 0 .. n /\ j <= k - 1
                        BY <3>1, <3>4 DEF Weighted
                  <4>2. w[j] <= w[k - 1] /\ w[j] \in Nat
                        BY <1>1, <3>1, <4>1, SumGrows DEF Adds
                  <4> QED BY <3>2, <4>2
            <3>5. k \in FoundBy(relays, n, w[k])
                  BY <3>2, <3>4 DEF FoundBy, w
            <3>6. w[k] \in 0 .. total
                  BY <1>2, <3>2, <3>3
            <3> QED BY <3>5, <3>6
      <2> QED BY <2>1, <2>2
<1>10. found = good
      <2> HIDE DEF found, good
      <2> QED BY <1>8, <1>9
<1> QED BY <1>7, <1>10

\* Ranges of ports, as relays have them.
SoundRanges(ranges) == ranges \in Seq(Ports \X Ports) /\ \A k \in DOMAIN ranges : ranges[k][1] <= ranges[k][2]

\* The number of ports there are, as a number.
LEMMA PortsNumber ==
    \E m \in Nat \ {0} : m = 2 ^ PortBits /\ Ports = 0 .. m - 1 /\ AllPorts = <<0, m - 1>>
BY PortsAssumption DEF Ports, AllPorts

\* Numbers below the width are themselves, and the width is zero.
LEMMA SmallModulo ==
    ASSUME NEW m \in Nat \ {0}
    PROVE  m % m = 0 /\ \A x \in 0 .. m - 1 : x % m = x
OBVIOUS

\* A range has its ports, except that one of all ports has none.
LEMMA PortAmountIs ==
    ASSUME NEW range \in Ports \X Ports, range[1] <= range[2]
    PROVE  /\ range[1] \in Nat /\ range[2] \in Nat
           /\ PortAmount(range) = IF range = AllPorts THEN 0 ELSE 1 + range[2] - range[1]
           /\ PortAmount(range) \in Nat
<1>1. PICK m \in Nat \ {0} : m = 2 ^ PortBits /\ Ports = 0 .. m - 1 /\ AllPorts = <<0, m - 1>>
      BY PortsNumber
<1>2. PICK a \in 0 .. m - 1, b \in 0 .. m - 1 : range = <<a, b>> /\ a <= b
      BY <1>1
<1>3. PortAmount(range) = (1 + b - a) % m
      BY <1>1, <1>2 DEF PortAmount
<1>4. CASE a = 0 /\ b = m - 1
      <2>1. 1 + b - a = m
            BY <1>4
      <2>2. PortAmount(range) = 0
            BY <1>3, <2>1, SmallModulo
      <2> QED BY <1>1, <1>2, <1>4, <2>2
<1>5. CASE ~(a = 0 /\ b = m - 1)
      <2>1. 1 + b - a \in 0 .. m - 1
            BY <1>2, <1>5
      <2>2. PortAmount(range) = 1 + b - a
            BY <1>3, <2>1, SmallModulo
      <2>3. range # AllPorts /\ range[1] = a /\ range[2] = b
            BY <1>1, <1>2, <1>5
      <2> QED BY <1>1, <2>1, <2>2, <2>3
<1> QED BY <1>4, <1>5

\* The numbers of ports add up.
LEMMA PortsAdd ==
    ASSUME NEW ranges, SoundRanges(ranges)
    PROVE  /\ Len(ranges) \in Nat /\ DOMAIN ranges = 1 .. Len(ranges)
           /\ \E amount \in [1 .. Len(ranges) -> Nat] :
                 /\ Adds(PortsUpTo(ranges), amount, Len(ranges))
                 /\ \A k \in DOMAIN ranges : amount[k] = PortAmount(ranges[k])
<1>1. Len(ranges) \in Nat /\ DOMAIN ranges = 1 .. Len(ranges) /\ \A k \in DOMAIN ranges : ranges[k] \in Ports \X Ports
      BY DEF SoundRanges
<1> DEFINE n == Len(ranges)
           amount == [k \in 1 .. n |-> PortAmount(ranges[k])]
<1>2. \A k \in 1 .. n : PortAmount(ranges[k]) \in Nat
      BY <1>1, PortAmountIs DEF SoundRanges
<1>3. amount \in [1 .. n -> Nat]
      BY <1>2
<1>4. PortsUpTo(ranges) = SumUpTo(amount, n)
      BY DEF PortsUpTo
<1>5. \A k \in DOMAIN ranges : amount[k] = PortAmount(ranges[k])
      BY <1>1
<1> HIDE DEF n, amount
<1>6. n \in Nat
      BY <1>1 DEF n
<1>7. Adds(SumUpTo(amount, n), amount, n)
      BY <1>3, <1>6, SumAdds
<1> QED BY <1>1, <1>3, <1>4, <1>5, <1>7 DEF n

\* The range that is found for an index, and the port in it.
LEMMA PortAtRange ==
    ASSUME NEW ranges, SoundRanges(ranges), NEW i \in Nat, NEW k \in DOMAIN ranges,
           PortsUpTo(ranges)[k - 1] <= i, i < PortsUpTo(ranges)[k]
    PROVE  PortAt(ranges, i) = ranges[k][1] + i - PortsUpTo(ranges)[k - 1]
<1> DEFINE u == PortsUpTo(ranges)
           Holds(x) == u[x - 1] <= i /\ i < u[x]
<1>1. PICK n \in Nat : n = Len(ranges) /\ DOMAIN ranges = 1 .. n
      BY PortsAdd
<1>2. PICK amount \in [1 .. n -> Nat] : Adds(u, amount, n)
      BY <1>1, PortsAdd
<1>3. u[n] \in Nat /\ u[k] \in Nat /\ u[k] <= u[n]
      <2>1. k \in 0 .. n /\ n \in 0 .. n /\ k <= n
            BY <1>1
      <2>2. u[k] <= u[n]
            <3> HIDE DEF u
            <3> QED BY <1>2, <2>1, SumGrows
      <2> QED BY <1>2, <2>1, <2>2 DEF Adds
<1>4. i < u[n]
      BY <1>3
<1>5. \A j \in DOMAIN ranges : Holds(j) => j = k
      <2> HIDE DEF u
      <2>1. \A j, x \in 1 .. n : u[j - 1] <= i /\ i < u[j] /\ u[x - 1] <= i /\ i < u[x] => j = x
            BY <1>2, <1>4, SumCrosses
      <2> QED BY <1>1, <2>1 DEF u
<1>6. (CHOOSE x \in DOMAIN ranges : Holds(x)) = k
      <2> HIDE DEF Holds
      <2>1. Holds(k)
            BY DEF Holds
      <2> QED BY <1>5, <2>1
<1> QED BY <1>6 DEF PortAt

\* get_port_for_wireguard_relay: without a constraint on the port, the ports that can be
\* picked are those in the ranges, except in a range of all ports there are.
THEOREM PortIsFound ==
    ASSUME NEW ranges, SoundRanges(ranges)
    PROVE  /\ get_port_for_wireguard_relay(ranges, Ports) =
                 {p \in Ports : \E k \in DOMAIN ranges : ranges[k] # AllPorts /\ InRange(p, ranges[k])}
           /\ (\A k \in DOMAIN ranges : ranges[k] # AllPorts) => PortChoiceIsSound(ranges)
<1> DEFINE u == PortsUpTo(ranges)
           picked == get_port_for_wireguard_relay(ranges, Ports)
<1>1. PICK n \in Nat : n = Len(ranges) /\ DOMAIN ranges = 1 .. n
      BY PortsAdd
<1>2. PICK amount \in [1 .. n -> Nat] : Adds(u, amount, n) /\ \A k \in DOMAIN ranges : amount[k] = PortAmount(ranges[k])
      BY <1>1, PortsAdd
<1>3. ASSUME NEW k \in DOMAIN ranges
      PROVE  /\ ranges[k][1] \in Nat /\ ranges[k][2] \in Nat /\ ranges[k] \in Ports \X Ports
             /\ amount[k] = IF ranges[k] = AllPorts THEN 0 ELSE 1 + ranges[k][2] - ranges[k][1]
             /\ u[k - 1] \in Nat /\ u[k] \in Nat /\ u[k] = u[k - 1] + amount[k] /\ u[n] \in Nat /\ u[k] <= u[n]
      <2>1. ranges[k] \in Ports \X Ports /\ ranges[k][1] <= ranges[k][2]
            BY DEF SoundRanges
      <2>2. k \in 0 .. n /\ n \in 0 .. n /\ k - 1 \in 0 .. n /\ k \in 1 .. n /\ k <= n
            BY <1>1
      <2>3. u[k] <= u[n]
            <3> HIDE DEF u
            <3> QED BY <1>2, <2>2, SumGrows
      <2> QED BY <1>2, <2>1, <2>2, <2>3, PortAmountIs DEF Adds
<1>4. picked = {PortAt(ranges, i) : i \in 0 .. u[n] - 1} /\ u[n] \in Nat
      BY <1>1, <1>2 DEF get_port_for_wireguard_relay, Adds
<1>5. ASSUME NEW p \in picked
      PROVE  p \in Ports /\ \E k \in DOMAIN ranges : ranges[k] # AllPorts /\ InRange(p, ranges[k])
      <2>1. PICK i \in 0 .. u[n] - 1 : p = PortAt(ranges, i)
            BY <1>4
      <2>2. i \in Nat /\ i < u[n]
            BY <1>4
      <2>3. PICK k \in 1 .. n : u[k - 1] <= i /\ i < u[k]
            <3> HIDE DEF u
            <3> QED BY <1>2, <2>2, SumCrosses
      <2>4. p = ranges[k][1] + i - u[k - 1]
            BY <1>1, <2>1, <2>2, <2>3, PortAtRange
      <2> HIDE DEF u
      <2>5. ranges[k] # AllPorts /\ p \in Int /\ ranges[k][1] <= p /\ p <= ranges[k][2]
            <3>1. /\ ranges[k][1] \in Nat /\ ranges[k][2] \in Nat
                  /\ amount[k] = IF ranges[k] = AllPorts THEN 0 ELSE 1 + ranges[k][2] - ranges[k][1]
                  /\ u[k - 1] \in Nat /\ u[k] = u[k - 1] + amount[k]
                  BY <1>1, <1>3
            <3>2. ranges[k] # AllPorts
                  BY <2>2, <2>3, <3>1
            <3>3. i < u[k - 1] + (1 + ranges[k][2] - ranges[k][1])
                  BY <2>3, <3>1, <3>2
            <3>4. ASSUME NEW a \in Nat, NEW b \in Nat, NEW x \in Nat, x <= i, i < x + (1 + b - a)
                  PROVE  LET q == a + i - x IN q \in Int /\ a <= q /\ q <= b
                  BY <2>2, <3>4
            <3>5. u[k - 1] <= i /\ p = ranges[k][1] + i - u[k - 1]
                  BY <2>3, <2>4
            <3> QED BY <3>1, <3>2, <3>3, <3>4, <3>5
      <2>6. p \in Ports
            <3>1. PICK m \in Nat \ {0} : Ports = 0 .. m - 1
                  BY PortsNumber
            <3>2. ranges[k][1] \in 0 .. m - 1 /\ ranges[k][2] \in 0 .. m - 1
                  BY <1>1, <1>3, <3>1
            <3> QED BY <2>5, <3>1, <3>2
      <2> QED BY <1>1, <2>5, <2>6 DEF InRange
<1>6. ASSUME NEW p \in Ports, NEW k \in DOMAIN ranges, ranges[k] # AllPorts, InRange(p, ranges[k])
      PROVE  p \in picked
      <2>1. p \in Nat
            <3>1. PICK m \in Nat \ {0} : Ports = 0 .. m - 1
                  BY PortsNumber
            <3> QED BY <3>1
      <2>2. PICK i \in Int : i = u[k - 1] + p - ranges[k][1]
            <3> HIDE DEF u
            <3> QED BY <1>3, <2>1
      <2>3. ranges[k][1] <= p /\ p <= ranges[k][2]
            BY <1>6 DEF InRange
      <2>4. i \in Nat /\ u[k - 1] <= i /\ i < u[k] /\ i \in 0 .. u[n] - 1 /\ p = ranges[k][1] + i - u[k - 1]
            <3> HIDE DEF u
            <3>1. /\ ranges[k][1] \in Nat /\ ranges[k][2] \in Nat /\ u[k - 1] \in Nat /\ u[n] \in Nat /\ u[k] <= u[n]
                  /\ u[k] = u[k - 1] + (1 + ranges[k][2] - ranges[k][1])
                  BY <1>3, <1>6
            <3>2. ASSUME NEW a \in Nat, NEW b \in Nat, NEW x \in Nat, NEW y, NEW z \in Nat,
                         a <= p, p <= b, y = x + (1 + b - a), y <= z, i = x + p - a
                  PROVE  i \in Nat /\ x <= i /\ i < y /\ i \in 0 .. z - 1 /\ p = a + i - x
                  BY <2>1, <3>2
            <3>3. PICK a \in Nat, b \in Nat, x \in Nat, z \in Nat :
                      a = ranges[k][1] /\ b = ranges[k][2] /\ x = u[k - 1] /\ z = u[n]
                  BY <3>1
            <3>4. a <= p /\ p <= b /\ u[k] = x + (1 + b - a) /\ u[k] <= z /\ i = x + p - a
                  BY <2>2, <2>3, <3>1, <3>3
            <3>5. i \in Nat /\ x <= i /\ i < u[k] /\ i \in 0 .. z - 1 /\ p = a + i - x
                  BY <3>2, <3>4
            <3> QED BY <3>3, <3>5
      <2>5. PortAt(ranges, i) = p
            BY <2>4, PortAtRange
      <2> HIDE DEF picked
      <2> QED BY <1>4, <2>4, <2>5
<1>7. picked = {p \in Ports : \E k \in DOMAIN ranges : ranges[k] # AllPorts /\ InRange(p, ranges[k])}
      <2> HIDE DEF picked
      <2> QED BY <1>5, <1>6
<1>8. ASSUME \A k \in DOMAIN ranges : ranges[k] # AllPorts PROVE PortChoiceIsSound(ranges)
      BY <1>7, <1>8 DEF PortChoiceIsSound
<1> QED BY <1>7, <1>8

\* The choices that the runs check for small numbers are sound for all.
LEMMA RandomChoices == RandomChoiceIsSound
<1>1. ASSUME NEW n \in 1 .. 4, NEW weights \in [1 .. n -> 0 .. 2]
      PROVE  RelayChoiceIsSound([k \in 1 .. n |-> [weight |-> weights[k], nr |-> k]], n)
      <2> DEFINE relays == [k \in 1 .. n |-> [weight |-> weights[k], nr |-> k]]
      <2>1. n \in Nat /\ Weighted(relays, n)
            BY DEF Weighted
      <2> HIDE DEF relays
      <2>2. RelayChoiceIsSound(relays, n)
            BY <2>1, RelayIsFound
      <2> QED BY <2>2 DEF relays
<1>2. ASSUME NEW n \in 1 .. 2, NEW ranges \in [1 .. n -> {r \in Ports \X Ports : r[1] <= r[2] /\ r # AllPorts}]
      PROVE  PortChoiceIsSound(ranges)
      <2>1. DOMAIN ranges = 1 .. n /\ n \in Nat /\ \A k \in 1 .. n : ranges[k] \in Ports \X Ports
            OBVIOUS
      <2>2. ranges \in Seq(Ports \X Ports)
            BY <2>1
      <2>3. SoundRanges(ranges) /\ \A k \in DOMAIN ranges : ranges[k] # AllPorts
            BY <2>1, <2>2 DEF SoundRanges
      <2> QED BY <2>3, PortIsFound
<1> QED BY <1>1, <1>2 DEF RandomChoiceIsSound

-----------------------------------------------------------------------------
(* Endpoints                                                               *)

Constraints ==
    [location : Seq(STRING), tunnel_protocol : {Tunnels, {"openvpn"}, {"wireguard"}},
     wireguard : SUBSET Ports, openvpn : [port : SUBSET Ports, protocol : SUBSET Protocols]]

\* A list as the API serves it.
SoundList(relays) ==
    /\ relays \in Seq(Relay)
    /\ \A k \in DOMAIN relays :
          relays[k].name \notin {"none", "custom"} /\ \A w \in relays[k].wireguard : SoundRanges(w)

\* The outcome o is an endpoint of a relay of the list that the constraints allow.
Allowed(relays, o, c) ==
    \E i \in DOMAIN relays :
        LET r == relays[i]
            e == o.endpoint
        IN  /\ r.name = o.relay /\ r.km = o.km
            /\ relay_matches_location(r, c.location)
            /\ e.tunnel \in c.tunnel_protocol
            /\ e.tunnel = "openvpn" => [port |-> e.port, protocol |-> e.protocol] \in r.openvpn
            /\ c.tunnel_protocol = {"openvpn"} => e.port \in c.openvpn.port /\ e.protocol \in c.openvpn.protocol
            /\ e.tunnel = "wireguard" =>
                  e.port \in c.wireguard /\ \E w \in r.wireguard : \E k \in DOMAIN w : InRange(e.port, w[k])

\* The values of the constraint on the tunnel protocol differ.
LEMMA TunnelSets ==
    /\ Tunnels # {"openvpn"} /\ Tunnels # {"wireguard"} /\ {"openvpn"} # {"wireguard"}
    /\ "openvpn" \in Tunnels /\ "openvpn" \notin {"wireguard"}
<1>1. "openvpn" \in Tunnels /\ "wireguard" \in Tunnels /\ "openvpn" \notin {"wireguard"} /\ "wireguard" \notin {"openvpn"}
      BY DEF Tunnels
<1> QED BY <1>1

\* Every list that is served is one.
LEMMA ListIsSound ==
    ASSUME NEW v \in 0 .. MaxVersion
    PROVE  SoundList(RelaysOf(v)) /\ Len(RelaysOf(v)) \in Nat /\ DOMAIN RelaysOf(v) = 1 .. Len(RelaysOf(v))
<1>1. /\ Lists[v] \in Seq(Relay)
      /\ \A k \in DOMAIN Lists[v] :
            /\ Lists[v][k].name \notin {"none", "custom"}
            /\ \A w \in Lists[v][k].wireguard : \A i \in DOMAIN w : w[i][1] <= w[i][2]
      BY ListsAssumption
<1>2. ASSUME NEW k \in DOMAIN Lists[v], NEW w \in Lists[v][k].wireguard PROVE SoundRanges(w)
      <2>1. Lists[v][k] \in Relay
            BY <1>1
      <2>2. w \in Seq(Ports \X Ports)
            BY <2>1 DEF Relay
      <2> QED BY <1>1, <2>2 DEF SoundRanges
<1> QED BY <1>1, <1>2 DEF SoundList, RelaysOf

\* matching_openvpn_tunnels, matching_wireguard_tunnels keep the relay, and the tunnels that match.
LEMMA MatchingTunnelsAre ==
    ASSUME NEW r \in Relay, NEW c \in Constraints
    PROVE  LET m == MatchingTunnels(r, c)
           IN  /\ m.name = r.name /\ m.km = r.km /\ m.weight = r.weight
               /\ m.openvpn \subseteq r.openvpn /\ m.wireguard \subseteq r.wireguard
               /\ c.tunnel_protocol = {"openvpn"} =>
                     m.openvpn = {e \in r.openvpn : MatchesOpenVpn(c.openvpn, e)} /\ m.wireguard = {}
               /\ c.tunnel_protocol = {"wireguard"} =>
                     m.wireguard = {w \in r.wireguard : MatchesWireguard(c.wireguard, w)} /\ m.openvpn = {}
<1> DEFINE m == MatchingTunnels(r, c)
<1>1. CASE c.tunnel_protocol = Tunnels
      <2>1. m = r
            BY <1>1, TunnelSets DEF MatchingTunnels
      <2> QED BY <1>1, <2>1, TunnelSets
<1>2. CASE c.tunnel_protocol = {"openvpn"}
      <2>1. m = [r EXCEPT !.openvpn = {e \in @ : MatchesOpenVpn(c.openvpn, e)}, !.wireguard = {}]
            BY <1>2, TunnelSets DEF MatchingTunnels
      <2> QED BY <1>2, <2>1, TunnelSets DEF Relay
<1>3. CASE c.tunnel_protocol = {"wireguard"}
      <2>1. m = [r EXCEPT !.wireguard = {w \in @ : MatchesWireguard(c.wireguard, w)}, !.openvpn = {}]
            BY <1>3, TunnelSets DEF MatchingTunnels
      <2> QED BY <1>3, <2>1, TunnelSets DEF Relay
<1> QED BY <1>1, <1>2, <1>3 DEF Constraints

\* What matching_relay finds in a list.
LEMMA MatchingRelaysAre ==
    ASSUME NEW relays, SoundList(relays), NEW c \in Constraints
    PROVE  LET m == MatchingRelays(relays, c)
           IN  /\ DOMAIN m \subseteq DOMAIN relays /\ Weighted(m, Len(relays)) /\ Len(relays) \in Nat
               /\ \A k \in DOMAIN m :
                     /\ relays[k] \in Relay /\ m[k] = MatchingTunnels(relays[k], c)
                     /\ relay_matches_location(relays[k], c.location)
                     /\ m[k].openvpn # {} \/ m[k].wireguard # {}
               /\ \A k \in DOMAIN relays :
                     relay_matches_location(relays[k], c.location)
                     /\ (MatchingTunnels(relays[k], c).openvpn # {} \/ MatchingTunnels(relays[k], c).wireguard # {})
                     => k \in DOMAIN m
<1> DEFINE m == MatchingRelays(relays, c)
           Has(r) == MatchingTunnels(r, c).openvpn # {} \/ MatchingTunnels(r, c).wireguard # {}
           places == {k \in DOMAIN relays : relay_matches_location(relays[k], c.location) /\ Has(relays[k])}
<1>1. Len(relays) \in Nat /\ DOMAIN relays = 1 .. Len(relays) /\ \A k \in DOMAIN relays : relays[k] \in Relay
      BY DEF SoundList
<1>2. m = [k \in places |-> MatchingTunnels(relays[k], c)]
      BY DEF MatchingRelays
<1>3. DOMAIN m = places /\ \A k \in places : m[k] = MatchingTunnels(relays[k], c)
      BY <1>2
<1> HIDE DEF m
<1>4. Weighted(m, Len(relays))
      <2>1. ASSUME NEW k \in places PROVE m[k].weight \in Nat
            <3>1. relays[k] \in Relay /\ relays[k].weight \in Nat
                  BY <1>1 DEF Relay
            <3>2. m[k].weight = relays[k].weight
                  BY <1>3, <3>1, MatchingTunnelsAre
            <3> QED BY <3>1, <3>2
      <2> QED BY <1>1, <1>3, <2>1 DEF Weighted
<1> QED BY <1>1, <1>3, <1>4 DEF m

\* pick_random_relay picks one of the relays.
LEMMA PickedIsOne ==
    ASSUME NEW relays, NEW n, NEW r \in pick_random_relay(relays, n)
    PROVE  \E k \in DOMAIN relays : r = relays[k]
<1>1. \A i : FoundBy(relays, n, i) \subseteq DOMAIN relays
      BY DEF FoundBy
<1> QED BY <1>1 DEF pick_random_relay

\* get_tunnel_endpoint_internal: an outcome is NoRelay or an endpoint of a relay that matches.
LEMMA OutcomeIs ==
    ASSUME NEW relays, SoundList(relays), NEW c \in Constraints,
           NEW o \in get_tunnel_endpoint_internal(relays, c)
    PROVE  \/ o = NoRelay /\ pick_random_relay(MatchingRelays(relays, c), Len(relays)) = {}
           \/ \E k \in DOMAIN relays :
                 LET r == MatchingTunnels(relays[k], c)
                 IN  /\ relays[k] \in Relay /\ relay_matches_location(relays[k], c.location)
                     /\ r.openvpn # {} \/ r.wireguard # {}
                     /\ \E e \in get_random_tunnel(r, c) :
                           o = IF e = NoEndpoint THEN NoRelay ELSE [relay |-> r.name, km |-> r.km, endpoint |-> e]
<1> DEFINE m == MatchingRelays(relays, c)
           picked == pick_random_relay(m, Len(relays))
<1>1. CASE picked = {}
      BY <1>1 DEF get_tunnel_endpoint_internal
<1>2. CASE picked # {}
      <2>1. PICK r \in picked : \E e \in get_random_tunnel(r, c) :
                o = IF e = NoEndpoint THEN NoRelay ELSE [relay |-> r.name, km |-> r.km, endpoint |-> e]
            BY <1>2, Zenon DEF get_tunnel_endpoint_internal
      <2>2. PICK k \in DOMAIN m : r = m[k]
            BY PickedIsOne
      <2>3. /\ k \in DOMAIN relays /\ relays[k] \in Relay /\ m[k] = MatchingTunnels(relays[k], c)
            /\ relay_matches_location(relays[k], c.location) /\ (m[k].openvpn # {} \/ m[k].wireguard # {})
            BY MatchingRelaysAre
      <2> QED BY <2>1, <2>2, <2>3
<1> QED BY <1>1, <1>2

\* The ports for a WireGuard tunnel are allowed and in its ranges.
LEMMA WireguardPorts ==
    ASSUME NEW ranges, SoundRanges(ranges), NEW ports \in SUBSET Ports,
           NEW p \in get_port_for_wireguard_relay(ranges, ports)
    PROVE  p \in ports /\ \E k \in DOMAIN ranges : InRange(p, ranges[k])
<1>1. CASE ports = Ports
      BY <1>1, PortIsFound
<1>2. CASE ports # Ports
      BY <1>2 DEF get_port_for_wireguard_relay
<1> QED BY <1>1, <1>2

\* No port is found for a tunnel that matches only if its ranges all have every port.
LEMMA NoWireguardPort ==
    ASSUME NEW ranges, SoundRanges(ranges), NEW ports \in SUBSET Ports,
           MatchesWireguard(ports, ranges), get_port_for_wireguard_relay(ranges, ports) = {}
    PROVE  \A k \in DOMAIN ranges : ranges[k] = AllPorts
<1>1. CASE ports = Ports
      <2>1. ASSUME NEW k \in DOMAIN ranges, ranges[k] # AllPorts PROVE FALSE
            <3>1. ranges[k] \in Ports \X Ports /\ ranges[k][1] <= ranges[k][2]
                  BY DEF SoundRanges
            <3>2. ranges[k][1] \in Ports /\ ranges[k][1] \in Nat
                  BY <3>1, PortAmountIs
            <3>3. InRange(ranges[k][1], ranges[k])
                  BY <3>1, <3>2 DEF InRange
            <3> QED BY <1>1, <2>1, <3>2, <3>3, PortIsFound
      <2> QED BY <2>1
<1>2. CASE ports # Ports
      BY <1>2 DEF get_port_for_wireguard_relay, MatchesWireguard
<1> QED BY <1>1, <1>2

\* get_random_tunnel: an endpoint of the relay, by the protocols that are allowed.
LEMMA RandomTunnelIs ==
    ASSUME NEW r, NEW c \in Constraints, NEW e \in get_random_tunnel(r, c)
    PROVE  /\ "openvpn" \in c.tunnel_protocol =>
                 IF r.openvpn = {} THEN e = NoEndpoint
                 ELSE \E x \in r.openvpn : e = [tunnel |-> "openvpn", port |-> x.port, protocol |-> x.protocol]
           /\ "openvpn" \notin c.tunnel_protocol /\ r.wireguard # {} =>
                 \E w \in r.wireguard :
                    \/ e = NoEndpoint /\ get_port_for_wireguard_relay(w, c.wireguard) = {}
                    \/ \E p \in get_port_for_wireguard_relay(w, c.wireguard) :
                          e = [tunnel |-> "wireguard", port |-> p, protocol |-> "udp"]
           /\ "openvpn" \notin c.tunnel_protocol /\ r.wireguard = {} => e = NoEndpoint
<1>1. CASE "openvpn" \in c.tunnel_protocol
      BY <1>1 DEF get_random_tunnel, OrNoEndpoint
<1>2. CASE "openvpn" \notin c.tunnel_protocol
      <2> DEFINE all == UNION {wg_data_to_endpoint(w, c.wireguard) : w \in r.wireguard}
      <2>1. e \in OrNoEndpoint(all)
            BY <1>2 DEF get_random_tunnel
      <2>2. CASE r.wireguard = {}
            <3>1. all = {}
                  BY <2>2
            <3> QED BY <1>2, <2>1, <2>2, <3>1 DEF OrNoEndpoint
      <2>3. CASE r.wireguard # {}
            <3>1. \A w : wg_data_to_endpoint(w, c.wireguard) # {}
                  BY DEF wg_data_to_endpoint, OrNoEndpoint
            <3>2. e \in all
                  BY <2>1, <2>3, <3>1 DEF OrNoEndpoint
            <3>3. PICK w \in r.wireguard : e \in wg_data_to_endpoint(w, c.wireguard)
                  BY <3>2
            <3>4. \/ e = NoEndpoint /\ get_port_for_wireguard_relay(w, c.wireguard) = {}
                  \/ \E p \in get_port_for_wireguard_relay(w, c.wireguard) :
                        e = [tunnel |-> "wireguard", port |-> p, protocol |-> "udp"]
                  BY <3>3 DEF wg_data_to_endpoint, OrNoEndpoint
            <3> QED BY <1>2, <2>3, <3>4
      <2> QED BY <2>2, <2>3
<1> QED BY <1>1, <1>2

\* Whatever relay is chosen, its endpoint is one the constraints allow.
LEMMA EndpointIsAllowed ==
    ASSUME NEW relays, SoundList(relays), NEW c \in Constraints,
           NEW o \in get_tunnel_endpoint_internal(relays, c), o # NoRelay
    PROVE  /\ Allowed(relays, o, c)
           /\ "openvpn" \in c.tunnel_protocol => o.endpoint.tunnel = "openvpn"
           /\ o \in [relay : STRING, km : Nat,
                     endpoint : [tunnel : Tunnels, port : Ports, protocol : Protocols]]
           /\ o.relay \notin {"none", "custom"}
<1>1. PICK k \in DOMAIN relays :
          LET r == MatchingTunnels(relays[k], c)
          IN  /\ relays[k] \in Relay /\ relay_matches_location(relays[k], c.location)
              /\ r.openvpn # {} \/ r.wireguard # {}
              /\ \E e \in get_random_tunnel(r, c) :
                    o = IF e = NoEndpoint THEN NoRelay ELSE [relay |-> r.name, km |-> r.km, endpoint |-> e]
      BY OutcomeIs
<1> DEFINE r == MatchingTunnels(relays[k], c)
<1>2. PICK e \in get_random_tunnel(r, c) :
          e # NoEndpoint /\ o = [relay |-> r.name, km |-> r.km, endpoint |-> e]
      BY <1>1
<1>3. /\ r.name = relays[k].name /\ r.km = relays[k].km
      /\ r.openvpn \subseteq relays[k].openvpn /\ r.wireguard \subseteq relays[k].wireguard
      /\ c.tunnel_protocol = {"openvpn"} => r.openvpn = {x \in relays[k].openvpn : MatchesOpenVpn(c.openvpn, x)}
      BY <1>1, MatchingTunnelsAre
<1>4. relays[k].name \notin {"none", "custom"} /\ relays[k].name \in STRING /\ relays[k].km \in Nat
      BY <1>1 DEF Relay, SoundList
<1> HIDE DEF r
<1>5. CASE "openvpn" \in c.tunnel_protocol
      <2>1. PICK x \in r.openvpn : e = [tunnel |-> "openvpn", port |-> x.port, protocol |-> x.protocol]
            BY <1>2, <1>5, RandomTunnelIs
      <2>2. x \in relays[k].openvpn /\ x \in [port : Ports, protocol : Protocols]
            BY <1>1, <1>3 DEF Relay
      <2>3. [port |-> e.port, protocol |-> e.protocol] = x
            BY <2>1, <2>2
      <2>4. c.tunnel_protocol = {"openvpn"} => e.port \in c.openvpn.port /\ e.protocol \in c.openvpn.protocol
            BY <1>3, <2>1 DEF MatchesOpenVpn
      <2>5. o.relay = relays[k].name /\ o.km = relays[k].km /\ o.endpoint = e /\ e.tunnel = "openvpn"
            BY <1>2, <1>3, <2>1
      <2>6. Allowed(relays, o, c)
            BY <1>1, <1>5, <2>2, <2>3, <2>4, <2>5 DEF Allowed
      <2>7. e \in [tunnel : Tunnels, port : Ports, protocol : Protocols]
            BY <2>1, <2>2, TunnelSets
      <2> QED BY <1>2, <1>3, <1>4, <2>5, <2>6, <2>7
<1>6. CASE "openvpn" \notin c.tunnel_protocol
      <2>0. c.tunnel_protocol = {"wireguard"}
            BY <1>6, TunnelSets DEF Constraints
      <2>1. PICK w \in r.wireguard : \E p \in get_port_for_wireguard_relay(w, c.wireguard) :
                e = [tunnel |-> "wireguard", port |-> p, protocol |-> "udp"]
            BY <1>2, <1>6, RandomTunnelIs
      <2>2. PICK p \in get_port_for_wireguard_relay(w, c.wireguard) :
                e = [tunnel |-> "wireguard", port |-> p, protocol |-> "udp"]
            BY <2>1
      <2>3. w \in relays[k].wireguard /\ SoundRanges(w)
            BY <1>3 DEF SoundList
      <2>4. p \in c.wireguard /\ \E i \in DOMAIN w : InRange(p, w[i])
            <3>1. c.wireguard \in SUBSET Ports
                  BY DEF Constraints
            <3> QED BY <2>2, <2>3, <3>1, WireguardPorts
      <2>5. o.relay = relays[k].name /\ o.km = relays[k].km /\ o.endpoint = e /\ e.tunnel = "wireguard" /\ e.port = p
            BY <1>2, <1>3, <2>2
      <2>6. Allowed(relays, o, c)
            BY <1>1, <2>0, <2>3, <2>4, <2>5, TunnelSets DEF Allowed
      <2>7. e \in [tunnel : Tunnels, port : Ports, protocol : Protocols]
            <3>1. p \in Ports
                  BY <2>4 DEF Constraints
            <3> QED BY <2>2, <3>1 DEF Tunnels, Protocols
      <2> QED BY <1>2, <1>3, <1>4, <1>6, <2>5, <2>6, <2>7
<1> QED BY <1>5, <1>6

\* Where no relay is usable, or a tunnel of one has no ranges but those of all ports.
NoneUsable(relays, c) ==
    LET all == {relays[k] : k \in DOMAIN relays}
    IN  \/ \A r \in all : ~Usable(r, c)
        \/ \E r \in all : \E w \in r.wireguard : \A k \in DOMAIN w : w[k] = AllPorts

\* A usable relay matches.
LEMMA UsableMatches ==
    ASSUME NEW r \in Relay, NEW c \in Constraints, c.tunnel_protocol # Tunnels, Usable(r, c)
    PROVE  LET m == MatchingTunnels(r, c)
           IN  relay_matches_location(r, c.location) /\ r.weight > 0 /\ (m.openvpn # {} \/ m.wireguard # {})
<1> DEFINE m == MatchingTunnels(r, c)
<1>1. /\ relay_matches_location(r, c.location) /\ r.weight > 0
      /\ \/ "openvpn" \in c.tunnel_protocol /\ \E e \in r.openvpn : MatchesOpenVpn(c.openvpn, e)
         \/ /\ "wireguard" \in c.tunnel_protocol
            /\ \E w \in r.wireguard, p \in c.wireguard : \E k \in DOMAIN w : InRange(p, w[k])
      BY DEF Usable
<1>2. CASE c.tunnel_protocol = {"openvpn"}
      <2>1. \E e \in r.openvpn : MatchesOpenVpn(c.openvpn, e)
            BY <1>1, <1>2
      <2> QED BY <1>1, <1>2, <2>1, MatchingTunnelsAre
<1>3. CASE c.tunnel_protocol = {"wireguard"}
      <2>1. \E w \in r.wireguard : MatchesWireguard(c.wireguard, w)
            BY <1>1, <1>3, TunnelSets DEF MatchesWireguard
      <2> QED BY <1>1, <1>3, <2>1, MatchingTunnelsAre
<1> QED BY <1>2, <1>3 DEF Constraints

\* pick_random_relay finds nothing only where no relay has a weight.
LEMMA NothingPicked ==
    ASSUME NEW relays, NEW n \in Nat, Weighted(relays, n), pick_random_relay(relays, n) = {}
    PROVE  \A k \in DOMAIN relays : relays[k].weight = 0
<1> DEFINE w == WeightUpTo(relays, n)
           total == w[n]
<1>1. PICK amount \in [1 .. n -> Nat] :
          /\ Adds(w, amount, n)
          /\ \A k \in DOMAIN relays : amount[k] = relays[k].weight
          /\ \A k \in 1 .. n : amount[k] # 0 => k \in DOMAIN relays
      BY WeightsAdd
<1>2. total \in Nat /\ DOMAIN relays \subseteq 1 .. n
      BY <1>1 DEF Adds, Weighted
<1>3. total = 0
      <2> SUFFICES ASSUME total # 0 PROVE FALSE
          OBVIOUS
      <2>1. total > 0 /\ 0 \in 0 .. total
            BY <1>2
      <2>2. FoundBy(relays, n, 0) # {}
            BY <2>1, RelayIsFound DEF RelayChoiceIsSound
      <2>3. PICK k : k \in UNION {FoundBy(relays, n, i) : i \in 0 .. total}
            <3> HIDE DEF w
            <3> QED BY <2>1, <2>2
      <2>4. relays[k] \in pick_random_relay(relays, n)
            BY <2>3 DEF pick_random_relay
      <2> QED BY <2>4
<1> HIDE DEF w
<1>4. \A k \in 1 .. n : amount[k] = 0
      BY <1>1, <1>3, SumIsZero
<1> QED BY <1>1, <1>2, <1>4

\* When a tunnel protocol is chosen, no relay is found only where none is usable.
LEMMA NoRelayIsRight ==
    ASSUME NEW relays, SoundList(relays), NEW c \in Constraints, c.tunnel_protocol # Tunnels,
           NoRelay \in get_tunnel_endpoint_internal(relays, c)
    PROVE  NoneUsable(relays, c)
<1>0. \A k \in DOMAIN relays : relays[k] \in Relay
      BY DEF SoundList
<1>1. CASE pick_random_relay(MatchingRelays(relays, c), Len(relays)) = {}
      <2> DEFINE m == MatchingRelays(relays, c)
      <2>1. Weighted(m, Len(relays)) /\ Len(relays) \in Nat
            BY MatchingRelaysAre
      <2>2. \A k \in DOMAIN m : m[k].weight = 0
            <3> HIDE DEF m
            <3> QED BY <1>1, <2>1, NothingPicked DEF m
      <2>3. ASSUME NEW k \in DOMAIN relays, Usable(relays[k], c) PROVE FALSE
            <3>1. /\ relay_matches_location(relays[k], c.location) /\ relays[k].weight > 0
                  /\ MatchingTunnels(relays[k], c).openvpn # {} \/ MatchingTunnels(relays[k], c).wireguard # {}
                  BY <1>0, <2>3, UsableMatches
            <3>2. k \in DOMAIN m
                  BY <3>1, MatchingRelaysAre
            <3>3. m[k].weight = relays[k].weight
                  <4>1. m[k] = MatchingTunnels(relays[k], c) /\ relays[k] \in Relay
                        BY <3>2, MatchingRelaysAre
                  <4> QED BY <4>1, MatchingTunnelsAre
            <3> QED BY <2>2, <3>1, <3>2, <3>3
      <2> QED BY <2>3 DEF NoneUsable
<1>2. CASE \E k \in DOMAIN relays :
              LET r == MatchingTunnels(relays[k], c)
              IN  /\ relays[k] \in Relay /\ relay_matches_location(relays[k], c.location)
                  /\ r.openvpn # {} \/ r.wireguard # {}
                  /\ \E e \in get_random_tunnel(r, c) :
                        NoRelay = IF e = NoEndpoint THEN NoRelay ELSE [relay |-> r.name, km |-> r.km, endpoint |-> e]
      <2>1. PICK k \in DOMAIN relays :
              LET r == MatchingTunnels(relays[k], c)
              IN  /\ relays[k] \in Relay
                  /\ r.openvpn # {} \/ r.wireguard # {}
                  /\ \E e \in get_random_tunnel(r, c) :
                        NoRelay = IF e = NoEndpoint THEN NoRelay ELSE [relay |-> r.name, km |-> r.km, endpoint |-> e]
            BY <1>2
      <2> DEFINE r == MatchingTunnels(relays[k], c)
      <2>2. NoEndpoint \in get_random_tunnel(r, c)
            <3>1. PICK e \in get_random_tunnel(r, c) :
                      e # NoEndpoint => NoRelay = [relay |-> r.name, km |-> r.km, endpoint |-> e]
                  BY <2>1
            <3>2. e = NoEndpoint
                  BY <3>1 DEF NoRelay
            <3> QED BY <3>2
      <2>3. /\ c.tunnel_protocol = {"openvpn"} => r.wireguard = {}
            /\ c.tunnel_protocol = {"wireguard"} =>
                  r.wireguard = {w \in relays[k].wireguard : MatchesWireguard(c.wireguard, w)} /\ r.openvpn = {}
            BY <2>1, MatchingTunnelsAre
      <2>4. r.openvpn # {} \/ r.wireguard # {}
            BY <2>1
      <2> HIDE DEF r
      <2>5. CASE c.tunnel_protocol = {"openvpn"}
            <3>1. PICK x \in r.openvpn : NoEndpoint = [tunnel |-> "openvpn", port |-> x.port, protocol |-> x.protocol]
                  BY <2>2, <2>3, <2>4, <2>5, RandomTunnelIs
            <3> QED BY <3>1 DEF NoEndpoint
      <2>6. CASE c.tunnel_protocol = {"wireguard"}
            <3>1. PICK w \in r.wireguard :
                    \/ get_port_for_wireguard_relay(w, c.wireguard) = {}
                    \/ \E p \in get_port_for_wireguard_relay(w, c.wireguard) :
                          NoEndpoint = [tunnel |-> "wireguard", port |-> p, protocol |-> "udp"]
                  BY <2>2, <2>3, <2>4, <2>6, RandomTunnelIs, TunnelSets
            <3>2. get_port_for_wireguard_relay(w, c.wireguard) = {}
                  BY <3>1 DEF NoEndpoint
            <3>3. w \in relays[k].wireguard /\ MatchesWireguard(c.wireguard, w) /\ SoundRanges(w)
                  BY <2>3, <2>6 DEF SoundList
            <3>4. c.wireguard \in SUBSET Ports
                  BY DEF Constraints
            <3>5. \A i \in DOMAIN w : w[i] = AllPorts
                  BY <3>2, <3>3, <3>4, NoWireguardPort
            <3> QED BY <3>3, <3>5 DEF NoneUsable
      <2> QED BY <2>5, <2>6 DEF Constraints
<1> QED BY <1>1, <1>2, OutcomeIs

\* preferred_constraints are constraints, and what they allow the user's constraints allow.
LEMMA PreferredNarrows ==
    ASSUME NEW c \in Constraints, NEW attempt \in Nat
    PROVE  LET f == preferred_constraints(c, attempt)
           IN  /\ f \in Constraints /\ f.location = c.location /\ f.tunnel_protocol = c.tunnel_protocol
               /\ c.tunnel_protocol = {"openvpn"} => f.openvpn = c.openvpn
               /\ c.tunnel_protocol = {"wireguard"} => f.wireguard = c.wireguard
<1> DEFINE f == preferred_constraints(c, attempt)
<1>1. AnyOpenVpn \in [port : SUBSET Ports, protocol : SUBSET Protocols]
      BY DEF AnyOpenVpn
<1>2. \A q \in {"udp", "tcp"} : [port |-> Ports, protocol |-> {q}] \in [port : SUBSET Ports, protocol : SUBSET Protocols]
      BY DEF Protocols
<1>3. [port |-> {Port443}, protocol |-> {"tcp"}] \in [port : SUBSET Ports, protocol : SUBSET Protocols]
      BY PortsAssumption DEF Protocols
<1> DEFINE preferred ==
          CASE attempt \in {0, 1} -> [port |-> Ports, protocol |-> {"udp"}]
            [] attempt \in {2, 3} -> [port |-> {Port443}, protocol |-> {"tcp"}]
            [] attempt > 3 /\ attempt % 2 = 0 -> [port |-> Ports, protocol |-> {"udp"}]
            [] OTHER -> [port |-> Ports, protocol |-> {"tcp"}]
<1>4. preferred \in [port : SUBSET Ports, protocol : SUBSET Protocols]
      BY <1>2, <1>3
<1>5. f = [location        |-> c.location,
           tunnel_protocol |-> c.tunnel_protocol,
           wireguard       |-> IF c.tunnel_protocol = {"wireguard"} THEN c.wireguard ELSE Ports,
           openvpn         |-> CASE c.tunnel_protocol = {"wireguard"} -> AnyOpenVpn
                                 [] c.tunnel_protocol = Tunnels /\ c.openvpn = AnyOpenVpn -> preferred
                                 [] OTHER -> c.openvpn]
      BY DEF preferred_constraints
<1> HIDE DEF f, preferred
<1>6. f.openvpn \in [port : SUBSET Ports, protocol : SUBSET Protocols] /\ (c.tunnel_protocol = {"openvpn"} => f.openvpn = c.openvpn)
      <2>1. c.openvpn \in [port : SUBSET Ports, protocol : SUBSET Protocols]
            BY DEF Constraints
      <2> QED BY <1>1, <1>4, <1>5, <2>1, TunnelSets
<1>7. f.wireguard \in SUBSET Ports /\ f.location \in Seq(STRING) /\ f.tunnel_protocol \in {Tunnels, {"openvpn"}, {"wireguard"}}
      BY <1>5 DEF Constraints
<1>8. f = [location |-> f.location, tunnel_protocol |-> f.tunnel_protocol, wireguard |-> f.wireguard, openvpn |-> f.openvpn]
      BY <1>5
<1>9. f \in Constraints
      BY <1>6, <1>7, <1>8 DEF Constraints
<1> QED BY <1>5, <1>6, <1>9 DEF f

\* What is found with preferences, the user's settings allow.
LEMMA PreferredIsAllowed ==
    ASSUME NEW relays, SoundList(relays), NEW c \in Constraints, NEW attempt \in Nat,
           NEW o \in get_tunnel_endpoint_internal(relays, preferred_constraints(c, attempt)), o # NoRelay
    PROVE  Allowed(relays, o, c)
<1> DEFINE f == preferred_constraints(c, attempt)
<1>1. /\ f \in Constraints /\ f.location = c.location /\ f.tunnel_protocol = c.tunnel_protocol
      /\ c.tunnel_protocol = {"openvpn"} => f.openvpn = c.openvpn
      /\ c.tunnel_protocol = {"wireguard"} => f.wireguard = c.wireguard
      BY PreferredNarrows
<1> HIDE DEF f
<1>2. Allowed(relays, o, f) /\ ("openvpn" \in f.tunnel_protocol => o.endpoint.tunnel = "openvpn")
      BY <1>1, EndpointIsAllowed DEF f
<1>3. o.endpoint.tunnel = "wireguard" => c.tunnel_protocol = {"wireguard"}
      <2>1. c.tunnel_protocol \in {Tunnels, {"openvpn"}, {"wireguard"}}
            BY DEF Constraints
      <2> QED BY <1>1, <1>2, <2>1, TunnelSets
<1> QED BY <1>1, <1>2, <1>3 DEF Allowed

-----------------------------------------------------------------------------
(* The invariant                                                           *)

ListTypes ==
    /\ api \in ApiAddresses /\ handle \in Addresses \cup {None}
    /\ addrFile \in [addr : Addresses \cup TornContents \cup {None}, age : Ages]
    /\ kept \in BOOLEAN /\ torn \in BOOLEAN
    /\ server \in 1 .. MaxVersion /\ list \in [ver : 0 .. MaxVersion, age : Ages]
    /\ cache \in [ver : -1 .. MaxVersion, age : Ages] /\ bundled \in [ver : -1 .. MaxVersion, age : Ages]
    /\ phase \in {"down", "resolving", "loading", "up", "dropped"}
    /\ updater \in {"none", "waiting", "downloading", "creating", "writing", "installing"}
    /\ got \in 0 .. server
    /\ (phase \in {"down", "resolving", "loading"}) => updater = "none"

\* Before the handle is made there is none.  What the file holds is an address of the API,
\* once one was kept, and nothing else unless a write was cut short.
AddressInv ==
    /\ phase \in {"down", "resolving"} => handle = None
    /\ ~torn => addrFile.addr \in ApiAddresses \cup {None}
    /\ kept => addrFile.addr \in ApiAddresses
    /\ ApiAddressIsSound /\ KnownAddressSurvives

\* No list is newer than what the API serves, what is downloaded is as new as the list in
\* memory, and a file that can be read holds relays.
VersionInv ==
    /\ cache.ver # 0 /\ bundled.ver # 0
    /\ cache.ver <= server /\ bundled.ver <= server /\ list.ver <= server
    /\ updater \in {"creating", "writing", "installing"} => got > 0 /\ got >= list.ver
    /\ StartsWithRelays

ListInv == ListTypes /\ AddressInv /\ VersionInv

Outcomes ==
    {NoRelay} \cup [relay : STRING, km : Nat, endpoint : [tunnel : Tunnels, port : Ports, protocol : Protocols]]

\* The name of a relay, or what stands for no bridge and for a custom one.
BridgeNames == {"none", "custom"} \cup STRING

Picks ==
    [step : {"idle", "second", "parameters"}, attempt : Nat, from : 0 .. MaxVersion, chosen : Outcomes,
     bridge : BridgeNames, result : {"none", "custom", "ok", "NoRelay", "NoBridge", "NoKey"}]

SelectorTypes ==
    /\ settings \in [kind : {"normal", "custom"}, constraints : Constraints]
    /\ bridge \in [state : {"off", "auto", "on"}, kind : {"normal", "custom"}, location : Seq(STRING)]
    /\ pick \in Picks

\* While a request is worked on it has no bridge and no result yet.
SelectorInv ==
    /\ SelectorTypes
    /\ pick.step # "idle" => pick.bridge = "none" /\ pick.result = "none"
    /\ SelectionFits /\ NoRelayMeansNone /\ BridgeOnlyWhenWanted /\ LocationIsThatOfParameters

-----------------------------------------------------------------------------
(* The list and the address                                                *)

LEMMA ListStarts == ASSUME ListInit PROVE ListInv
<1>1. /\ api \in ApiAddresses /\ addrFile = [addr |-> None, age |-> 0]
      /\ handle = None /\ kept = FALSE /\ torn = FALSE
      BY DEF ListInit, ApiInit
<1>2. /\ server \in 1 .. MaxVersion /\ list = Empty /\ cache = Unreadable
      /\ bundled \in {Unreadable, [ver |-> 1, age |-> 1]}
      /\ phase = "down" /\ updater = "none" /\ got = 0
      BY DEF ListInit
<1>3. ListTypes
      <2>1. Empty \in [ver : 0 .. MaxVersion, age : Ages]
            BY BoundsAssumption DEF Empty, Ages
      <2>2. cache \in [ver : -1 .. MaxVersion, age : Ages] /\ bundled \in [ver : -1 .. MaxVersion, age : Ages]
            BY <1>2, BoundsAssumption DEF Unreadable, Ages
      <2>3. addrFile \in [addr : Addresses \cup TornContents \cup {None}, age : Ages]
            BY <1>1 DEF Ages
      <2>4. got \in 0 .. server
            BY <1>2
      <2>5. kept \in BOOLEAN /\ torn \in BOOLEAN /\ handle \in Addresses \cup {None} /\ list \in [ver : 0 .. MaxVersion, age : Ages]
            BY <1>1, <1>2, <2>1, Zenon
      <2> QED BY <1>1, <1>2, <2>2, <2>3, <2>4, <2>5, Zenon DEF ListTypes
<1>4. AddressInv
      BY <1>1, <1>2 DEF AddressInv, ApiAddressIsSound, KnownAddressSurvives
<1>5. VersionInv
      BY <1>1, <1>2, BoundsAssumption DEF VersionInv, Empty, Unreadable, StartsWithRelays
<1> QED BY <1>3, <1>4, <1>5 DEF ListInv

LEMMA PublishKeeps == ASSUME ListInv, Publish PROVE ListInv'
<1> USE DEF ListInv, Publish
<1>0. UNCHANGED <<list, cache, bundled, phase, updater, got, api, addrFile, handle, kept, torn>>
      BY DEF apiVars
<1>1. ListTypes'
      BY <1>0, BoundsAssumption DEF ListTypes
<1>2. AddressInv'
      BY <1>0 DEF AddressInv, ApiAddressIsSound, KnownAddressSurvives
<1>3. VersionInv'
      BY <1>0 DEF VersionInv, StartsWithRelays, Readable, ListTypes
<1> QED BY <1>1, <1>2, <1>3

LEMMA MoveKeeps == ASSUME ListInv, Move PROVE ListInv'
<1> USE DEF ListInv, Move, ApiMoves
<1>0. /\ UNCHANGED <<server, list, cache, bundled, phase, updater, got, addrFile, handle, kept, torn>>
      /\ api' \in ApiAddresses
      BY DEF listVars
<1>1. ListTypes'
      BY <1>0 DEF ListTypes
<1>2. AddressInv'
      BY <1>0 DEF AddressInv, ApiAddressIsSound, KnownAddressSurvives
<1>3. VersionInv'
      BY <1>0 DEF VersionInv, StartsWithRelays, Readable
<1> QED BY <1>1, <1>2, <1>3

\* Older and Future keep everything but the age.
LEMMA OnlyTheAgeOfLists ==
    ASSUME NEW V, NEW x \in [ver : V, age : Ages]
    PROVE  /\ Older(x) \in [ver : V, age : Ages] /\ Older(x).ver = x.ver
           /\ Future(x) \in [ver : V, age : Ages] /\ Future(x).ver = x.ver
BY DEF Older, Future, Ages

LEMMA OnlyTheAgeOfAddresses ==
    ASSUME NEW A, NEW x \in [addr : A, age : Ages]
    PROVE  /\ Older(x) \in [addr : A, age : Ages] /\ Older(x).addr = x.addr
           /\ Future(x) \in [addr : A, age : Ages] /\ Future(x).addr = x.addr
BY DEF Older, Future, Ages

\* A step that only makes lists and the file older or newer keeps the invariant.
LEMMA AgesKeep ==
    ASSUME ListInv,
           UNCHANGED <<server, phase, updater, got, api, handle, kept, torn>>,
           list' \in [ver : 0 .. MaxVersion, age : Ages] /\ list'.ver = list.ver,
           cache' \in [ver : -1 .. MaxVersion, age : Ages] /\ cache'.ver = cache.ver,
           bundled' \in [ver : -1 .. MaxVersion, age : Ages] /\ bundled'.ver = bundled.ver,
           addrFile' \in [addr : Addresses \cup TornContents \cup {None}, age : Ages] /\ addrFile'.addr = addrFile.addr
    PROVE  ListInv'
<1> USE DEF ListInv
<1>1. ListTypes'
      BY DEF ListTypes
<1>2. AddressInv'
      BY DEF AddressInv, ApiAddressIsSound, KnownAddressSurvives
<1>3. VersionInv'
      BY DEF VersionInv, StartsWithRelays, Readable
<1> QED BY <1>1, <1>2, <1>3

LEMMA TimePassesKeeps == ASSUME ListInv, TimePasses PROVE ListInv'
<1>1. /\ list' = Older(list) /\ cache' = Older(cache) /\ bundled' = Older(bundled) /\ addrFile' = Older(addrFile)
      /\ UNCHANGED <<server, phase, updater, got, api, handle, kept, torn>>
      BY DEF TimePasses
<1>2. /\ list \in [ver : 0 .. MaxVersion, age : Ages]
      /\ cache \in [ver : -1 .. MaxVersion, age : Ages] /\ bundled \in [ver : -1 .. MaxVersion, age : Ages]
      /\ addrFile \in [addr : Addresses \cup TornContents \cup {None}, age : Ages]
      BY DEF ListInv, ListTypes
<1>3. list' \in [ver : 0 .. MaxVersion, age : Ages] /\ list'.ver = list.ver
      BY <1>1, <1>2, OnlyTheAgeOfLists
<1>4. cache' \in [ver : -1 .. MaxVersion, age : Ages] /\ cache'.ver = cache.ver
      BY <1>1, <1>2, OnlyTheAgeOfLists
<1>5. bundled' \in [ver : -1 .. MaxVersion, age : Ages] /\ bundled'.ver = bundled.ver
      BY <1>1, <1>2, OnlyTheAgeOfLists
<1>6. addrFile' \in [addr : Addresses \cup TornContents \cup {None}, age : Ages] /\ addrFile'.addr = addrFile.addr
      BY <1>1, <1>2, OnlyTheAgeOfAddresses
<1> QED BY <1>1, <1>3, <1>4, <1>5, <1>6, AgesKeep

LEMMA ClockSetBackKeeps == ASSUME ListInv, ClockSetBack PROVE ListInv'
<1>1. /\ list' = IF list = Empty THEN Empty ELSE Future(list)
      /\ cache' = Future(cache) /\ bundled' = Future(bundled) /\ addrFile' = Future(addrFile)
      /\ UNCHANGED <<server, phase, updater, got, api, handle, kept, torn>>
      BY DEF ClockSetBack
<1>2. /\ list \in [ver : 0 .. MaxVersion, age : Ages]
      /\ cache \in [ver : -1 .. MaxVersion, age : Ages] /\ bundled \in [ver : -1 .. MaxVersion, age : Ages]
      /\ addrFile \in [addr : Addresses \cup TornContents \cup {None}, age : Ages]
      BY DEF ListInv, ListTypes
<1>3. list' \in [ver : 0 .. MaxVersion, age : Ages] /\ list'.ver = list.ver
      BY <1>1, <1>2, OnlyTheAgeOfLists
<1>4. cache' \in [ver : -1 .. MaxVersion, age : Ages] /\ cache'.ver = cache.ver
      BY <1>1, <1>2, OnlyTheAgeOfLists
<1>5. bundled' \in [ver : -1 .. MaxVersion, age : Ages] /\ bundled'.ver = bundled.ver
      BY <1>1, <1>2, OnlyTheAgeOfLists
<1>6. addrFile' \in [addr : Addresses \cup TornContents \cup {None}, age : Ages] /\ addrFile'.addr = addrFile.addr
      BY <1>1, <1>2, OnlyTheAgeOfAddresses
<1> QED BY <1>1, <1>3, <1>4, <1>5, <1>6, AgesKeep

LEMMA UpgradeKeeps == ASSUME ListInv, Upgrade PROVE ListInv'
<1> USE DEF ListInv
<1>0. /\ UNCHANGED <<server, list, cache, phase, updater, got, api, addrFile, handle, kept, torn>>
      /\ phase = "down" /\ \E v \in 1 .. server : bundled' = [ver |-> v, age |-> 0]
      BY DEF Upgrade, apiVars
<1>1. ListTypes'
      <2>1. bundled' \in [ver : -1 .. MaxVersion, age : Ages]
            <3>1. PICK v \in 1 .. server : bundled' = [ver |-> v, age |-> 0]
                  BY <1>0
            <3>2. v \in -1 .. MaxVersion /\ 0 \in Ages
                  BY BoundsAssumption DEF ListTypes, Ages
            <3> QED BY <3>1, <3>2
      <2> QED BY <1>0, <2>1 DEF ListTypes
<1>2. AddressInv'
      BY <1>0 DEF AddressInv, ApiAddressIsSound, KnownAddressSurvives
<1>3. VersionInv'
      BY <1>0 DEF VersionInv, StartsWithRelays, Readable, ListTypes
<1> QED BY <1>1, <1>2, <1>3

LEMMA KilledKeeps == ASSUME ListInv, Killed PROVE ListInv'
<1> USE DEF ListInv
<1>0. /\ UNCHANGED <<server, cache, bundled, api>>
      /\ phase' = "down" /\ updater' = "none" /\ got' = 0 /\ list' = Empty
      BY DEF Killed, KilledResolving
<1>1. handle' = None
      BY DEF Killed, KilledResolving, AddressInv
<1>2. \/ UNCHANGED <<addrFile, kept, torn>>
      \/ (\E t \in TornContents : addrFile' = [addr |-> t, age |-> 0]) /\ kept' = FALSE /\ torn' = TRUE
      BY DEF Killed, KilledResolving
<1>3. ListTypes'
      <2>1. Empty \in [ver : 0 .. MaxVersion, age : Ages] /\ 0 \in 0 .. server
            BY BoundsAssumption DEF Empty, Ages, ListTypes
      <2>2. addrFile' \in [addr : Addresses \cup TornContents \cup {None}, age : Ages]
            <3>1. 0 \in Ages
                  BY DEF Ages
            <3> QED BY <1>2, <3>1 DEF ListTypes
      <2>3. kept' \in BOOLEAN /\ torn' \in BOOLEAN
            BY <1>2, Zenon DEF ListTypes
      <2> QED BY <1>0, <1>1, <2>1, <2>2, <2>3 DEF ListTypes
<1>4. AddressInv'
      BY <1>0, <1>1, <1>2 DEF AddressInv, ApiAddressIsSound, KnownAddressSurvives
<1>5. VersionInv'
      BY <1>0 DEF VersionInv, StartsWithRelays, ListTypes, Empty
<1> QED BY <1>3, <1>4, <1>5

LEMMA StartKeeps == ASSUME ListInv, Start PROVE ListInv'
<1> USE DEF ListInv
<1>0. /\ UNCHANGED <<server, list, cache, bundled, updater, got, api, addrFile, handle, kept, torn>>
      /\ phase = "down" /\ phase' = "resolving"
      BY DEF Start, apiVars
<1>1. ListTypes'
      BY <1>0 DEF ListTypes
<1>2. AddressInv'
      BY <1>0 DEF AddressInv, ApiAddressIsSound, KnownAddressSurvives
<1>3. VersionInv'
      BY <1>0 DEF VersionInv, StartsWithRelays
<1> QED BY <1>1, <1>2, <1>3

\* The cached address: what the file holds if that is an address.
LEMMA CachedAddress ==
    ASSUME ListInv
    PROVE  LET cached == load_initial_cached_address
           IN  /\ cached.addr \in Addresses
               /\ ~torn => cached.addr \in ApiAddresses \cup {Fallback, None}
               /\ kept => cached.addr \in ApiAddresses
<1>1. CASE addrFile.addr \in Addresses
      BY <1>1 DEF load_initial_cached_address, ListInv, AddressInv
<1>2. CASE addrFile.addr \notin Addresses
      BY <1>2 DEF load_initial_cached_address, ListInv, AddressInv, Addresses
<1> QED BY <1>1, <1>2

LEMMA MakeHandleKeeps == ASSUME ListInv, MakeHandle PROVE ListInv'
<1> USE DEF ListInv
<1> DEFINE cached == load_initial_cached_address
<1>0. UNCHANGED <<server, list, cache, bundled, updater, got, api>> /\ phase = "resolving" /\ phase' = "loading"
      BY DEF MakeHandle, Resolve
<1>1. \/ handle' = cached.addr /\ UNCHANGED <<addrFile, kept, torn>>
      \/ handle' = api /\ update_cache_file(api)
      BY DEF MakeHandle, Resolve, is_bogus_address
<1>2. cached.addr \in Addresses /\ (~torn => cached.addr \in ApiAddresses \cup {Fallback, None}) /\ (kept => cached.addr \in ApiAddresses)
      BY CachedAddress
<1> HIDE DEF cached
<1>3. api \in ApiAddresses /\ api \in Addresses
      BY DEF ListTypes, Addresses
<1>4. ListTypes'
      <2>0. 0 \in Ages
            BY DEF Ages
      <2>1. addrFile' \in [addr : Addresses \cup TornContents \cup {None}, age : Ages]
            BY <1>1, <1>3, <2>0 DEF ListTypes, update_cache_file
      <2>2. kept' \in BOOLEAN /\ torn' \in BOOLEAN
            BY <1>1, Zenon DEF ListTypes, update_cache_file
      <2>3. handle' \in Addresses \cup {None}
            BY <1>1, <1>2, <1>3
      <2> QED BY <1>0, <2>1, <2>2, <2>3 DEF ListTypes
<1>5. AddressInv'
      BY <1>0, <1>1, <1>2, <1>3 DEF AddressInv, ApiAddressIsSound, KnownAddressSurvives, update_cache_file, ListTypes
<1>6. VersionInv'
      BY <1>0 DEF VersionInv, StartsWithRelays
<1> QED BY <1>4, <1>5, <1>6

LEMMA NewRelaySelectorKeeps == ASSUME ListInv, NewRelaySelector PROVE ListInv'
<1> USE DEF ListInv
<1>0. /\ UNCHANGED <<server, cache, bundled, got, api, addrFile, handle, kept, torn>>
      /\ phase = "loading" /\ phase' = "up" /\ updater' = "waiting"
      /\ list' = IF Readable(read_relays_from_disk) THEN read_relays_from_disk ELSE Empty
      BY DEF NewRelaySelector, apiVars
<1>1. /\ read_relays_from_disk \in {cache, bundled}
      /\ Readable(bundled) => Readable(read_relays_from_disk)
      BY DEF read_relays_from_disk
<1>2. list' \in [ver : 0 .. MaxVersion, age : Ages] /\ list'.ver <= server /\ (Readable(bundled) => list'.ver > 0)
      <2>1. CASE Readable(read_relays_from_disk)
            BY <1>0, <1>1, <2>1 DEF ListTypes, VersionInv, Readable
      <2>2. CASE ~Readable(read_relays_from_disk)
            BY <1>0, <1>1, <2>2, BoundsAssumption DEF ListTypes, Empty, Ages
      <2> QED BY <2>1, <2>2
<1>3. ListTypes'
      BY <1>0, <1>2 DEF ListTypes
<1>4. AddressInv'
      BY <1>0 DEF AddressInv, ApiAddressIsSound, KnownAddressSurvives
<1>5. VersionInv'
      BY <1>0, <1>2 DEF VersionInv, StartsWithRelays, Readable
<1> QED BY <1>3, <1>4, <1>5

LEMMA DropSelectorKeeps == ASSUME ListInv, DropSelector PROVE ListInv'
<1> USE DEF ListInv
<1>0. /\ UNCHANGED <<server, list, cache, bundled, updater, got, api, addrFile, handle, kept, torn>>
      /\ phase = "up" /\ phase' = "dropped"
      BY DEF DropSelector, apiVars
<1>1. ListTypes'
      BY <1>0 DEF ListTypes
<1>2. AddressInv'
      BY <1>0 DEF AddressInv, ApiAddressIsSound, KnownAddressSurvives
<1>3. VersionInv'
      BY <1>0 DEF VersionInv, StartsWithRelays
<1> QED BY <1>1, <1>2, <1>3

LEMMA WakesKeeps == ASSUME ListInv, Wakes PROVE ListInv'
<1> USE DEF ListInv
<1>0. /\ UNCHANGED <<server, list, cache, bundled, phase, got, api, addrFile, handle, kept, torn>>
      /\ updater = "waiting" /\ updater' \in {"downloading", "none"}
      BY DEF Wakes, UpdaterUnchanged, apiVars
<1>1. ListTypes'
      BY <1>0 DEF ListTypes
<1>2. AddressInv'
      BY <1>0 DEF AddressInv, ApiAddressIsSound, KnownAddressSurvives
<1>3. VersionInv'
      BY <1>0 DEF VersionInv, StartsWithRelays
<1> QED BY <1>1, <1>2, <1>3

LEMMA DownloadsKeeps == ASSUME ListInv, Downloads PROVE ListInv'
<1> USE DEF ListInv
<1>0. /\ UNCHANGED <<server, list, cache, bundled, phase, api, addrFile, handle, kept, torn>>
      /\ updater = "downloading"
      /\ (updater' = "creating" /\ got' = server) \/ (updater' = "waiting" /\ got' = got)
      BY DEF Downloads, UpdaterUnchanged, apiVars
<1>1. ListTypes'
      <2>1. got' \in 0 .. server'
            BY <1>0 DEF ListTypes
      <2> QED BY <1>0, <2>1 DEF ListTypes
<1>2. AddressInv'
      BY <1>0 DEF AddressInv, ApiAddressIsSound, KnownAddressSurvives
<1>3. VersionInv'
      BY <1>0 DEF VersionInv, StartsWithRelays, ListTypes
<1> QED BY <1>1, <1>2, <1>3

LEMMA CreatesCacheKeeps == ASSUME ListInv, CreatesCache PROVE ListInv'
<1> USE DEF ListInv
<1>0. /\ UNCHANGED <<server, list, bundled, phase, got, api, addrFile, handle, kept, torn>>
      /\ updater = "creating" /\ updater' \in {"writing", "installing"} /\ cache' \in {cache, Unreadable}
      BY DEF CreatesCache, UpdaterUnchanged, apiVars
<1>1. ListTypes'
      <2>1. Unreadable \in [ver : -1 .. MaxVersion, age : Ages]
            BY BoundsAssumption DEF Unreadable, Ages
      <2>2. cache' \in [ver : -1 .. MaxVersion, age : Ages]
            BY <1>0, <2>1 DEF ListTypes
      <2> QED BY <1>0, <2>2 DEF ListTypes
<1>2. AddressInv'
      BY <1>0 DEF AddressInv, ApiAddressIsSound, KnownAddressSurvives
<1>3. VersionInv'
      BY <1>0 DEF VersionInv, StartsWithRelays, ListTypes, Unreadable
<1> QED BY <1>1, <1>2, <1>3

LEMMA WritesCacheKeeps == ASSUME ListInv, WritesCache PROVE ListInv'
<1> USE DEF ListInv
<1>0. /\ UNCHANGED <<server, list, bundled, phase, got, api, addrFile, handle, kept, torn>>
      /\ updater = "writing" /\ updater' = "installing" /\ cache' \in {cache, [ver |-> got, age |-> 0]}
      BY DEF WritesCache, UpdaterUnchanged, apiVars
<1>1. ListTypes'
      <2>1. got \in -1 .. MaxVersion /\ 0 \in Ages
            BY BoundsAssumption DEF ListTypes, Ages
      <2>2. cache' \in [ver : -1 .. MaxVersion, age : Ages]
            BY <1>0, <2>1 DEF ListTypes
      <2> QED BY <1>0, <2>2 DEF ListTypes
<1>2. AddressInv'
      BY <1>0 DEF AddressInv, ApiAddressIsSound, KnownAddressSurvives
<1>3. VersionInv'
      BY <1>0 DEF VersionInv, StartsWithRelays, ListTypes
<1> QED BY <1>1, <1>2, <1>3

LEMMA InstallsKeeps == ASSUME ListInv, Installs PROVE ListInv' /\ list'.ver >= list.ver
<1> USE DEF ListInv
<1>0. /\ UNCHANGED <<server, cache, bundled, phase, api, addrFile, handle, kept, torn>>
      /\ updater = "installing" /\ updater' = "waiting" /\ list' = [ver |-> got, age |-> 0] /\ got' = 0
      BY DEF Installs, UpdaterUnchanged, apiVars
<1>1. ListTypes'
      <2>1. got \in 0 .. MaxVersion /\ 0 \in Ages /\ 0 \in 0 .. server
            BY BoundsAssumption DEF ListTypes, Ages
      <2>2. list' \in [ver : 0 .. MaxVersion, age : Ages]
            BY <1>0, <2>1
      <2> QED BY <1>0, <2>1, <2>2 DEF ListTypes
<1>2. AddressInv'
      BY <1>0 DEF AddressInv, ApiAddressIsSound, KnownAddressSurvives
<1>3. VersionInv' /\ list'.ver >= list.ver
      BY <1>0 DEF VersionInv, StartsWithRelays, ListTypes
<1> QED BY <1>1, <1>2, <1>3

\* Without a step of the list and the address nothing about them changes.
LEMMA ListStutters == ASSUME ListInv, UNCHANGED <<listVars, apiVars>> PROVE ListInv'
<1>0. UNCHANGED <<server, list, cache, bundled, phase, updater, got, api, addrFile, handle, kept, torn>>
      BY DEF listVars, apiVars
<1> QED BY <1>0 DEF ListInv, ListTypes, AddressInv, ApiAddressIsSound, KnownAddressSurvives,
                    VersionInv, StartsWithRelays, Readable

\* The steps of the selector leave the list and the address alone.
LEMMA SelectorLeavesList ==
    ASSUME UserStep \/ SelectorStep PROVE UNCHANGED <<listVars, apiVars>>
BY DEF UserStep, SelectorStep, OnUpdateRelaySettings, OnSetBridgeSettings, OnSetBridgeState, SettingsChange,
       GenerateTunnelParameters, SecondLookup, CreateTunnelParameters

LEMMA ListInvKept == ASSUME ListInv, [Next]_vars PROVE ListInv'
<1>1. CASE WorldStep
      BY <1>1, PublishKeeps, MoveKeeps, TimePassesKeeps, ClockSetBackKeeps, UpgradeKeeps DEF WorldStep
<1>2. CASE Killed
      BY <1>2, KilledKeeps
<1>3. CASE StartStep
      BY <1>3, StartKeeps, MakeHandleKeeps, NewRelaySelectorKeeps, DropSelectorKeeps DEF StartStep
<1>4. CASE UpdaterStep
      BY <1>4, WakesKeeps, DownloadsKeeps, CreatesCacheKeeps, WritesCacheKeeps, InstallsKeeps DEF UpdaterStep
<1>5. CASE UserStep \/ SelectorStep
      BY <1>5, SelectorLeavesList, ListStutters
<1>6. CASE UNCHANGED vars
      BY <1>6, ListStutters DEF vars
<1> QED BY <1>1, <1>2, <1>3, <1>4, <1>5, <1>6 DEF Next

\* While the daemon is up, a step leaves the list or installs one as new.
LEMMA ListIsKeptOrNewer ==
    ASSUME ListInv, [Next]_vars, phase = "up", phase' = "up"
    PROVE  list'.ver >= list.ver
<1>0. list.ver \in Int /\ list \in [ver : 0 .. MaxVersion, age : Ages]
      BY DEF ListInv, ListTypes
<1>1. list' = list => list'.ver >= list.ver
      BY <1>0
<1>2. CASE TimePasses
      <2>1. list'.ver = list.ver
            BY <1>0, <1>2, OnlyTheAgeOfLists DEF TimePasses
      <2> QED BY <1>0, <2>1
<1>3. CASE ClockSetBack
      <2>1. list'.ver = list.ver
            BY <1>0, <1>3, OnlyTheAgeOfLists DEF ClockSetBack
      <2> QED BY <1>0, <2>1
<1>4. CASE Publish \/ Move \/ Upgrade
      BY <1>1, <1>4 DEF Publish, Move, Upgrade, listVars
<1>5. CASE Killed \/ StartStep
      BY <1>5 DEF Killed, StartStep, Start, MakeHandle, NewRelaySelector, DropSelector
<1>6. CASE Installs
      BY <1>6, InstallsKeeps
<1>7. CASE Wakes \/ Downloads \/ CreatesCache \/ WritesCache
      BY <1>1, <1>7 DEF Wakes, Downloads, CreatesCache, WritesCache
<1>8. CASE UserStep \/ SelectorStep \/ UNCHANGED vars
      BY <1>1, <1>8, SelectorLeavesList DEF vars, listVars
<1> QED BY <1>2, <1>3, <1>4, <1>5, <1>6, <1>7, <1>8 DEF Next, WorldStep, UpdaterStep

-----------------------------------------------------------------------------
(* The selector                                                            *)

\* The two properties of a choice, in terms of what the lookup returned.
LEMMA ChoiceIs ==
    /\ SelectionFits <=>
          (pick.step = "parameters" \/ pick.result = "ok" =>
              Allowed(RelaysOf(pick.from), pick.chosen, settings.constraints))
    /\ NoRelayMeansNone <=>
          (pick.result = "NoRelay" /\ settings.constraints.tunnel_protocol # Tunnels =>
              NoneUsable(RelaysOf(pick.from), settings.constraints))
<1>1. SelectionFits <=>
          (pick.step = "parameters" \/ pick.result = "ok" =>
              Allowed(RelaysOf(pick.from), pick.chosen, settings.constraints))
      BY Zenon DEF SelectionFits, Allowed
<1>2. NoRelayMeansNone <=>
          (pick.result = "NoRelay" /\ settings.constraints.tunnel_protocol # Tunnels =>
              NoneUsable(RelaysOf(pick.from), settings.constraints))
      BY Zenon DEF NoRelayMeansNone, NoneUsable
<1> QED BY <1>1, <1>2

LEMMA ChoiceIsNext ==
    /\ SelectionFits' <=>
          (pick'.step = "parameters" \/ pick'.result = "ok" =>
              Allowed(RelaysOf(pick'.from), pick'.chosen, settings'.constraints))
    /\ NoRelayMeansNone' <=>
          (pick'.result = "NoRelay" /\ settings'.constraints.tunnel_protocol # Tunnels =>
              NoneUsable(RelaysOf(pick'.from), settings'.constraints))
<1>1. SelectionFits' <=>
          (pick'.step = "parameters" \/ pick'.result = "ok" =>
              Allowed(RelaysOf(pick'.from), pick'.chosen, settings'.constraints))
      BY Zenon DEF SelectionFits, Allowed, RelaysOf
<1>2. NoRelayMeansNone' <=>
          (pick'.result = "NoRelay" /\ settings'.constraints.tunnel_protocol # Tunnels =>
              NoneUsable(RelaysOf(pick'.from), settings'.constraints))
      BY Zenon DEF NoRelayMeansNone, NoneUsable, RelaysOf
<1> QED BY <1>1, <1>2

LEMMA NoPickIsOne == NoPick \in Picks
<1>1. 0 \in 0 .. MaxVersion
      BY BoundsAssumption
<1>2. NoRelay \in Outcomes
      BY Zenon DEF Outcomes
<1>3. "none" \in BridgeNames
      BY DEF BridgeNames
<1>4. ASSUME NEW o \in Outcomes, NEW s \in BridgeNames
      PROVE  [step |-> "idle", attempt |-> 0, from |-> 0, chosen |-> o, bridge |-> s, result |-> "none"] \in Picks
      BY <1>1 DEF Picks
<1>5. [step |-> "idle", attempt |-> 0, from |-> 0, chosen |-> NoRelay, bridge |-> "none", result |-> "none"] \in Picks
      BY <1>2, <1>3, <1>4, Zenon
<1> QED BY <1>5, Zenon DEF NoPick

\* Without a request and a result there is nothing to show.
LEMMA NothingPickedNext ==
    ASSUME settings' \in [kind : {"normal", "custom"}, constraints : Constraints],
           bridge' \in [state : {"off", "auto", "on"}, kind : {"normal", "custom"}, location : Seq(STRING)],
           pick' = NoPick
    PROVE  SelectorInv'
<1>1. SelectorTypes'
      BY NoPickIsOne DEF SelectorTypes
<1>2. pick'.step = "idle" /\ pick'.bridge = "none" /\ pick'.result = "none"
      BY DEF NoPick
<1>3. SelectionFits' /\ NoRelayMeansNone'
      BY <1>2, ChoiceIsNext
<1>4. BridgeOnlyWhenWanted' /\ LocationIsThatOfParameters'
      BY <1>2 DEF BridgeOnlyWhenWanted, LocationIsThatOfParameters
<1> QED BY <1>1, <1>2, <1>3, <1>4 DEF SelectorInv

\* RelayConstraints::default
LEMMA DefaultIsOne == DefaultConstraints \in Constraints
BY DEF DefaultConstraints, Constraints, AnyOpenVpn

\* RelayConstraints::merge, of an update with values of the right types.
LEMMA MergeIsOne ==
    ASSUME NEW c \in Constraints, NEW u, DOMAIN u \subseteq DOMAIN ConstraintValues,
           \A f \in DOMAIN u : u[f] \in ConstraintValues[f]
    PROVE  merge(c, u) \in Constraints
<1> DEFINE New(f) == IF f \in DOMAIN u THEN u[f] ELSE c[f]
<1>1. merge(c, u) = [location  |-> New("location"),  tunnel_protocol |-> New("tunnel_protocol"),
                     wireguard |-> New("wireguard"), openvpn         |-> New("openvpn")]
      BY Zenon DEF merge
<1>2. /\ ConstraintValues["location"] = Seq(STRING)
      /\ ConstraintValues["tunnel_protocol"] = {Tunnels, {"openvpn"}, {"wireguard"}}
      /\ ConstraintValues["wireguard"] = SUBSET Ports
      /\ ConstraintValues["openvpn"] = [port : SUBSET Ports, protocol : SUBSET Protocols]
      BY DEF ConstraintValues
<1>3. /\ c["location"] \in Seq(STRING) /\ c["tunnel_protocol"] \in {Tunnels, {"openvpn"}, {"wireguard"}}
      /\ c["wireguard"] \in SUBSET Ports /\ c["openvpn"] \in [port : SUBSET Ports, protocol : SUBSET Protocols]
      BY DEF Constraints
<1>4. /\ New("location") \in Seq(STRING) /\ New("tunnel_protocol") \in {Tunnels, {"openvpn"}, {"wireguard"}}
      /\ New("wireguard") \in SUBSET Ports /\ New("openvpn") \in [port : SUBSET Ports, protocol : SUBSET Protocols]
      BY <1>2, <1>3
<1> HIDE DEF New
<1> QED BY <1>1, <1>4 DEF Constraints

\* apply_proxy_constraints
LEMMA ProxyIsOne ==
    ASSUME NEW c \in Constraints
    PROVE  merge(c, ProxyConstraints) \in Constraints
<1>1. DOMAIN ProxyConstraints = {"tunnel_protocol", "openvpn"}
      BY DEF ProxyConstraints
<1>2. DOMAIN ConstraintValues = {"location", "tunnel_protocol", "wireguard", "openvpn"}
      BY DEF ConstraintValues
<1>3. /\ ProxyConstraints["tunnel_protocol"] \in ConstraintValues["tunnel_protocol"]
      /\ ProxyConstraints["openvpn"] \in ConstraintValues["openvpn"]
      BY DEF ProxyConstraints, ConstraintValues, Protocols
<1> QED BY <1>1, <1>2, <1>3, MergeIsOne

LEMMA SelectorStarts == ASSUME SelectorInit PROVE SelectorInv
<1>1. /\ settings = [kind |-> "normal", constraints |-> DefaultConstraints]
      /\ bridge = [state |-> "auto", kind |-> "normal", location |-> <<>>] /\ pick = NoPick
      BY DEF SelectorInit
<1>2. SelectorTypes
      BY <1>1, NoPickIsOne, DefaultIsOne DEF SelectorTypes
<1>3. pick.step = "idle" /\ pick.bridge = "none" /\ pick.result = "none"
      BY <1>1 DEF NoPick
<1>4. SelectionFits /\ NoRelayMeansNone
      BY <1>3, ChoiceIs
<1>5. BridgeOnlyWhenWanted /\ LocationIsThatOfParameters
      BY <1>3 DEF BridgeOnlyWhenWanted, LocationIsThatOfParameters
<1> QED BY <1>2, <1>3, <1>4, <1>5 DEF SelectorInv

LEMMA SelectorStutters == ASSUME SelectorInv, UNCHANGED selectorVars PROVE SelectorInv'
<1>0. UNCHANGED <<settings, bridge, pick, last_generated_relay, last_generated_bridge_relay>>
      BY DEF selectorVars
<1>1. SelectionFits' /\ NoRelayMeansNone'
      BY <1>0, ChoiceIs, ChoiceIsNext DEF SelectorInv
<1> QED BY <1>0, <1>1 DEF SelectorInv, SelectorTypes, BridgeOnlyWhenWanted, LocationIsThatOfParameters,
                          build_location_from_relay

LEMMA ForgetsKeeps == ASSUME SelectorInv, Forgets PROVE SelectorInv'
BY NothingPickedNext DEF Forgets, SelectorInv, SelectorTypes

LEMMA UserKeeps == ASSUME SelectorInv, UserStep PROVE SelectorInv'
<1>0. /\ settings \in [kind : {"normal", "custom"}, constraints : Constraints]
      /\ bridge \in [state : {"off", "auto", "on"}, kind : {"normal", "custom"}, location : Seq(STRING)]
      /\ settings.constraints \in Constraints
      BY DEF SelectorInv, SelectorTypes
<1>1. CASE OnUpdateRelaySettings
      <2>1. bridge' = bridge /\ pick' = NoPick
            BY <1>1 DEF OnUpdateRelaySettings, SettingsChange
      <2>2. \A u \in Updates : merge(settings.constraints, u) \in Constraints
            BY <1>0, RequestsAssumption, MergeIsOne
      <2>3. settings' \in [kind : {"normal", "custom"}, constraints : Constraints]
            BY <1>1, <2>2, DefaultIsOne DEF OnUpdateRelaySettings
      <2> QED BY <1>0, <2>1, <2>3, NothingPickedNext
<1>2. CASE OnSetBridgeSettings
      <2>1. settings' = settings /\ pick' = NoPick
            BY <1>2 DEF OnSetBridgeSettings, SettingsChange
      <2>2. bridge' \in [state : {"off", "auto", "on"}, kind : {"normal", "custom"}, location : Seq(STRING)]
            <3>1. PICK b \in BridgeSettings : bridge' = [state |-> bridge.state, kind |-> b.kind, location |-> b.location]
                  BY <1>2 DEF OnSetBridgeSettings
            <3>2. b \in [kind : {"normal", "custom"}, location : Seq(STRING)]
                  BY RequestsAssumption
            <3> QED BY <1>0, <3>1, <3>2
      <2> QED BY <1>0, <2>1, <2>2, NothingPickedNext
<1>3. CASE OnSetBridgeState
      <2>1. pick' = NoPick
            BY <1>3 DEF OnSetBridgeState, SettingsChange
      <2>2. bridge' \in [state : {"off", "auto", "on"}, kind : {"normal", "custom"}, location : Seq(STRING)]
            BY <1>0, <1>3 DEF OnSetBridgeState
      <2>3. settings' \in [kind : {"normal", "custom"}, constraints : Constraints]
            BY <1>0, <1>3, ProxyIsOne DEF OnSetBridgeState
      <2> QED BY <2>1, <2>2, <2>3, NothingPickedNext
<1> QED BY <1>1, <1>2, <1>3 DEF UserStep

\* Every lookup returns an outcome.
LEMMA OutcomeIsOne ==
    ASSUME NEW relays, SoundList(relays), NEW c \in Constraints, NEW o \in get_tunnel_endpoint_internal(relays, c)
    PROVE  o \in Outcomes
<1>1. CASE o = NoRelay
      BY <1>1, Zenon DEF Outcomes
<1>2. CASE o # NoRelay
      BY <1>2, EndpointIsAllowed, Zenon DEF Outcomes
<1> QED BY <1>1, <1>2

LEMMA GenerateKeeps ==
    ASSUME ListInv, SelectorInv, GenerateTunnelParameters PROVE SelectorInv'
<1>0. /\ settings' = settings /\ bridge' = bridge /\ settings.constraints \in Constraints
      /\ last_generated_bridge_relay' = last_generated_bridge_relay
      BY DEF GenerateTunnelParameters, SelectorInv, SelectorTypes
<1>1. PICK attempt \in Attempts :
          IF settings.kind = "custom"
          THEN /\ last_generated_relay' = "none"
               /\ pick' = [NoPick EXCEPT !.attempt = attempt, !.result = "custom"]
          ELSE \E o \in get_tunnel_endpoint_internal(RelaysOf(list.ver),
                                  preferred_constraints(settings.constraints, attempt)) :
                  pick' = [NoPick EXCEPT !.attempt = attempt, !.from = list.ver, !.chosen = o,
                                         !.step = IF o = NoRelay THEN "second" ELSE "parameters"]
      BY DEF GenerateTunnelParameters
<1>2. attempt \in Nat /\ list.ver \in 0 .. MaxVersion
      BY RequestsAssumption DEF ListInv, ListTypes
<1>3. CASE settings.kind = "custom"
      <2>1. pick' = [NoPick EXCEPT !.attempt = attempt, !.result = "custom"] /\ last_generated_relay' = "none"
            BY <1>1, <1>3
      <2>2. pick' \in Picks
            <3> HIDE DEF NoPick
            <3> QED BY <1>2, <2>1, NoPickIsOne DEF Picks
      <2>3. pick'.step = "idle" /\ pick'.bridge = "none" /\ pick'.result = "custom"
            BY <2>1 DEF NoPick
      <2>4. SelectorTypes'
            BY <1>0, <2>2 DEF SelectorTypes, SelectorInv
      <2>5. SelectionFits' /\ NoRelayMeansNone'
            BY <2>3, ChoiceIsNext
      <2>6. BridgeOnlyWhenWanted'
            BY <2>3 DEF BridgeOnlyWhenWanted
      <2>7. LocationIsThatOfParameters'
            BY <2>1, <2>3 DEF LocationIsThatOfParameters, build_location_from_relay
      <2> QED BY <2>3, <2>4, <2>5, <2>6, <2>7 DEF SelectorInv
<1>4. CASE settings.kind # "custom"
      <2> DEFINE f == preferred_constraints(settings.constraints, attempt)
                 relays == RelaysOf(list.ver)
      <2>1. PICK o \in get_tunnel_endpoint_internal(relays, f) :
                pick' = [NoPick EXCEPT !.attempt = attempt, !.from = list.ver, !.chosen = o,
                                       !.step = IF o = NoRelay THEN "second" ELSE "parameters"]
            BY <1>1, <1>4
      <2>2. f \in Constraints /\ SoundList(relays)
            BY <1>0, <1>2, PreferredNarrows, ListIsSound
      <2>3. o \in Outcomes
            <3> HIDE DEF f, relays
            <3> QED BY <2>2, OutcomeIsOne
      <2>4. o # NoRelay => Allowed(relays, o, settings.constraints)
            BY <1>0, <1>2, <2>2, PreferredIsAllowed
      <2> HIDE DEF f, relays
      <2>5. pick' \in Picks
            <3> HIDE DEF NoPick, NoRelay
            <3> QED BY <1>2, <2>1, <2>3, NoPickIsOne DEF Picks
      <2>6. /\ pick'.bridge = "none" /\ pick'.result = "none" /\ pick'.from = list.ver /\ pick'.chosen = o
            /\ pick'.step = IF o = NoRelay THEN "second" ELSE "parameters"
            BY <2>1 DEF NoPick
      <2>7. SelectorTypes'
            BY <1>0, <2>5 DEF SelectorTypes, SelectorInv
      <2>8. SelectionFits' /\ NoRelayMeansNone'
            BY <1>0, <2>4, <2>6, ChoiceIsNext DEF relays
      <2>9. BridgeOnlyWhenWanted' /\ LocationIsThatOfParameters'
            BY <2>6 DEF BridgeOnlyWhenWanted, LocationIsThatOfParameters
      <2> QED BY <2>6, <2>7, <2>8, <2>9 DEF SelectorInv
<1> QED BY <1>3, <1>4

LEMMA SecondLookupKeeps ==
    ASSUME ListInv, SelectorInv, SecondLookup PROVE SelectorInv'
<1>0. /\ settings' = settings /\ bridge' = bridge /\ settings.constraints \in Constraints
      /\ pick \in Picks /\ pick.step = "second" /\ pick.bridge = "none" /\ list.ver \in 0 .. MaxVersion
      BY DEF SecondLookup, SelectorInv, SelectorTypes, ListInv, ListTypes
<1> DEFINE relays == RelaysOf(list.ver)
<1>1. PICK o \in get_tunnel_endpoint_internal(relays, settings.constraints) :
          pick' = [pick EXCEPT !.from = list.ver, !.chosen = o,
                               !.step = IF o = NoRelay THEN "idle" ELSE "parameters",
                               !.result = IF o = NoRelay THEN "NoRelay" ELSE "none"]
      BY DEF SecondLookup
<1>2. SoundList(relays)
      BY <1>0, ListIsSound
<1> HIDE DEF relays
<1>3. o \in Outcomes /\ (o # NoRelay => Allowed(relays, o, settings.constraints))
      BY <1>0, <1>2, OutcomeIsOne, EndpointIsAllowed
<1>4. o = NoRelay /\ settings.constraints.tunnel_protocol # Tunnels => NoneUsable(relays, settings.constraints)
      BY <1>0, <1>1, <1>2, NoRelayIsRight
<1>5. pick' \in Picks
      <2> HIDE DEF NoRelay
      <2> QED BY <1>0, <1>1, <1>3 DEF Picks
<1>6. /\ pick'.bridge = "none" /\ pick'.from = list.ver /\ pick'.chosen = o
      /\ pick'.step = IF o = NoRelay THEN "idle" ELSE "parameters"
      /\ pick'.result = IF o = NoRelay THEN "NoRelay" ELSE "none"
      BY <1>0, <1>1 DEF Picks
<1>7. SelectorTypes'
      BY <1>0, <1>5 DEF SelectorTypes, SelectorInv
<1>8. SelectionFits' /\ NoRelayMeansNone'
      BY <1>0, <1>3, <1>4, <1>6, ChoiceIsNext DEF relays
<1>9. BridgeOnlyWhenWanted' /\ LocationIsThatOfParameters'
      BY <1>6 DEF BridgeOnlyWhenWanted, LocationIsThatOfParameters
<1> QED BY <1>6, <1>7, <1>8, <1>9 DEF SelectorInv

\* What an allowed endpoint is: one of a relay with a name, by a tunnel there is, and by a
\* transport protocol there is if the tunnel is OpenVPN's.
LEMMA AllowedIs ==
    ASSUME NEW relays, SoundList(relays), NEW c \in Constraints, NEW o, Allowed(relays, o, c)
    PROVE  /\ o.relay \notin {"none", "custom"} /\ o.endpoint.tunnel \in Tunnels
           /\ o.endpoint.tunnel = "openvpn" => o.endpoint.protocol \in Protocols
<1>1. PICK i \in DOMAIN relays :
          /\ relays[i].name = o.relay /\ o.endpoint.tunnel \in c.tunnel_protocol
          /\ o.endpoint.tunnel = "openvpn" =>
                [port |-> o.endpoint.port, protocol |-> o.endpoint.protocol] \in relays[i].openvpn
      BY DEF Allowed
<1>2. relays[i] \in Relay /\ relays[i].name \notin {"none", "custom"}
      BY DEF SoundList
<1>3. o.endpoint.tunnel \in Tunnels
      BY <1>1 DEF Constraints, Tunnels
<1>4. o.endpoint.tunnel = "openvpn" => o.endpoint.protocol \in Protocols
      BY <1>1, <1>2 DEF Relay
<1> QED BY <1>1, <1>2, <1>3, <1>4

\* A bridge that is found has the name of a relay.
LEMMA BridgeIsRelay ==
    ASSUME NEW relays, SoundList(relays), NEW location, NEW protocol, NEW km,
           NEW b \in get_proxy_settings(relays, location, protocol, km)
    PROVE  b \notin {"none", "custom"} /\ b \in BridgeNames
<1>1. PICK i \in DOMAIN relays : b = relays[i].name
      BY DEF get_proxy_settings, MatchingBridges
<1>2. relays[i] \in Relay /\ relays[i].name \notin {"none", "custom"}
      BY DEF SoundList
<1> QED BY <1>1, <1>2 DEF Relay, BridgeNames

\* create_tunnel_parameters ends the request with a bridge and a result that go together.
LEMMA ParametersEnd ==
    ASSUME ListInv, SelectorInv, CreateTunnelParameters
    PROVE  \E b \in BridgeNames, result \in {"ok", "NoKey", "NoBridge"} :
              /\ pick' = [pick EXCEPT !.step = "idle", !.bridge = b, !.result = result]
              /\ last_generated_bridge_relay' = IF b = "custom" THEN "none" ELSE b
              /\ b # "none" =>
                    /\ pick.chosen.endpoint.tunnel # "wireguard" /\ bridge.state # "off"
                    /\ bridge.state = "auto" => should_use_bridge(pick.attempt)
                    /\ bridge.state = "auto" /\ bridge.kind = "normal" => pick.chosen.endpoint.protocol # "udp"
              /\ result = "ok" /\ pick.chosen.endpoint.tunnel # "wireguard" /\ bridge.state = "on" => b # "none"
<1> DEFINE km     == pick.chosen.km
           proto  == pick.chosen.endpoint.protocol
           relays == RelaysOf(list.ver)
           found  == IF bridge.state = "on"
                     THEN get_proxy_settings(relays, bridge.location, proto, km)
                     ELSE get_auto_proxy_settings(relays, bridge.location, proto, km, pick.attempt)
           Done(b, result) == /\ pick' = [pick EXCEPT !.step = "idle", !.bridge = b, !.result = result]
                              /\ last_generated_bridge_relay' = IF b = "custom" THEN "none" ELSE b
           Goal(b, result) ==
              /\ Done(b, result)
              /\ b # "none" =>
                    /\ pick.chosen.endpoint.tunnel # "wireguard" /\ bridge.state # "off"
                    /\ bridge.state = "auto" => should_use_bridge(pick.attempt)
                    /\ bridge.state = "auto" /\ bridge.kind = "normal" => pick.chosen.endpoint.protocol # "udp"
              /\ result = "ok" /\ pick.chosen.endpoint.tunnel # "wireguard" /\ bridge.state = "on" => b # "none"
<1>1. IF pick.chosen.endpoint.tunnel = "wireguard"
      THEN \E result \in {"ok", "NoKey"} : Done("none", result)
      ELSE CASE bridge.state = "off" -> Done("none", "ok")
             [] bridge.state # "off" /\ bridge.kind = "custom" ->
                   Done(IF bridge.state = "on" \/ should_use_bridge(pick.attempt) THEN "custom" ELSE "none", "ok")
             [] bridge.state # "off" /\ bridge.kind = "normal" ->
                   IF found = {} THEN Done("none", IF bridge.state = "on" THEN "NoBridge" ELSE "ok")
                   ELSE \E b \in found : Done(b, "ok")
      BY Zenon DEF CreateTunnelParameters, RememberedBridge
<1>2. bridge.kind \in {"normal", "custom"} /\ list.ver \in 0 .. MaxVersion
      BY DEF SelectorInv, SelectorTypes, ListInv, ListTypes
<1>3. \A b \in found :
          /\ b \notin {"none", "custom"} /\ b \in BridgeNames
          /\ bridge.state # "on" => should_use_bridge(pick.attempt) /\ proto # "udp"
      <2>1. SoundList(relays)
            BY <1>2, ListIsSound
      <2>2. \A b \in get_proxy_settings(relays, bridge.location, proto, km) : b \notin {"none", "custom"} /\ b \in BridgeNames
            <3> HIDE DEF relays, proto, km
            <3> QED BY <2>1, BridgeIsRelay
      <2> QED BY <2>2 DEF get_auto_proxy_settings
<1>4. "none" \in BridgeNames /\ "custom" \in BridgeNames
      BY DEF BridgeNames
<1> HIDE DEF Done, found
<1> SUFFICES \E b \in BridgeNames, result \in {"ok", "NoKey", "NoBridge"} : Goal(b, result)
    BY Zenon DEF Done
<1>5. CASE pick.chosen.endpoint.tunnel = "wireguard"
      BY <1>1, <1>4, <1>5
<1>6. CASE pick.chosen.endpoint.tunnel # "wireguard" /\ bridge.state = "off"
      <2>1. Done("none", "ok")
            BY <1>1, <1>6
      <2>2. Goal("none", "ok")
            BY <1>6, <2>1
      <2> QED BY <1>4, <2>2, Zenon
<1>7. CASE pick.chosen.endpoint.tunnel # "wireguard" /\ bridge.state # "off" /\ bridge.kind = "custom"
      <2> DEFINE b == IF bridge.state = "on" \/ should_use_bridge(pick.attempt) THEN "custom" ELSE "none"
      <2>1. Done(b, "ok")
            BY <1>1, <1>7
      <2>2. Goal(b, "ok")
            BY <1>7, <2>1
      <2>3. b \in BridgeNames
            BY <1>4
      <2> QED BY <2>2, <2>3, Zenon
<1>8. CASE pick.chosen.endpoint.tunnel # "wireguard" /\ bridge.state # "off" /\ bridge.kind = "normal"
      <2>1. CASE found = {}
            <3> DEFINE result == IF bridge.state = "on" THEN "NoBridge" ELSE "ok"
            <3>1. Done("none", result)
                  BY <1>1, <1>8, <2>1
            <3>2. Goal("none", result)
                  BY <1>8, <3>1
            <3>3. result \in {"ok", "NoKey", "NoBridge"}
                  OBVIOUS
            <3> QED BY <1>4, <3>2, <3>3, Zenon
      <2>2. CASE found # {}
            <3>1. PICK b \in found : Done(b, "ok")
                  BY <1>1, <1>8, <2>2
            <3>2. Goal(b, "ok") /\ b \in BridgeNames
                  BY <1>3, <1>8, <3>1
            <3> QED BY <3>2, Zenon
      <2> QED BY <2>1, <2>2
<1> QED BY <1>2, <1>5, <1>6, <1>7, <1>8

LEMMA CreateKeeps ==
    ASSUME ListInv, SelectorInv, CreateTunnelParameters PROVE SelectorInv'
<1>0. /\ settings' = settings /\ bridge' = bridge /\ settings.constraints \in Constraints
      /\ pick \in Picks /\ pick.step = "parameters" /\ last_generated_relay' = pick.chosen.relay
      BY DEF CreateTunnelParameters, SelectorInv, SelectorTypes
<1>1. PICK b \in BridgeNames, result \in {"ok", "NoKey", "NoBridge"} :
          /\ pick' = [pick EXCEPT !.step = "idle", !.bridge = b, !.result = result]
          /\ last_generated_bridge_relay' = IF b = "custom" THEN "none" ELSE b
          /\ b # "none" =>
                /\ pick.chosen.endpoint.tunnel # "wireguard" /\ bridge.state # "off"
                /\ bridge.state = "auto" => should_use_bridge(pick.attempt)
                /\ bridge.state = "auto" /\ bridge.kind = "normal" => pick.chosen.endpoint.protocol # "udp"
          /\ result = "ok" /\ pick.chosen.endpoint.tunnel # "wireguard" /\ bridge.state = "on" => b # "none"
      BY ParametersEnd
<1>2. Allowed(RelaysOf(pick.from), pick.chosen, settings.constraints)
      BY <1>0, ChoiceIs DEF SelectorInv
<1>3. /\ pick.chosen.relay \notin {"none", "custom"} /\ pick.chosen.endpoint.tunnel \in {"openvpn", "wireguard"}
      /\ pick.chosen.endpoint.tunnel = "openvpn" => pick.chosen.endpoint.protocol \in {"udp", "tcp"}
      <2>1. pick.from \in 0 .. MaxVersion
            BY <1>0 DEF Picks
      <2>2. SoundList(RelaysOf(pick.from))
            BY <2>1, ListIsSound
      <2> QED BY <1>0, <1>2, <2>2, AllowedIs DEF Tunnels, Protocols
<1>4. /\ pick'.step = "idle" /\ pick'.bridge = b /\ pick'.result = result
      /\ pick'.from = pick.from /\ pick'.chosen = pick.chosen /\ pick'.attempt = pick.attempt
      BY <1>0, <1>1 DEF Picks
<1>5. SelectorTypes'
      <2>1. pick' \in Picks
            BY <1>0, <1>1 DEF Picks
      <2> QED BY <1>0, <2>1 DEF SelectorTypes, SelectorInv
<1>6. SelectionFits' /\ NoRelayMeansNone'
      BY <1>0, <1>2, <1>4, ChoiceIsNext
<1>7. BridgeOnlyWhenWanted'
      <2>1. pick.attempt \in Nat
            BY <1>0 DEF Picks
      <2>2. should_use_bridge(pick.attempt) => pick.attempt >= 4
            BY <2>1 DEF should_use_bridge
      <2> QED BY <1>0, <1>1, <1>3, <1>4, <2>2 DEF BridgeOnlyWhenWanted
<1>8. LocationIsThatOfParameters'
      BY <1>0, <1>1, <1>3, <1>4 DEF LocationIsThatOfParameters, build_location_from_relay
<1> QED BY <1>4, <1>5, <1>6, <1>7, <1>8 DEF SelectorInv

LEMMA SelectorInvKept == ASSUME ListInv, SelectorInv, [Next]_vars PROVE SelectorInv'
<1>1. CASE UNCHANGED selectorVars
      BY <1>1, SelectorStutters
<1>2. CASE Forgets
      BY <1>2, ForgetsKeeps
<1>3. CASE UserStep
      BY <1>3, UserKeeps
<1>4. CASE SelectorStep
      BY <1>4, GenerateKeeps, SecondLookupKeeps, CreateKeeps DEF SelectorStep
<1> QED BY <1>1, <1>2, <1>3, <1>4 DEF Next, vars

-----------------------------------------------------------------------------
(* Theorems                                                                *)

LEMMA InvHolds == Spec => [](ListInv /\ SelectorInv)
<1>1. Init => ListInv /\ SelectorInv
      BY ListStarts, SelectorStarts DEF Init
<1>2. ListInv /\ SelectorInv /\ [Next]_vars => ListInv' /\ SelectorInv'
      BY ListInvKept, SelectorInvKept
<1> QED BY <1>1, <1>2, PTL DEF Spec

\* Every variable has its type; and after kills, upgrades, clocks set back and files cut
\* short the daemon starts with a sound address of the API, never with the built-in one while
\* an address of the API is kept, and with relays if a readable list is bundled.
THEOREM StartIsSoundHolds == Spec => []StartIsSound
<1>1. ListInv /\ SelectorInv => StartIsSound
      <2> SUFFICES ASSUME ListInv, SelectorInv PROVE StartIsSound
          OBVIOUS
      <2>1. ListTypeOK
            BY DEF ListInv, ListTypes, ListTypeOK
      <2>2. RelaysTypeOK
            BY <2>1 DEF SelectorInv, SelectorTypes, Picks, RelaysTypeOK, Constraints, Tunnels, DefaultConstraints
      <2> QED BY <2>2 DEF ListInv, AddressInv, VersionInv, StartIsSound
<1> QED BY <1>1, InvHolds, PTL

\* Whatever the lists, the weights, the port ranges, the settings and the attempt, and
\* whenever the list is replaced: what is chosen is what the settings allow, none is found
\* only where none is usable, a bridge is used only when it is wanted, the location that is
\* reported is that of the parameters, and the random choices are sound.
THEOREM SelectionIsSoundHolds == Spec => []SelectionIsSound
<1>1. ListInv /\ SelectorInv => SelectionIsSound
      BY RandomChoices DEF SelectorInv, SelectionIsSound
<1> QED BY <1>1, InvHolds, PTL

\* While the daemon is up its list is only ever replaced by one as new.
THEOREM ListNeverGoesBackHolds == Spec => ListNeverGoesBack
<1>1. ListInv /\ [Next]_vars => [phase = "up" /\ phase' = "up" => list'.ver >= list.ver]_<<listVars, apiVars>>
      BY ListIsKeptOrNewer
<1> QED BY <1>1, InvHolds, PTL DEF Spec, ListNeverGoesBack
=============================================================================
