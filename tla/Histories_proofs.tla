-------------------------- MODULE Histories_proofs --------------------------
(* What holds of the answers about the past, for every value of the          *)
(* constants: the pages of an address, and the caches between Etherscan and  *)
(* the analytics.                                                            *)
EXTENDS AddressPages, HistoryCaches, SumTheorems, SequenceTheorems, TLAPS

-----------------------------------------------------------------------------
(* The pages of a history.                                                 *)

IsList(s) == \E S : s \in Seq(S)

\* The hashes of the transactions: numbers up to their count, each once.
Count == Len(chain) + Len(mempool)

Numbered ==
    /\ \A k \in DOMAIN chain : chain[k].hash \in 1..Count
    /\ \A k \in DOMAIN mempool : mempool[k].hash \in 1..Count
    /\ \A j, k \in DOMAIN chain : chain[j].hash = chain[k].hash => j = k
    /\ \A j, k \in DOMAIN mempool : mempool[j].hash = mempool[k].hash => j = k
    /\ \A j \in DOMAIN chain, k \in DOMAIN mempool : chain[j].hash # mempool[k].hash

\* What was told, once each, and the confirmed transactions before place p are
\* apart, and are together all that there was at the beginning.
Reading(told, old, p) ==
    /\ \A h \in old : \/ \E j \in DOMAIN told : told[j].hash = h
                      \/ \E k \in 1..(p - 1) : chain[k].hash = h
    /\ \A j, k \in DOMAIN told : told[j].hash = told[k].hash => j = k
    /\ \A j \in DOMAIN told : /\ told[j].hash \in 1..Count
                              /\ \A k \in 1..(p - 1) : told[j].hash # chain[k].hash

PagesInvariant ==
    /\ net \in PagedNetworks /\ IsList(chain) /\ IsList(mempool) /\ Numbered
    /\ client = [at |-> client.at, limit |-> client.limit, cursor |-> client.cursor,
                 told |-> client.told, old |-> client.old]
    /\ client.at = "away" => client.told = <<>> /\ client.cursor = NoCursor
    /\ client.limit = NoLimit => IsList(client.told)
    /\ client.at = "reads" /\ client.limit = NoLimit =>
         \E p \in DOMAIN chain : client.cursor = chain[p].hash
                                 /\ Reading(client.told, client.old, p)
    /\ client.at = "done" /\ client.limit = NoLimit => Reading(client.told, client.old, 1)

LEMMA ListFacts ==
  ASSUME NEW s, IsList(s)
  PROVE  Len(s) \in Nat /\ DOMAIN s = 1..Len(s)
BY DEF IsList

LEMMA ListsAppend ==
  ASSUME NEW s, IsList(s), NEW e
  PROVE  /\ IsList(Append(s, e)) /\ Len(Append(s, e)) = Len(s) + 1
         /\ DOMAIN Append(s, e) = 1..(Len(s) + 1)
         /\ \A k \in 1..Len(s) : Append(s, e)[k] = s[k]
         /\ Append(s, e)[Len(s) + 1] = e
<1>1. PICK S : s \in Seq(S)
  BY DEF IsList
<1>2. s \in Seq(S \cup {e})
  BY <1>1
<1>3. Append(s, e) \in Seq(S \cup {e})
  BY <1>2
<1> QED BY <1>2, <1>3 DEF IsList

\* A transaction more.
LEMMA OneMore ==
  ASSUME NEW log, IsList(log), NEW tx
  PROVE  ToSet(Append(log, tx)) = ToSet(log) \cup {tx}
<1>1. /\ Len(log) \in Nat /\ DOMAIN log = 1..Len(log)
      /\ DOMAIN Append(log, tx) = 1..(Len(log) + 1)
      /\ \A k \in 1..Len(log) : Append(log, tx)[k] = log[k]
      /\ Append(log, tx)[Len(log) + 1] = tx
  BY ListFacts, ListsAppend
<1>2. \A k \in 1..(Len(log) + 1) : k \in 1..Len(log) \/ k = Len(log) + 1
  BY <1>1
<1>3. \A k \in 1..Len(log) : k \in 1..(Len(log) + 1)
  BY <1>1
<1>4. Len(log) + 1 \in 1..(Len(log) + 1)
  BY <1>1
<1>5. ASSUME NEW x \in ToSet(Append(log, tx)) PROVE x \in ToSet(log) \cup {tx}
  <2>1. PICK k \in 1..(Len(log) + 1) : x = Append(log, tx)[k]
    BY <1>1, <1>5 DEF ToSet
  <2> QED BY <1>1, <1>2, <2>1 DEF ToSet
<1>6. ASSUME NEW x \in ToSet(log) \cup {tx} PROVE x \in ToSet(Append(log, tx))
  <2>1. CASE x \in ToSet(log)
    <3>1. PICK k \in 1..Len(log) : x = log[k]
      BY <1>1, <2>1 DEF ToSet
    <3>2. k \in DOMAIN Append(log, tx) /\ Append(log, tx)[k] = x
      BY <1>1, <1>3, <3>1
    <3> QED BY <3>2 DEF ToSet
  <2>2. CASE x = tx
    BY <1>1, <1>4, <2>2 DEF ToSet
  <2> QED BY <1>6, <2>1, <2>2
<1> QED BY <1>5, <1>6

LEMMA ListsJoined ==
  ASSUME NEW s, IsList(s), NEW t, IsList(t)
  PROVE  /\ IsList(s \o t) /\ Len(s \o t) = Len(s) + Len(t)
         /\ DOMAIN (s \o t) = 1..(Len(s) + Len(t))
         /\ \A i \in 1..(Len(s) + Len(t)) :
              (s \o t)[i] = IF i <= Len(s) THEN s[i] ELSE t[i - Len(s)]
<1>1. PICK S : s \in Seq(S)
  BY DEF IsList
<1>2. PICK T : t \in Seq(T)
  BY DEF IsList
<1>3. s \in Seq(S \cup T) /\ t \in Seq(S \cup T)
  BY <1>1, <1>2
<1>4. /\ s \o t \in Seq(S \cup T) /\ Len(s \o t) = Len(s) + Len(t)
      /\ \A i \in 1..(Len(s) + Len(t)) :
           (s \o t)[i] = IF i <= Len(s) THEN s[i] ELSE t[i - Len(s)]
  BY <1>3, ConcatProperties
<1>5. IsList(s \o t)
  BY <1>4 DEF IsList
<1> QED BY <1>4, <1>5, ListFacts

LEMMA ListsCut ==
  ASSUME NEW s, IsList(s), NEW m \in Nat \ {0}, NEW n \in 0..Len(s), m <= n + 1
  PROVE  LET part == SubSeq(s, m, n)
         IN  /\ IsList(part) /\ Len(part) = n - m + 1
             /\ \A i \in 1..(n - m + 1) : part[i] = s[m + i - 1]
<1>1. PICK S : s \in Seq(S)
  BY DEF IsList
<1>2. \A i \in m..n : s[i] \in S
  BY <1>1
<1>3. /\ SubSeq(s, m, n) \in Seq(S) /\ Len(SubSeq(s, m, n)) = n - m + 1
      /\ \A i \in 1..(n - m + 1) : SubSeq(s, m, n)[i] = s[m + i - 1]
  BY <1>1, <1>2, SubSeqProperties
<1> QED BY <1>3 DEF IsList

LEMMA ListsReversed ==
  ASSUME NEW s, IsList(s)
  PROVE  /\ IsList(Reverse(s)) /\ Len(Reverse(s)) = Len(s)
         /\ \A i \in 1..Len(s) : Reverse(s)[i] = s[Len(s) - i + 1]
<1>1. PICK S : s \in Seq(S)
  BY DEF IsList
<1>2. Reverse(s) \in [1..Len(s) -> S]
  BY <1>1 DEF Reverse
<1>3. Reverse(s) \in Seq(S) /\ Len(Reverse(s)) = Len(s)
  BY <1>1, <1>2
<1> QED BY <1>1, <1>3 DEF IsList, Reverse

LEMMA OneRemoved ==
  ASSUME NEW s, IsList(s), NEW k \in 1..Len(s)
  PROVE  /\ IsList(RemoveAt(s, k)) /\ Len(RemoveAt(s, k)) = Len(s) - 1
         /\ \A i \in 1..(Len(s) - 1) : RemoveAt(s, k)[i] = IF i < k THEN s[i] ELSE s[i + 1]
<1> DEFINE one == SubSeq(s, 1, k - 1)
           two == SubSeq(s, k + 1, Len(s))
<1>0. Len(s) \in Nat
  BY ListFacts
<1>1. IsList(one) /\ Len(one) = k - 1 /\ \A i \in 1..(k - 1) : one[i] = s[i]
  <2>1. /\ IsList(one) /\ Len(one) = k - 1 - 1 + 1
        /\ \A i \in 1..(k - 1 - 1 + 1) : one[i] = s[1 + i - 1]
    <3>1. k - 1 \in 0..Len(s) /\ 1 <= k - 1 + 1 /\ 1 \in Nat \ {0}
      BY <1>0
    <3> QED BY <3>1, ListsCut
  <2> HIDE DEF one
  <2>2. k - 1 - 1 + 1 = k - 1 /\ \A i \in Int : 1 + i - 1 = i
    BY <1>0
  <2> QED BY <2>1, <2>2
<1>2. /\ IsList(two) /\ Len(two) = Len(s) - k
      /\ \A i \in 1..(Len(s) - k) : two[i] = s[k + i]
  <2>1. /\ IsList(two) /\ Len(two) = Len(s) - (k + 1) + 1
        /\ \A i \in 1..(Len(s) - (k + 1) + 1) : two[i] = s[k + 1 + i - 1]
    BY <1>0, ListsCut
  <2> HIDE DEF two
  <2>2. Len(s) - (k + 1) + 1 = Len(s) - k /\ \A i \in Int : k + 1 + i - 1 = k + i
    BY <1>0
  <2> QED BY <2>1, <2>2
<1> HIDE DEF one, two
<1>3. /\ IsList(one \o two) /\ Len(one \o two) = Len(s) - 1
      /\ \A i \in 1..(Len(s) - 1) :
           (one \o two)[i] = IF i <= k - 1 THEN one[i] ELSE two[i - (k - 1)]
  <2>1. Len(one) + Len(two) = Len(s) - 1
    BY <1>0, <1>1, <1>2
  <2>2. /\ IsList(one \o two) /\ Len(one \o two) = Len(one) + Len(two)
        /\ \A i \in 1..(Len(one) + Len(two)) :
             (one \o two)[i] = IF i <= Len(one) THEN one[i] ELSE two[i - Len(one)]
    BY <1>1, <1>2, ListsJoined
  <2>3. Len(one) = k - 1
    BY <1>1
  <2> QED BY <2>1, <2>2, <2>3
<1>4. \A i \in 1..(Len(s) - 1) : (one \o two)[i] = IF i < k THEN s[i] ELSE s[i + 1]
  <2> SUFFICES ASSUME NEW i \in 1..(Len(s) - 1)
               PROVE  (one \o two)[i] = IF i < k THEN s[i] ELSE s[i + 1]
    OBVIOUS
  <2>1. CASE i < k
    BY <1>0, <1>1, <1>3, <2>1
  <2>2. CASE ~ (i < k)
    <3>1. i - (k - 1) \in 1..(Len(s) - k) /\ k + (i - (k - 1)) = i + 1 /\ ~ (i <= k - 1)
      BY <1>0, <2>2
    <3> QED BY <1>2, <1>3, <2>2, <3>1
  <2> QED BY <2>1, <2>2
<1> QED BY <1>3, <1>4 DEF RemoveAt, one, two

\* A page: the m transactions that are not confirmed, and the newest n before
\* place upto + 1.
PageOf(items, upto, n, m) ==
    /\ Len(items) = m + n
    /\ \A i \in 1..m : items[i].hash = mempool[m - i + 1].hash
    /\ \A i \in (m + 1)..(m + n) : items[i].hash = chain[upto - (i - m) + 1].hash

\* What is told before such a page is read.
Before(told, old, upto, m) ==
    /\ \A h \in old : \/ \E j \in DOMAIN told : told[j].hash = h
                      \/ \E k \in 1..upto : chain[k].hash = h
                      \/ m = Len(mempool) /\ \E k \in DOMAIN mempool : mempool[k].hash = h
    /\ \A j, k \in DOMAIN told : told[j].hash = told[k].hash => j = k
    /\ \A j \in DOMAIN told : /\ told[j].hash \in 1..Count
                              /\ \A k \in 1..upto : told[j].hash # chain[k].hash

\* The sizes that belong to a page.
Sizes(told, upto, n, m) ==
    /\ upto \in 0..Len(chain) /\ n \in 0..upto /\ m \in {0, Len(mempool)}
    /\ m > 0 => Len(told) = 0

LEMMA PageEntries ==
  ASSUME IsList(chain), IsList(mempool),
         NEW told, NEW items, NEW upto, NEW n, NEW m,
         Sizes(told, upto, n, m), PageOf(items, upto, n, m), NEW i \in 1..(m + n)
  PROVE  \/ /\ i <= m /\ m - i + 1 \in DOMAIN mempool
            /\ items[i].hash = mempool[m - i + 1].hash
         \/ /\ i > m /\ upto - (i - m) + 1 \in (upto - n + 1)..upto
            /\ upto - (i - m) + 1 \in DOMAIN chain
            /\ items[i].hash = chain[upto - (i - m) + 1].hash
<1>1. /\ upto \in Nat /\ n \in Nat /\ n <= upto /\ m \in Nat /\ upto <= Len(chain)
      /\ Len(chain) \in Nat /\ DOMAIN chain = 1..Len(chain)
      /\ m <= Len(mempool) /\ DOMAIN mempool = 1..Len(mempool) /\ Len(mempool) \in Nat
  BY ListFacts DEF Sizes
<1>2. CASE i <= m
  <2>1. i \in 1..m /\ m - i + 1 \in DOMAIN mempool
    BY <1>1, <1>2
  <2>2. items[i].hash = mempool[m - i + 1].hash
    BY <2>1 DEF PageOf
  <2> QED BY <1>2, <2>1, <2>2
<1>3. CASE i > m
  <2>1. i \in (m + 1)..(m + n) /\ upto - (i - m) + 1 \in (upto - n + 1)..upto
        /\ upto - (i - m) + 1 \in DOMAIN chain
    BY <1>1, <1>3
  <2>2. items[i].hash = chain[upto - (i - m) + 1].hash
    BY <2>1 DEF PageOf
  <2> QED BY <1>3, <2>1, <2>2
<1> QED BY <1>1, <1>2, <1>3

\* The entries of a page are other than those left and those told.
LEMMA PageIsNew ==
  ASSUME IsList(chain), IsList(mempool), Numbered,
         NEW told, IsList(told), NEW old, NEW items, NEW upto, NEW n, NEW m,
         Sizes(told, upto, n, m), PageOf(items, upto, n, m), Before(told, old, upto, m),
         NEW i \in 1..(m + n)
  PROVE  /\ items[i].hash \in 1..Count
         /\ \A k \in 1..(upto - n) : items[i].hash # chain[k].hash
         /\ \A j \in DOMAIN told : told[j].hash # items[i].hash
<1>1. /\ upto \in Nat /\ n \in Nat /\ n <= upto /\ m \in Nat /\ upto <= Len(chain)
      /\ Len(chain) \in Nat /\ DOMAIN chain = 1..Len(chain)
      /\ DOMAIN told = 1..Len(told) /\ Len(told) \in Nat
      /\ m > 0 => DOMAIN told = {}
  BY ListFacts DEF Sizes
<1>2. CASE /\ i <= m /\ m - i + 1 \in DOMAIN mempool
           /\ items[i].hash = mempool[m - i + 1].hash
  <2>1. 1..(upto - n) \subseteq DOMAIN chain
    BY <1>1
  <2>2. DOMAIN told = {}
    BY <1>1, <1>2
  <2> DEFINE at == m - i + 1
  <2> HIDE DEF at
  <2>3. at \in DOMAIN mempool /\ items[i].hash = mempool[at].hash
    BY <1>2 DEF at
  <2> QED BY <2>1, <2>2, <2>3 DEF Numbered
<1>3. CASE /\ i > m /\ upto - (i - m) + 1 \in (upto - n + 1)..upto
           /\ upto - (i - m) + 1 \in DOMAIN chain
           /\ items[i].hash = chain[upto - (i - m) + 1].hash
  <2> DEFINE at == upto - (i - m) + 1
  <2> HIDE DEF at
  <2>1. /\ at \in (upto - n + 1)..upto /\ at \in DOMAIN chain /\ at \in 1..upto
        /\ items[i].hash = chain[at].hash
    BY <1>1, <1>3 DEF at
  <2>2. \A k \in 1..(upto - n) : k \in DOMAIN chain /\ k # at
    BY <1>1, <2>1
  <2>3. \A k \in 1..(upto - n) : items[i].hash # chain[k].hash
    BY <2>1, <2>2 DEF Numbered
  <2>4. items[i].hash \in 1..Count
    BY <2>1 DEF Numbered
  <2>5. \A j \in DOMAIN told : told[j].hash # items[i].hash
    BY <2>1 DEF Before
  <2> QED BY <2>3, <2>4, <2>5
<1> QED BY <1>2, <1>3, PageEntries

LEMMA PageHasEachOnce ==
  ASSUME IsList(chain), IsList(mempool), Numbered,
         NEW told, NEW items, NEW upto, NEW n, NEW m,
         Sizes(told, upto, n, m), PageOf(items, upto, n, m),
         NEW i \in 1..(m + n), NEW l \in 1..(m + n), items[i].hash = items[l].hash
  PROVE  i = l
<1>1. upto \in Nat /\ n \in Nat /\ m \in Nat
  BY ListFacts DEF Sizes
<1> DEFINE a(x) == m - x + 1
           b(x) == upto - (x - m) + 1
<1>2. \A x \in {i, l} : \/ /\ x <= m /\ a(x) \in DOMAIN mempool
                           /\ items[x].hash = mempool[a(x)].hash
                        \/ /\ x > m /\ b(x) \in DOMAIN chain
                           /\ items[x].hash = chain[b(x)].hash
  BY PageEntries
<1>3. (a(i) = a(l) => i = l) /\ (b(i) = b(l) => i = l)
  BY <1>1
<1> HIDE DEF a, b
<1> QED BY <1>2, <1>3 DEF Numbered

\* A page goes on with what was told.
LEMMA PageAdds ==
  ASSUME IsList(chain), IsList(mempool), Numbered,
         NEW told, IsList(told), NEW items, IsList(items), NEW old,
         NEW upto, NEW n, NEW m,
         Sizes(told, upto, n, m), PageOf(items, upto, n, m), Before(told, old, upto, m)
  PROVE  Reading(told \o items, old, upto - n + 1)
<1> DEFINE both == told \o items
           t == Len(told)
<1>1. /\ t \in Nat /\ DOMAIN told = 1..t /\ m \in Nat /\ n \in Nat /\ upto \in Nat /\ n <= upto
      /\ DOMAIN mempool = 1..Len(mempool) /\ Len(mempool) \in Nat
      /\ Len(items) = m + n
  BY ListFacts DEF Sizes, PageOf
<1>2. /\ DOMAIN both = 1..(t + (m + n))
      /\ \A i \in 1..(t + (m + n)) : both[i] = IF i <= t THEN told[i] ELSE items[i - t]
  BY <1>1, ListsJoined
<1>3. upto - n + 1 - 1 = upto - n
  BY <1>1
<1> HIDE DEF both, t
<1>4. \A i \in DOMAIN both : \/ i \in DOMAIN told /\ both[i] = told[i]
                             \/ /\ i > t /\ i - t \in 1..(m + n) /\ both[i] = items[i - t]
  BY <1>1, <1>2
<1>5. /\ \A j \in DOMAIN told : j \in DOMAIN both /\ both[j] = told[j]
      /\ \A i \in 1..(m + n) : t + i \in DOMAIN both /\ both[t + i] = items[i]
  BY <1>1, <1>2
<1>6. \A h \in old : \/ \E j \in DOMAIN both : both[j].hash = h
                     \/ \E k \in 1..(upto - n) : chain[k].hash = h
  <2> SUFFICES ASSUME NEW h \in old, ~ \E k \in 1..(upto - n) : chain[k].hash = h
               PROVE  \E j \in DOMAIN both : both[j].hash = h
    OBVIOUS
  <2>1. ASSUME NEW j \in DOMAIN told, told[j].hash = h PROVE \E i \in DOMAIN both : both[i].hash = h
    BY <1>5, <2>1
  <2>2. ASSUME NEW k \in 1..upto, chain[k].hash = h PROVE \E i \in DOMAIN both : both[i].hash = h
    <3> DEFINE i == m + (upto - k + 1)
    <3>1. k > upto - n
      BY <1>1, <2>2
    <3>2. i \in (m + 1)..(m + n) /\ i \in 1..(m + n) /\ upto - (i - m) + 1 = k
      BY <1>1, <3>1
    <3> HIDE DEF i
    <3>3. items[i].hash = h
      BY <2>2, <3>2 DEF PageOf
    <3> QED BY <1>5, <3>2, <3>3
  <2>3. ASSUME m = Len(mempool), NEW k \in DOMAIN mempool, mempool[k].hash = h
        PROVE  \E i \in DOMAIN both : both[i].hash = h
    <3> DEFINE i == m - k + 1
    <3>1. i \in 1..m /\ i \in 1..(m + n) /\ m - i + 1 = k
      BY <1>1, <2>3
    <3> HIDE DEF i
    <3>2. items[i].hash = h
      BY <2>3, <3>1 DEF PageOf
    <3> QED BY <1>5, <3>1, <3>2
  <2> QED BY <2>1, <2>2, <2>3 DEF Before
<1>7. \A i, l \in DOMAIN both : both[i].hash = both[l].hash => i = l
  <2> SUFFICES ASSUME NEW i \in DOMAIN both, NEW l \in DOMAIN both, both[i].hash = both[l].hash
               PROVE  i = l
    OBVIOUS
  <2>1. CASE i \in DOMAIN told /\ both[i] = told[i] /\ l \in DOMAIN told /\ both[l] = told[l]
    BY <2>1 DEF Before
  <2>2. CASE /\ i > t /\ i - t \in 1..(m + n) /\ both[i] = items[i - t]
             /\ l > t /\ l - t \in 1..(m + n) /\ both[l] = items[l - t]
    <3>1. i - t = l - t
      BY <2>2, PageHasEachOnce
    <3> QED BY <1>1, <1>2, <3>1
  <2>3. CASE /\ i \in DOMAIN told /\ both[i] = told[i]
             /\ l > t /\ l - t \in 1..(m + n) /\ both[l] = items[l - t]
    BY <2>3, PageIsNew
  <2>4. CASE /\ l \in DOMAIN told /\ both[l] = told[l]
             /\ i > t /\ i - t \in 1..(m + n) /\ both[i] = items[i - t]
    BY <2>4, PageIsNew
  <2> QED BY <1>4, <2>1, <2>2, <2>3, <2>4
<1>8. \A i \in DOMAIN both : /\ both[i].hash \in 1..Count
                             /\ \A k \in 1..(upto - n) : both[i].hash # chain[k].hash
  <2> SUFFICES ASSUME NEW i \in DOMAIN both
               PROVE  /\ both[i].hash \in 1..Count
                      /\ \A k \in 1..(upto - n) : both[i].hash # chain[k].hash
    OBVIOUS
  <2>1. CASE i \in DOMAIN told /\ both[i] = told[i]
    <3>1. 1..(upto - n) \subseteq 1..upto
      BY <1>1
    <3> QED BY <2>1, <3>1 DEF Before
  <2>2. CASE i > t /\ i - t \in 1..(m + n) /\ both[i] = items[i - t]
    BY <2>2, PageIsNew
  <2> QED BY <1>4, <2>1, <2>2
<1>9. Reading(both, old, upto - n + 1)
  <2> DEFINE q == upto - n + 1
  <2>1. q - 1 = upto - n
    BY <1>1
  <2> HIDE DEF q
  <2>2. Reading(both, old, q)
    BY <1>6, <1>7, <1>8, <2>1 DEF Reading
  <2> QED BY <2>2 DEF q
<1> QED BY <1>9 DEF both

-----------------------------------------------------------------------------
(* What the network answers, and what the adapters make of it.             *)

\* The place of the newest confirmed transaction that a cursor leaves.
Left(cursor, upto) ==
    \/ cursor = NoCursor /\ upto = Len(chain)
    \/ upto + 1 \in DOMAIN chain /\ cursor = chain[upto + 1].hash

LEMMA OlderForm ==
  ASSUME PagesAssumption, IsList(chain), Numbered, NEW cursor, NEW upto \in 0..Len(chain),
         Left(cursor, upto)
  PROVE  /\ IsList(Older(chain, cursor)) /\ Len(Older(chain, cursor)) = upto
         /\ \A i \in 1..upto : Older(chain, cursor)[i] = chain[upto - i + 1]
<1>0. Len(chain) \in Nat /\ DOMAIN chain = 1..Len(chain) /\ upto \in Nat /\ upto <= Len(chain)
  BY ListFacts
<1>1. CASE cursor = NoCursor
  <2>1. upto = Len(chain)
    <3> SUFFICES ASSUME upto + 1 \in DOMAIN chain, cursor = chain[upto + 1].hash
                 PROVE  FALSE
      BY <1>1 DEF Left
    <3>1. cursor \in 1..Count
      BY DEF Numbered
    <3>2. Len(mempool) \notin Nat \/ cursor \in Nat
      BY <1>0, <3>1 DEF Count
    <3>3. cursor \in Int
      BY <3>1
    <3> QED BY <1>1, <3>1, <3>3 DEF PagesAssumption
  <2> QED BY <1>1, <2>1, ListsReversed DEF Older
<1>2. CASE cursor # NoCursor
  <2>1. upto + 1 \in DOMAIN chain /\ cursor = chain[upto + 1].hash
    BY <1>2 DEF Left
  <2> DEFINE at == CHOOSE k \in DOMAIN chain : chain[k].hash = cursor
             some == SubSeq(chain, 1, upto)
  <2>2. at \in DOMAIN chain /\ chain[at].hash = cursor
    BY <2>1
  <2>3. at = upto + 1
    <3> HIDE DEF at
    <3> QED BY <2>1, <2>2 DEF Numbered
  <2>4. at - 1 = upto
    <3> HIDE DEF at
    <3> QED BY <1>0, <2>3
  <2>5. Older(chain, cursor) = Reverse(some)
    BY <1>2, <2>4 DEF Older
  <2>6. IsList(some) /\ Len(some) = upto /\ \A i \in 1..upto : some[i] = chain[i]
    <3>1. /\ IsList(some) /\ Len(some) = upto - 1 + 1
          /\ \A i \in 1..(upto - 1 + 1) : some[i] = chain[1 + i - 1]
      <4>1. 1 \in Nat \ {0} /\ 1 <= upto + 1
        BY <1>0
      <4> QED BY <4>1, ListsCut
    <3> HIDE DEF some
    <3>2. upto - 1 + 1 = upto /\ \A i \in Int : 1 + i - 1 = i
      BY <1>0
    <3> QED BY <3>1, <3>2
  <2> HIDE DEF some
  <2>7. /\ IsList(Reverse(some)) /\ Len(Reverse(some)) = upto
        /\ \A i \in 1..upto : Reverse(some)[i] = some[upto - i + 1]
    <3>1. /\ IsList(Reverse(some)) /\ Len(Reverse(some)) = Len(some)
          /\ \A i \in 1..Len(some) : Reverse(some)[i] = some[Len(some) - i + 1]
      BY <2>6, ListsReversed
    <3> QED BY <2>6, <3>1
  <2>8. \A i \in 1..upto : upto - i + 1 \in 1..upto
    BY <1>0
  <2> QED BY <2>5, <2>6, <2>7, <2>8
<1> QED BY <1>1, <1>2

\* How many confirmed transactions a page has.
Size(upto) == IF upto < PAGE THEN upto ELSE PAGE

\* How many others it has.
Pending(cursor) == IF net = "bitcoin" /\ cursor = NoCursor THEN Len(mempool) ELSE 0

LEMMA FirstOfForm ==
  ASSUME PagesAssumption, NEW s, IsList(s)
  PROVE  /\ IsList(FirstOf(s, PAGE)) /\ Len(FirstOf(s, PAGE)) = Size(Len(s))
         /\ \A i \in 1..Size(Len(s)) : FirstOf(s, PAGE)[i] = s[i]
<1> DEFINE n == Size(Len(s))
<1>1. Len(s) \in Nat /\ n \in 0..Len(s) /\ 1 <= n + 1 /\ 1 \in Nat \ {0} /\ n \in Nat
  BY ListFacts DEF PagesAssumption, Size
<1>2. FirstOf(s, PAGE) = SubSeq(s, 1, n)
  BY DEF FirstOf, Size
<1> HIDE DEF n
<1>3. /\ IsList(SubSeq(s, 1, n)) /\ Len(SubSeq(s, 1, n)) = n - 1 + 1
      /\ \A i \in 1..(n - 1 + 1) : SubSeq(s, 1, n)[i] = s[1 + i - 1]
  BY <1>1, ListsCut
<1>4. n - 1 + 1 = n /\ \A i \in Int : 1 + i - 1 = i
  BY <1>1
<1>5. /\ IsList(SubSeq(s, 1, n)) /\ Len(SubSeq(s, 1, n)) = n
      /\ \A i \in 1..n : SubSeq(s, 1, n)[i] = s[i]
  <2> DEFINE part == SubSeq(s, 1, n)
  <2> HIDE DEF part
  <2>1. /\ IsList(part) /\ Len(part) = n - 1 + 1
        /\ \A i \in 1..(n - 1 + 1) : part[i] = s[1 + i - 1]
    BY <1>3 DEF part
  <2>2. IsList(part) /\ Len(part) = n /\ \A i \in 1..n : part[i] = s[i]
    BY <1>4, <2>1
  <2> QED BY <2>2 DEF part
<1> QED BY <1>2, <1>5 DEF n

LEMMA PageForm ==
  ASSUME PagesAssumption, IsList(chain), IsList(mempool), Numbered,
         NEW cursor, NEW upto \in 0..Len(chain), Left(cursor, upto)
  PROVE  LET n == Size(upto)
             m == Pending(cursor)
         IN  /\ n \in 0..upto /\ m \in {0, Len(mempool)} /\ m \in Nat
             /\ IsList(Page(cursor)) /\ Len(Page(cursor)) = m + n
             /\ DOMAIN Page(cursor) = 1..(m + n)
             /\ \A i \in 1..m : m - i + 1 \in DOMAIN mempool /\ Page(cursor)[i] = mempool[m - i + 1]
             /\ \A i \in (m + 1)..(m + n) :
                  /\ upto - (i - m) + 1 \in DOMAIN chain
                  /\ Page(cursor)[i] = chain[upto - (i - m) + 1]
<1> DEFINE n == Size(upto)
           m == Pending(cursor)
           new == IF net = "bitcoin" /\ cursor = NoCursor THEN Reverse(mempool) ELSE <<>>
           old == FirstOf(Older(chain, cursor), PAGE)
<1>0. /\ Len(chain) \in Nat /\ DOMAIN chain = 1..Len(chain) /\ upto \in Nat /\ upto <= Len(chain)
      /\ Len(mempool) \in Nat /\ DOMAIN mempool = 1..Len(mempool)
  BY ListFacts
<1>1. n \in 0..upto /\ n \in Nat /\ n <= upto
  BY <1>0 DEF PagesAssumption, Size
<1>2. m \in {0, Len(mempool)} /\ m \in Nat /\ m <= Len(mempool)
  BY <1>0 DEF Pending
<1>3. IsList(new) /\ Len(new) = m /\ \A i \in 1..m : new[i] = mempool[m - i + 1]
  <2>1. CASE net = "bitcoin" /\ cursor = NoCursor
    BY <2>1, ListsReversed DEF Pending
  <2>2. CASE ~ (net = "bitcoin" /\ cursor = NoCursor)
    <3>1. IsList(<<>>) /\ Len(<<>>) = 0
      BY DEF IsList
    <3>2. 1..0 = {}
      OBVIOUS
    <3> QED BY <2>2, <3>1, <3>2 DEF Pending
  <2> QED BY <2>1, <2>2
<1>4. /\ IsList(Older(chain, cursor)) /\ Len(Older(chain, cursor)) = upto
      /\ \A i \in 1..upto : Older(chain, cursor)[i] = chain[upto - i + 1]
  BY OlderForm
<1>5. IsList(old) /\ Len(old) = n /\ \A i \in 1..n : old[i] = Older(chain, cursor)[i]
  BY <1>4, FirstOfForm
<1>6. Page(cursor) = new \o old
  BY DEF Page
<1> HIDE DEF n, m, new, old
<1>7. \A i \in 1..n : old[i] = chain[upto - i + 1] /\ upto - i + 1 \in DOMAIN chain
  <2>1. \A i \in 1..n : i \in 1..upto /\ upto - i + 1 \in 1..Len(chain)
    BY <1>0, <1>1
  <2> QED BY <1>0, <1>4, <1>5, <2>1
<1>8. /\ IsList(new \o old) /\ Len(new \o old) = m + n /\ DOMAIN (new \o old) = 1..(m + n)
      /\ \A i \in 1..(m + n) : (new \o old)[i] = IF i <= m THEN new[i] ELSE old[i - m]
  <2>1. /\ IsList(new \o old) /\ Len(new \o old) = Len(new) + Len(old)
        /\ DOMAIN (new \o old) = 1..(Len(new) + Len(old))
        /\ \A i \in 1..(Len(new) + Len(old)) :
             (new \o old)[i] = IF i <= Len(new) THEN new[i] ELSE old[i - Len(new)]
    BY <1>3, <1>5, ListsJoined
  <2>2. Len(new) = m /\ Len(old) = n
    BY <1>3, <1>5
  <2> QED BY <2>1, <2>2
<1>9. \A i \in 1..m : m - i + 1 \in DOMAIN mempool /\ (new \o old)[i] = mempool[m - i + 1]
  <2> SUFFICES ASSUME NEW i \in 1..m
               PROVE  m - i + 1 \in DOMAIN mempool /\ (new \o old)[i] = mempool[m - i + 1]
    OBVIOUS
  <2>1. m \in Nat /\ n \in Nat
    BY <1>1, <1>2
  <2>2. i \in 1..(m + n) /\ i <= m /\ m - i + 1 \in 1..m
    BY <2>1
  <2>3. m <= Len(mempool) /\ Len(mempool) \in Nat /\ DOMAIN mempool = 1..Len(mempool)
    BY <1>0, <1>2
  <2>4. m - i + 1 \in DOMAIN mempool
    BY <2>1, <2>2, <2>3
  <2> QED BY <1>3, <1>8, <2>2, <2>4
<1>10. \A i \in (m + 1)..(m + n) :
         upto - (i - m) + 1 \in DOMAIN chain /\ (new \o old)[i] = chain[upto - (i - m) + 1]
  <2>1. \A i \in (m + 1)..(m + n) : i \in 1..(m + n) /\ ~ (i <= m) /\ i - m \in 1..n
    BY <1>1, <1>2
  <2> QED BY <1>7, <1>8, <2>1
<1> QED BY <1>1, <1>2, <1>6, <1>8, <1>9, <1>10 DEF n, m

\* An item has the hash of its transaction.
LEMMA ItemHash ==
  ASSUME net \in PagedNetworks, NEW tx
  PROVE  RecordToItem(Record(tx), 1).hash = tx.hash
<1>1. Record(tx).hash = tx.hash
  <2>1. CASE net = "bitcoin"
    BY <2>1 DEF Record, BitcoinRecord
  <2>2. CASE net = "solana"
    BY <2>2 DEF Record, SolanaRecord
  <2>3. CASE net = "tron"
    BY <2>3 DEF Record, TronRecord
  <2> QED BY <2>1, <2>2, <2>3 DEF PagedNetworks
<1> QED BY <1>1 DEF RecordToItem

\* The cursor of a page is its oldest entry, or there is nothing older.
LEMMA CursorForm ==
  ASSUME PagesAssumption, net \in PagedNetworks, IsList(chain), IsList(mempool), Numbered,
         NEW cursor, NEW upto \in 0..Len(chain), Left(cursor, upto)
  PROVE  LET n == Size(upto)
             next == NextCursor(Page(cursor))
         IN  \/ next = NoCursor /\ n = upto
             \/ upto - n + 1 \in DOMAIN chain /\ next = chain[upto - n + 1].hash
<1> DEFINE n == Size(upto)
           m == Pending(cursor)
           page == Page(cursor)
<1>0. /\ Len(chain) \in Nat /\ DOMAIN chain = 1..Len(chain) /\ upto \in Nat /\ upto <= Len(chain)
      /\ Len(mempool) \in Nat /\ DOMAIN mempool = 1..Len(mempool)
  BY ListFacts
<1>1. /\ n \in 0..upto /\ m \in {0, Len(mempool)} /\ m \in Nat
      /\ IsList(page) /\ Len(page) = m + n /\ DOMAIN page = 1..(m + n)
      /\ \A i \in 1..m : m - i + 1 \in DOMAIN mempool /\ page[i] = mempool[m - i + 1]
      /\ \A i \in (m + 1)..(m + n) :
           upto - (i - m) + 1 \in DOMAIN chain /\ page[i] = chain[upto - (i - m) + 1]
  BY PageForm
<1>2. n \in Nat /\ PAGE \in Nat \ {0} /\ (n < PAGE => n = upto) /\ n <= PAGE
  BY <1>0 DEF Size, PagesAssumption
<1>3. net # "bitcoin" => m = 0
  BY DEF Pending
<1> HIDE DEF n, m, page
<1>4. n > 0 => /\ m + n \in DOMAIN page /\ page[m + n] = chain[upto - n + 1]
               /\ upto - n + 1 \in DOMAIN chain
  <2> SUFFICES ASSUME n > 0
               PROVE  /\ m + n \in DOMAIN page /\ page[m + n] = chain[upto - n + 1]
                      /\ upto - n + 1 \in DOMAIN chain
    OBVIOUS
  <2>1. m + n \in (m + 1)..(m + n) /\ m + n - m = n /\ m + n \in 1..(m + n)
    BY <1>1, <1>2
  <2> QED BY <1>1, <2>1
<1>5. CASE net # "bitcoin"
  <2>1. NextCursor(page) = IF Len(page) = PAGE THEN Last(page).hash ELSE NoCursor
    BY <1>5 DEF NextCursor, SolanaCursor, TronCursor, PagedNetworks
  <2>2. Len(page) = n
    BY <1>1, <1>2, <1>3, <1>5
  <2>3. CASE n = PAGE
    <3>1. n > 0 /\ m + n = n
      BY <1>2, <1>3, <1>5, <2>3
    <3>2. Last(page) = chain[upto - n + 1]
      BY <1>4, <2>2, <3>1 DEF Last
    <3> QED BY <1>4, <2>1, <2>2, <2>3, <3>1, <3>2 DEF n, page
  <2>4. CASE n # PAGE
    BY <1>2, <2>1, <2>2, <2>4 DEF n, page
  <2> QED BY <2>3, <2>4
<1>6. CASE net = "bitcoin"
  <2>1. NextCursor(page) = BitcoinCursor(page)
    BY <1>6 DEF NextCursor
  <2>2. ConfirmedOf(page) = (m + 1)..(m + n)
    <3>1. ASSUME NEW i \in 1..m PROVE ~ Confirmed(page[i])
      <4> DEFINE at == m - i + 1
      <4>1. at \in DOMAIN mempool /\ page[i] = mempool[at]
        BY <1>1
      <4> HIDE DEF at
      <4> QED BY <4>1 DEF Confirmed, Hashes, Numbered
    <3>2. ASSUME NEW i \in (m + 1)..(m + n) PROVE Confirmed(page[i])
      BY <1>1 DEF Confirmed, Hashes
    <3>3. 1..(m + n) = (1..m) \cup ((m + 1)..(m + n))
      BY <1>1, <1>2
    <3>4. DOMAIN page = (1..m) \cup ((m + 1)..(m + n))
      BY <1>1, <3>3
    <3> QED BY <3>1, <3>2, <3>4 DEF ConfirmedOf
  <2>3. CASE n = 0
    <3>1. (m + 1)..(m + n) = {}
      BY <1>1, <2>3
    <3>2. BitcoinCursor(page) = NoCursor
      BY <2>2, <3>1 DEF BitcoinCursor
    <3> QED BY <1>2, <2>1, <2>3, <3>2 DEF n, page
  <2>4. CASE n > 0
    <3>1. Max((m + 1)..(m + n)) = m + n
      <4> DEFINE S == (m + 1)..(m + n)
      <4>1. m + n \in S /\ \A x \in S : m + n >= x /\ x \in Int
        <5>1. m \in Nat /\ n \in Nat /\ m + n >= m + 1
          BY <1>1, <1>2, <2>4
        <5> QED BY <5>1
      <4>2. ASSUME NEW x \in S, \A y \in S : x >= y PROVE x = m + n
        <5>1. x >= m + n /\ m + n >= x /\ x \in Int /\ m + n \in Int
          BY <4>1, <4>2
        <5> HIDE DEF S
        <5> QED BY <5>1
      <4>3. Max(S) = CHOOSE x \in S : \A y \in S : x >= y
        BY DEF Max
      <4>4. Max(S) = m + n
        <5> HIDE DEF S
        <5>1. \E x \in S : \A y \in S : x >= y
          BY <4>1
        <5>2. (CHOOSE x \in S : \A y \in S : x >= y) = m + n
          BY <4>2, <5>1
        <5> QED BY <4>3, <5>2
      <4> QED BY <4>4
    <3>2. ConfirmedOf(page) # {}
      <4>1. m \in Nat /\ n \in Nat
        BY <1>1, <1>2
      <4>2. m + n \in (m + 1)..(m + n)
        BY <2>4, <4>1
      <4> QED BY <2>2, <4>2
    <3>3. BitcoinCursor(page) = IF Len(page) >= PAGE THEN page[m + n].hash ELSE NoCursor
      BY <2>2, <3>1, <3>2 DEF BitcoinCursor
    <3>4. CASE Len(page) >= PAGE
      BY <1>4, <2>1, <2>4, <3>3, <3>4 DEF n, page
    <3>5. CASE ~ (Len(page) >= PAGE)
      <4>1. n < PAGE
        BY <1>1, <1>2, <3>5
      <4> QED BY <1>2, <2>1, <3>3, <3>5, <4>1 DEF n, page
    <3> QED BY <3>4, <3>5
  <2> QED BY <1>2, <2>3, <2>4
<1> QED BY <1>5, <1>6

-----------------------------------------------------------------------------
(* The steps.                                                               *)

LEMMA ReadingKept ==
  ASSUME NEW told, NEW old, NEW p, Reading(told, old, p),
         Count \in Nat, Count' \in Nat, Count <= Count',
         \A k \in 1..(p - 1) : chain'[k] = chain[k]
  PROVE  Reading(told, old, p)'
<1>1. 1..Count \subseteq 1..Count'
  OBVIOUS
<1>2. \A j \in DOMAIN told : told[j].hash \in 1..Count'
  BY <1>1 DEF Reading
<1> QED BY <1>2 DEF Reading

\* What the client has holds as long as the chain only grows.
LEMMA ClientKept ==
  ASSUME PagesInvariant, UNCHANGED <<net, client>>, IsList(chain)', IsList(mempool)', Numbered',
         Count <= Count', Len(chain) <= Len(chain'), \A k \in DOMAIN chain : chain'[k] = chain[k]
  PROVE  PagesInvariant'
<1>1. /\ Len(chain) \in Nat /\ DOMAIN chain = 1..Len(chain) /\ Len(mempool) \in Nat
      /\ Count \in Nat
  BY ListFacts DEF PagesInvariant, Count
<1>2. /\ Len(chain') \in Nat /\ DOMAIN chain' = 1..Len(chain') /\ Len(mempool') \in Nat
      /\ Count' \in Nat
  <2>1. \A s : IsList(s) => Len(s) \in Nat /\ DOMAIN s = 1..Len(s)
    BY ListFacts
  <2>2. IsList(chain') /\ IsList(mempool')
    OBVIOUS
  <2> QED BY <2>1, <2>2 DEF Count
<1>3. ASSUME client.at = "reads", client.limit = NoLimit
      PROVE  \E p \in DOMAIN chain' : /\ client.cursor = chain'[p].hash
                                       /\ Reading(client.told, client.old, p)'
  <2>1. PICK p \in DOMAIN chain : /\ client.cursor = chain[p].hash
                                   /\ Reading(client.told, client.old, p)
    BY <1>3 DEF PagesInvariant
  <2>2. p \in DOMAIN chain' /\ 1..(p - 1) \subseteq DOMAIN chain
    BY <1>1, <1>2
  <2>3. \A k \in 1..(p - 1) : chain'[k] = chain[k]
    BY <2>2
  <2>4. 1..Count \subseteq 1..Count'
    BY <1>1, <1>2
  <2>5. client' = client
    OBVIOUS
  <2>6. Reading(client.told, client.old, p)'
    <3>1. ASSUME NEW h \in client.old
          PROVE  \/ \E j \in DOMAIN client.told : client.told[j].hash = h
                 \/ \E k \in 1..(p - 1) : chain'[k].hash = h
      <4>1. CASE \E j \in DOMAIN client.told : client.told[j].hash = h
        BY <4>1
      <4>2. CASE \E k \in 1..(p - 1) : chain[k].hash = h
        BY <2>3, <4>2
      <4> QED BY <2>1, <3>1, <4>1, <4>2 DEF Reading
    <3>2. ASSUME NEW j \in DOMAIN client.told
          PROVE  /\ client.told[j].hash \in 1..Count'
                 /\ \A k \in 1..(p - 1) : client.told[j].hash # chain'[k].hash
      <4>1. /\ client.told[j].hash \in 1..Count
            /\ \A k \in 1..(p - 1) : client.told[j].hash # chain[k].hash
        BY <2>1 DEF Reading
      <4> QED BY <2>3, <2>4, <4>1
    <3>3. \A j, k \in DOMAIN client.told : client.told[j].hash = client.told[k].hash => j = k
      BY <2>1 DEF Reading
    <3> QED BY <2>5, <3>1, <3>2, <3>3 DEF Reading
  <2> QED BY <2>1, <2>2, <2>6
<1>4. ASSUME client.at = "done", client.limit = NoLimit
      PROVE  Reading(client.told, client.old, 1)'
  <2>1. Reading(client.told, client.old, 1)
    BY <1>4 DEF PagesInvariant
  <2>2. \A k \in 1..(1 - 1) : chain'[k] = chain[k]
    OBVIOUS
  <2>5. ASSUME NEW t, NEW o, Reading(t, o, 1) PROVE Reading(t, o, 1)'
    BY <1>1, <1>2, <2>2, <2>5, ReadingKept
  <2> DEFINE told == client.told
             old == client.old
  <2>3. told' = told /\ old' = old
    OBVIOUS
  <2>4. Reading(told, old, 1)
    BY <2>1
  <2>6. Reading(told, old, 1)'
    <3> HIDE DEF told, old
    <3> QED BY <2>3, <2>4, <2>5 DEF Reading
  <2> QED BY <2>6
<1> QED BY <1>3, <1>4 DEF PagesInvariant

\* A transaction appears.
LEMMA AppearsKeeps ==
  ASSUME PagesInvariant, NEW vin, NEW outs, Appears(vin, outs)
  PROVE  PagesInvariant'
<1> USE DEF PagesInvariant
<1>1. /\ Len(chain) \in Nat /\ DOMAIN chain = 1..Len(chain) /\ Len(mempool) \in Nat
      /\ DOMAIN mempool = 1..Len(mempool) /\ Count \in Nat
  BY ListFacts DEF Count
<1>2. Len(All) = Count
  BY ListsJoined DEF All, Count
<1>3. UNCHANGED <<net, chain, client>>
  BY DEF Appears
<1>4. PICK tx : mempool' = Append(mempool, tx) /\ tx.hash = Count + 1
  BY <1>2 DEF Appears
<1>5. /\ IsList(mempool') /\ Len(mempool') = Len(mempool) + 1
      /\ DOMAIN mempool' = 1..(Len(mempool) + 1)
      /\ \A k \in 1..Len(mempool) : mempool'[k] = mempool[k]
      /\ mempool'[Len(mempool) + 1] = tx
  BY <1>4, ListsAppend
<1>6. Count' = Count + 1
  BY <1>1, <1>3, <1>5 DEF Count
<1>7. ASSUME NEW k \in DOMAIN mempool'
      PROVE  \/ k \in DOMAIN mempool /\ mempool'[k] = mempool[k]
             \/ k = Len(mempool) + 1 /\ mempool'[k].hash = Count + 1
  <2>1. \A n \in 1..(Len(mempool) + 1) : n \in 1..Len(mempool) \/ n = Len(mempool) + 1
    BY <1>1
  <2>2. k \in 1..Len(mempool) \/ k = Len(mempool) + 1
    BY <1>5, <2>1
  <2>3. CASE k \in 1..Len(mempool)
    BY <1>1, <1>5, <2>3
  <2>4. CASE k = Len(mempool) + 1
    <3>1. mempool'[k] = tx
      BY <1>5, <2>4
    <3> QED BY <1>4, <2>4, <3>1
  <2> QED BY <2>2, <2>3, <2>4
<1>8. 1..Count \subseteq 1..(Count + 1) /\ Count + 1 \in 1..(Count + 1) /\ Count + 1 \notin 1..Count
  BY <1>1
<1>9. Numbered'
  BY <1>3, <1>6, <1>7, <1>8 DEF Numbered
<1>10. Count <= Count' /\ Len(chain) <= Len(chain') /\ IsList(chain)' /\ IsList(mempool)'
  BY <1>1, <1>3, <1>5, <1>6
<1> QED BY <1>3, <1>9, <1>10, ClientKept

\* A block takes a transaction.
LEMMA ConfirmsKeeps ==
  ASSUME PagesInvariant, Confirms
  PROVE  PagesInvariant'
<1> USE DEF PagesInvariant
<1>1. /\ Len(chain) \in Nat /\ DOMAIN chain = 1..Len(chain) /\ Len(mempool) \in Nat
      /\ DOMAIN mempool = 1..Len(mempool) /\ Count \in Nat
  BY ListFacts DEF Count
<1>2. PICK k \in DOMAIN mempool : /\ chain' = Append(chain, mempool[k])
                                   /\ mempool' = RemoveAt(mempool, k)
                                   /\ UNCHANGED <<net, client>>
  BY DEF Confirms
<1>3. /\ IsList(chain') /\ Len(chain') = Len(chain) + 1
      /\ DOMAIN chain' = 1..(Len(chain) + 1)
      /\ \A i \in 1..Len(chain) : chain'[i] = chain[i]
      /\ chain'[Len(chain) + 1] = mempool[k]
  BY <1>2, ListsAppend
<1>4. /\ IsList(mempool') /\ Len(mempool') = Len(mempool) - 1
      /\ \A i \in 1..(Len(mempool) - 1) : mempool'[i] = IF i < k THEN mempool[i] ELSE mempool[i + 1]
  BY <1>1, <1>2, OneRemoved
<1>5. Count' = Count
  BY <1>1, <1>3, <1>4 DEF Count
<1>6. ASSUME NEW i \in DOMAIN chain'
      PROVE  \/ i \in DOMAIN chain /\ chain'[i] = chain[i]
             \/ i = Len(chain) + 1 /\ chain'[i] = mempool[k]
  <2>1. \A n \in 1..(Len(chain) + 1) : n \in 1..Len(chain) \/ n = Len(chain) + 1
    BY <1>1
  <2>2. i \in 1..Len(chain) \/ i = Len(chain) + 1
    BY <1>3, <2>1
  <2>3. CASE i \in 1..Len(chain)
    BY <1>1, <1>3, <2>3
  <2>4. CASE i = Len(chain) + 1
    BY <1>3, <2>4
  <2> QED BY <2>2, <2>3, <2>4
<1> DEFINE from(i) == IF i < k THEN i ELSE i + 1
<1>7. \A i \in DOMAIN mempool' : /\ from(i) \in DOMAIN mempool /\ mempool'[i] = mempool[from(i)]
                                  /\ from(i) # k
  <2>1. DOMAIN mempool' = 1..(Len(mempool) - 1)
    BY <1>4, ListFacts
  <2> QED BY <1>1, <1>4, <2>1
<1>8. \A i, j \in DOMAIN mempool' : from(i) = from(j) => i = j
  <2>1. DOMAIN mempool' = 1..(Len(mempool) - 1)
    BY <1>4, ListFacts
  <2> QED BY <1>1, <2>1
<1> HIDE DEF from
<1>9. Numbered'
  <2>1. \A i \in DOMAIN chain' : chain'[i].hash \in 1..Count'
    BY <1>5, <1>6 DEF Numbered
  <2>2. \A i \in DOMAIN mempool' : mempool'[i].hash \in 1..Count'
    BY <1>5, <1>7 DEF Numbered
  <2>3. \A i, j \in DOMAIN chain' : chain'[i].hash = chain'[j].hash => i = j
    BY <1>6 DEF Numbered
  <2>4. \A i, j \in DOMAIN mempool' : mempool'[i].hash = mempool'[j].hash => i = j
    BY <1>7, <1>8 DEF Numbered
  <2>5. \A i \in DOMAIN chain', j \in DOMAIN mempool' : chain'[i].hash # mempool'[j].hash
    BY <1>6, <1>7 DEF Numbered
  <2> QED BY <2>1, <2>2, <2>3, <2>4, <2>5 DEF Numbered
<1>10. /\ Count <= Count' /\ Len(chain) <= Len(chain') /\ IsList(chain)' /\ IsList(mempool)'
       /\ \A i \in DOMAIN chain : chain'[i] = chain[i]
  BY <1>1, <1>3, <1>4, <1>5
<1> QED BY <1>2, <1>9, <1>10, ClientKept

\* A page without a limit goes on with what was told.
LEMMA WholePage ==
  ASSUME PagesAssumption, net \in PagedNetworks, IsList(chain), IsList(mempool), Numbered,
         NEW cursor, NEW upto \in 0..Len(chain), Left(cursor, upto),
         NEW told, IsList(told), NEW old, Before(told, old, upto, Pending(cursor)),
         cursor = NoCursor => told = <<>>
  PROVE  LET page == HistoryPage(cursor, NoLimit)
         IN  /\ IsList(told \o page.items)
             /\ \/ page.next = NoCursor /\ Reading(told \o page.items, old, 1)
                \/ /\ page.next # NoCursor
                   /\ \E p \in DOMAIN chain : /\ page.next = chain[p].hash
                                               /\ Reading(told \o page.items, old, p)
<1> DEFINE n == Size(upto)
           m == Pending(cursor)
           page == Page(cursor)
           items == [k \in DOMAIN page |-> RecordToItem(Record(page[k]), 1)]
           next == NextCursor(page)
<1>1. /\ n \in 0..upto /\ m \in {0, Len(mempool)} /\ m \in Nat
      /\ IsList(page) /\ Len(page) = m + n /\ DOMAIN page = 1..(m + n)
      /\ \A i \in 1..m : m - i + 1 \in DOMAIN mempool /\ page[i] = mempool[m - i + 1]
      /\ \A i \in (m + 1)..(m + n) :
           upto - (i - m) + 1 \in DOMAIN chain /\ page[i] = chain[upto - (i - m) + 1]
  BY PageForm
<1>2. HistoryPage(cursor, NoLimit) = [items |-> items, next |-> next]
  BY DEF HistoryPage
<1>3. \/ next = NoCursor /\ n = upto
      \/ upto - n + 1 \in DOMAIN chain /\ next = chain[upto - n + 1].hash
  BY CursorForm
<1>4. m > 0 => cursor = NoCursor
  BY DEF Pending
<1> HIDE DEF n, m, page, next
<1>5. upto \in Nat /\ n \in Nat /\ m + n \in Nat
  BY <1>1, ListFacts
<1>6. items \in [1..(m + n) -> {RecordToItem(Record(page[k]), 1) : k \in 1..(m + n)}]
  BY <1>1
<1>7. IsList(items) /\ Len(items) = m + n /\ DOMAIN items = 1..(m + n)
  <2> DEFINE its == {RecordToItem(Record(page[k]), 1) : k \in 1..(m + n)}
  <2> HIDE DEF items, its
  <2>1. items \in [1..(m + n) -> its]
    BY <1>6 DEF its
  <2>2. items \in Seq(its) /\ Len(items) = m + n /\ DOMAIN items = 1..(m + n)
    BY <1>5, <2>1
  <2> QED BY <2>2 DEF IsList
<1>8. \A k \in 1..(m + n) : items[k].hash = page[k].hash
  BY <1>1, ItemHash
<1> HIDE DEF items
<1>9. PageOf(items, upto, n, m)
  <2>1. \A i \in 1..m : i \in 1..(m + n)
    BY <1>1, <1>5
  <2>2. \A i \in (m + 1)..(m + n) : i \in 1..(m + n)
    BY <1>1, <1>5
  <2> QED BY <1>1, <1>7, <1>8, <2>1, <2>2 DEF PageOf
<1>10. Sizes(told, upto, n, m)
  <2>1. m > 0 => Len(told) = 0
    BY <1>4
  <2> QED BY <1>1, <2>1 DEF Sizes
<1>11. Before(told, old, upto, m)
  BY DEF m
<1>12. Reading(told \o items, old, upto - n + 1)
  BY <1>7, <1>9, <1>10, <1>11, PageAdds
<1>13. IsList(told \o items)
  BY <1>7, ListsJoined
<1>14. next = NoCursor \/ (next # NoCursor /\ upto - n + 1 \in DOMAIN chain
                           /\ next = chain[upto - n + 1].hash)
  BY <1>3
<1>15. next = NoCursor => upto - n + 1 = 1
  <2> SUFFICES ASSUME next = NoCursor, upto - n + 1 \in DOMAIN chain, next = chain[upto - n + 1].hash
               PROVE  FALSE
    BY <1>3, <1>5
  <2>1. chain[upto - n + 1].hash \in 1..Count
    BY DEF Numbered
  <2>2. chain[upto - n + 1].hash \in Nat
    BY <2>1, ListFacts DEF Count
  <2> QED BY <2>2 DEF PagesAssumption
<1> DEFINE both == told \o items
<1> HIDE DEF both
<1>16. /\ IsList(both)
       /\ \/ next = NoCursor /\ Reading(both, old, 1)
          \/ /\ next # NoCursor
             /\ \E p \in DOMAIN chain : next = chain[p].hash /\ Reading(both, old, p)
  BY <1>12, <1>13, <1>14, <1>15 DEF both
<1> QED BY <1>2, <1>16 DEF both

\* What there is before the first page.
LEMMA FirstPage ==
  ASSUME net \in PagedNetworks, IsList(chain), IsList(mempool)
  PROVE  Before(<<>>, Visible, Len(chain), Pending(NoCursor))
<1>1. DOMAIN <<>> = {}
  OBVIOUS
<1>2. Len(chain) \in Nat /\ DOMAIN chain = 1..Len(chain)
  BY ListFacts
<1>3. ASSUME NEW h \in Visible
      PROVE  \/ \E k \in 1..Len(chain) : chain[k].hash = h
             \/ Pending(NoCursor) = Len(mempool) /\ \E k \in DOMAIN mempool : mempool[k].hash = h
  <2>1. CASE net # "bitcoin"
    BY <1>2, <1>3, <2>1 DEF Visible, Hashes
  <2>2. CASE net = "bitcoin"
    <3>1. PICK i \in DOMAIN All : All[i].hash = h
      BY <1>3, <2>2 DEF Visible, Hashes
    <3>2. /\ i \in 1..(Len(chain) + Len(mempool))
          /\ All[i] = IF i <= Len(chain) THEN chain[i] ELSE mempool[i - Len(chain)]
      BY <3>1, ListsJoined DEF All
    <3>3. i \in 1..Len(chain) \/ (~ (i <= Len(chain)) /\ i - Len(chain) \in DOMAIN mempool)
      BY <1>2, <3>2, ListFacts
    <3>4. i \in 1..Len(chain) => i <= Len(chain)
      BY <1>2
    <3>5. Pending(NoCursor) = Len(mempool)
      BY <2>2 DEF Pending
    <3> QED BY <3>1, <3>2, <3>3, <3>4, <3>5
  <2> QED BY <2>1, <2>2
<1> QED BY <1>1, <1>3 DEF Before

LEMMA TakesKeeps ==
  ASSUME PagesAssumption, PagesInvariant, NEW limit, Takes(limit),
         client.at = "away" \/ (client.at = "reads" /\ limit = client.limit),
         UNCHANGED <<net, chain, mempool>>
  PROVE  PagesInvariant'
<1> DEFINE page == HistoryPage(client.cursor, limit)
           old == IF client.at = "away" THEN Visible ELSE client.old
           both == client.told \o page.items
<1>1. client' = [at |-> IF page.next = NoCursor THEN "done" ELSE "reads", limit |-> limit,
                 cursor |-> page.next, told |-> both, old |-> old]
  BY DEF Takes, PagesInvariant
<1>2. IsList(chain)' /\ IsList(mempool)' /\ Numbered' /\ (net \in PagedNetworks)'
  BY DEF PagesInvariant, Numbered, Count, PagedNetworks
<1>3. client'.at # "away"
  BY <1>1
<1>4. CASE limit # NoLimit
  <2>1. client'.limit # NoLimit
    BY <1>1, <1>4
  <2>2. client' = [at |-> client'.at, limit |-> client'.limit, cursor |-> client'.cursor,
                   told |-> client'.told, old |-> client'.old]
    BY <1>1
  <2> QED BY <1>2, <1>3, <2>1, <2>2 DEF PagesInvariant
<1>5. CASE limit = NoLimit
  <2>1. PICK upto \in 0..Len(chain) :
           /\ Left(client.cursor, upto) /\ IsList(client.told)
           /\ Before(client.told, old, upto, Pending(client.cursor))
           /\ client.cursor = NoCursor => client.told = <<>>
    <3>1. CASE client.at = "away"
      <4>1. client.cursor = NoCursor /\ client.told = <<>> /\ old = Visible
        BY <3>1 DEF PagesInvariant
      <4>2. IsList(<<>>)
        BY DEF IsList
      <4>3. Len(chain) \in 0..Len(chain) /\ Left(NoCursor, Len(chain))
        BY ListFacts DEF PagesInvariant, Left
      <4>4. Before(<<>>, Visible, Len(chain), Pending(NoCursor))
        BY FirstPage DEF PagesInvariant
      <4> HIDE DEF old
      <4> QED BY <4>1, <4>2, <4>3, <4>4
    <3>2. CASE client.at = "reads" /\ limit = client.limit
      <4>1. PICK p \in DOMAIN chain : /\ client.cursor = chain[p].hash
                                       /\ Reading(client.told, client.old, p)
        BY <1>5, <3>2 DEF PagesInvariant
      <4>2. /\ Len(chain) \in Nat /\ DOMAIN chain = 1..Len(chain) /\ Len(mempool) \in Nat
            /\ chain[p].hash \in 1..Count
        BY ListFacts DEF PagesInvariant, Numbered
      <4>3. client.cursor # NoCursor
        <5>1. client.cursor \in Nat
          BY <4>1, <4>2 DEF Count
        <5> QED BY <5>1 DEF PagesAssumption
      <4>4. p - 1 \in 0..Len(chain) /\ p - 1 + 1 = p
        BY <4>2
      <4>5. Left(client.cursor, p - 1)
        BY <4>1, <4>4 DEF Left
      <4>6. old = client.old
        BY <3>2
      <4>7. Before(client.told, client.old, p - 1, Pending(client.cursor))
        BY <4>1 DEF Before, Reading
      <4>8. IsList(client.told)
        BY <1>5, <3>2 DEF PagesInvariant
      <4> HIDE DEF old
      <4> QED BY <4>3, <4>4, <4>5, <4>6, <4>7, <4>8
    <3> QED BY <3>1, <3>2
  <2>2. /\ IsList(both)
        /\ \/ page.next = NoCursor /\ Reading(both, old, 1)
           \/ /\ page.next # NoCursor
              /\ \E p \in DOMAIN chain : page.next = chain[p].hash /\ Reading(both, old, p)
    <3> HIDE DEF old
    <3> QED BY <1>5, <2>1, WholePage DEF PagesInvariant
  <2> HIDE DEF page, old, both
  <2>3. \A p : Reading(both, old, p) => Reading(client.told, client.old, p)'
    <3>1. client'.told = both /\ client'.old = old /\ chain' = chain /\ Count' = Count
      BY <1>1 DEF Count
    <3> QED BY <3>1 DEF Reading
  <2>4. IsList(client.told)'
    BY <1>1, <2>2
  <2>5. client' = [at |-> client'.at, limit |-> client'.limit, cursor |-> client'.cursor,
                   told |-> client'.told, old |-> client'.old]
    BY <1>1
  <2>6. CASE page.next = NoCursor
    <3>1. client'.at = "done" /\ Reading(client.told, client.old, 1)'
      BY <1>1, <2>2, <2>3, <2>6
    <3> QED BY <1>2, <2>4, <2>5, <3>1 DEF PagesInvariant
  <2>7. CASE page.next # NoCursor
    <3>1. client'.at = "reads" /\ client'.cursor = page.next
      BY <1>1, <2>7
    <3>2. PICK p \in DOMAIN chain : page.next = chain[p].hash /\ Reading(both, old, p)
      BY <2>2, <2>7
    <3>3. p \in DOMAIN chain' /\ client'.cursor = chain'[p].hash /\ Reading(client.told, client.old, p)'
      BY <2>3, <3>1, <3>2
    <3> QED BY <1>2, <2>4, <2>5, <3>1, <3>3 DEF PagesInvariant
  <2> QED BY <2>6, <2>7
<1> QED BY <1>4, <1>5

LEMMA NextPages ==
  ASSUME PagesAssumption, PagesInvariant, [PagesNext]_pagesVars
  PROVE  PagesInvariant'
<1>1. CASE IsPaid
  BY <1>1, AppearsKeeps DEF IsPaid
<1>2. CASE Pays
  BY <1>2, AppearsKeeps DEF Pays
<1>3. CASE Confirms
  BY <1>3, ConfirmsKeeps
<1>4. CASE Begins
  BY <1>4, TakesKeeps DEF Begins
<1>5. CASE Continues
  BY <1>5, TakesKeeps DEF Continues
<1>6. CASE UNCHANGED pagesVars
  BY <1>6 DEF pagesVars, PagesInvariant, Numbered, Reading, Count
<1> QED BY <1>1, <1>2, <1>3, <1>4, <1>5, <1>6 DEF PagesNext

\* The inductive invariant of a client that follows the pages: the confirmed
\* transactions before its cursor are those it was not told of yet.
THEOREM AlwaysPagesInvariant == PagesSpec => []PagesInvariant
<1>1. PagesInit => PagesInvariant
  <2> SUFFICES ASSUME PagesInit PROVE PagesInvariant
    OBVIOUS
  <2>1. IsList(<<>>) /\ DOMAIN <<>> = {}
    BY DEF IsList
  <2> QED BY <2>1 DEF PagesInit, PagesInvariant, Away, Numbered
<1>2. PagesInvariant /\ [PagesNext]_pagesVars => PagesInvariant'
  BY PagesAssumption, NextPages
<1> QED BY <1>1, <1>2, PTL DEF PagesSpec

\* A client that follows next_cursor without a limit is told every transaction
\* there was when it began, each of them once, for every size of a page and any
\* number of payments and blocks meanwhile.
THEOREM PagesMissNone == PagesSpec => []PagesMissNothing
<1>1. PagesInvariant => PagesMissNothing
  <2>1. 1..(1 - 1) = {}
    OBVIOUS
  <2> QED BY <2>1 DEF PagesInvariant, PagesMissNothing, Reading, Hashes
<1> QED BY <1>1, AlwaysPagesInvariant, PTL

-----------------------------------------------------------------------------
(* The balance of a Bitcoin address.                                        *)

Txs == ToSet(chain) \cup ToSet(mempool)

\* Entries of a transaction: finitely many, each with its value.
Entries(puts) ==
    /\ DOMAIN puts \subseteq Nat /\ IsFiniteSet(DOMAIN puts)
    /\ \A k \in DOMAIN puts : puts[k].value \in Nat

\* The entries of every transaction; what the owner spends is an output of a
\* transaction, and is spent once.
EntriesOK(txs) ==
    \A tx \in txs : /\ Entries(tx.vin) /\ Entries(tx.vout)
                    /\ \A k \in DOMAIN tx.vout : tx.vout[k].id = <<tx.hash, k>>

SpentOnce(txs) ==
    /\ \A tx \in txs : \A i \in Owned(tx.vin) :
         \E ty \in txs : \E k \in DOMAIN ty.vout : tx.vin[i] = ty.vout[k]
    /\ \A tx, ty \in txs : \A i \in Owned(tx.vin), j \in Owned(ty.vin) :
         tx.vin[i].id = ty.vin[j].id => tx = ty /\ i = j

PaymentsInvariant == EntriesOK(Txs) /\ SpentOnce(Txs)

LEMMA MinIn ==
  ASSUME NEW S, S \subseteq Nat, S # {}
  PROVE  Min(S) \in S
<1>1. \E m \in S : \A n \in S : m <= n
  BY Least
<1> QED BY <1>1 DEF Min

LEMMA AllTxs ==
  ASSUME IsList(chain), IsList(mempool)
  PROVE  ToSet(All) = Txs /\ Len(All) = Count
<1>1. /\ Len(chain) \in Nat /\ DOMAIN chain = 1..Len(chain)
      /\ Len(mempool) \in Nat /\ DOMAIN mempool = 1..Len(mempool)
  BY ListFacts
<1>2. /\ Len(All) = Count /\ DOMAIN All = 1..Count
      /\ \A i \in 1..Count : All[i] = IF i <= Len(chain) THEN chain[i] ELSE mempool[i - Len(chain)]
  BY ListsJoined DEF All, Count
<1>3. ToSet(All) \subseteq Txs
  <2> SUFFICES ASSUME NEW i \in 1..Count PROVE All[i] \in Txs
    BY <1>2 DEF ToSet
  <2>1. CASE i <= Len(chain)
    <3>1. i \in DOMAIN chain /\ All[i] = chain[i]
      BY <1>1, <1>2, <2>1 DEF Count
    <3> QED BY <3>1 DEF Txs, ToSet
  <2>2. CASE ~ (i <= Len(chain))
    <3>1. i - Len(chain) \in DOMAIN mempool /\ All[i] = mempool[i - Len(chain)]
      BY <1>1, <1>2, <2>2 DEF Count
    <3> QED BY <3>1 DEF Txs, ToSet
  <2> QED BY <2>1, <2>2
<1>4. ASSUME NEW tx \in ToSet(chain) PROVE tx \in ToSet(All)
  <2>1. PICK k \in 1..Len(chain) : tx = chain[k]
    BY <1>1 DEF ToSet
  <2>2. k \in 1..Count /\ k <= Len(chain)
    BY <1>1 DEF Count
  <2> QED BY <1>2, <2>1, <2>2 DEF ToSet
<1>5. ASSUME NEW tx \in ToSet(mempool) PROVE tx \in ToSet(All)
  <2>1. PICK k \in 1..Len(mempool) : tx = mempool[k]
    BY <1>1 DEF ToSet
  <2> DEFINE i == Len(chain) + k
  <2>2. i \in 1..Count /\ ~ (i <= Len(chain)) /\ i - Len(chain) = k
    BY <1>1 DEF Count
  <2> HIDE DEF i
  <2>3. All[i] = mempool[k]
    BY <1>2, <2>2
  <2> QED BY <1>2, <2>1, <2>2, <2>3 DEF ToSet
<1> QED BY <1>2, <1>3, <1>4, <1>5 DEF Txs

LEMMA TxsNumbered ==
  ASSUME Numbered, NEW tx \in Txs
  PROVE  tx.hash \in 1..Count /\ \A ty \in Txs : tx.hash = ty.hash => tx = ty
<1>1. ASSUME NEW x \in Txs
      PROVE  \/ \E k \in DOMAIN chain : x = chain[k]
             \/ \E k \in DOMAIN mempool : x = mempool[k]
  BY DEF Txs, ToSet
<1> QED BY <1>1 DEF Numbered

\* A transaction appears that spends what is unspent.
LEMMA PaymentsMore ==
  ASSUME PagesInvariant, PaymentsInvariant, NEW vin, NEW outs, Appears(vin, outs),
         Entries(vin), Entries(outs),
         \A i \in Owned(vin) : vin[i] \in Unspent,
         \A i, j \in Owned(vin) : i = j
  PROVE  PaymentsInvariant'
<1>1. IsList(chain) /\ IsList(mempool) /\ Numbered
  BY DEF PagesInvariant
<1> DEFINE h == Count + 1
           vout == [k \in DOMAIN outs |->
                      [addr |-> outs[k].addr, value |-> outs[k].value, id |-> <<h, k>>]]
           new == [hash |-> h, at |-> h, vin |-> vin, fee |-> SumOf(vin) - SumOf(outs), vout |-> vout]
<1>2. ToSet(All) = Txs /\ Len(All) + 1 = h
  BY <1>1, AllTxs
<1>3. mempool' = Append(mempool, new) /\ UNCHANGED chain
  BY <1>2 DEF Appears
<1>4. new.hash = h /\ new.vin = vin /\ new.vout = vout
  OBVIOUS
<1>5. Entries(vout) /\ \A k \in DOMAIN vout : vout[k].id = <<h, k>>
  BY DEF Entries
<1> HIDE DEF new, vout
<1>6. Txs' = Txs \cup {new}
  <2>1. ToSet(mempool') = ToSet(mempool) \cup {new}
    BY <1>1, <1>3, OneMore
  <2> QED BY <1>3, <2>1 DEF Txs
<1>7. EntriesOK(Txs')
  BY <1>4, <1>5, <1>6 DEF PaymentsInvariant, EntriesOK
<1>8. ASSUME NEW i \in Owned(vin)
      PROVE  /\ \E ty \in Txs : \E k \in DOMAIN ty.vout : vin[i] = ty.vout[k]
             /\ \A ty \in Txs : \A j \in DOMAIN ty.vin : ty.vin[j].id # vin[i].id
  <2>1. vin[i] \in Unspent
    OBVIOUS
  <2>2. PICK ty \in Txs : vin[i] \in ToSet(ty.vout)
    BY <1>2, <2>1 DEF Unspent
  <2>3. vin[i].id \notin UNION {{put.id : put \in ToSet(tx.vin)} : tx \in Txs}
    BY <1>2, <2>1 DEF Unspent, Spent
  <2>4. ASSUME NEW tx \in Txs, NEW j \in DOMAIN tx.vin PROVE tx.vin[j].id # vin[i].id
    <3>1. tx.vin[j] \in ToSet(tx.vin)
      BY DEF ToSet
    <3> QED BY <2>3, <3>1
  <2>5. \E k \in DOMAIN ty.vout : vin[i] = ty.vout[k]
    BY <2>2 DEF ToSet
  <2> QED BY <2>4, <2>5
<1>9. SpentOnce(Txs')
  <2>1. ASSUME NEW tx \in Txs \cup {new}, NEW i \in Owned(tx.vin)
        PROVE  \E ty \in Txs \cup {new} : \E k \in DOMAIN ty.vout : tx.vin[i] = ty.vout[k]
    BY <1>4, <1>8 DEF PaymentsInvariant, SpentOnce
  <2>2. ASSUME NEW tx \in Txs \cup {new}, NEW ty \in Txs \cup {new},
               NEW i \in Owned(tx.vin), NEW j \in Owned(ty.vin), tx.vin[i].id = ty.vin[j].id
        PROVE  tx = ty /\ i = j
    <3>1. i \in DOMAIN tx.vin /\ j \in DOMAIN ty.vin
      BY DEF Owned
    <3>2. CASE tx = new /\ ty = new
      BY <1>4, <3>2
    <3>3. CASE tx = new /\ ty \in Txs
      BY <1>4, <1>8, <2>2, <3>1, <3>3
    <3>4. CASE tx \in Txs /\ ty = new
      BY <1>4, <1>8, <2>2, <3>1, <3>4
    <3>5. CASE tx \in Txs /\ ty \in Txs
      BY <2>2, <3>5 DEF PaymentsInvariant, SpentOnce
    <3> QED BY <3>2, <3>3, <3>4, <3>5
  <2> QED BY <1>6, <2>1, <2>2 DEF SpentOnce
<1> QED BY <1>7, <1>9 DEF PaymentsInvariant

\* A block takes a transaction, and there are those there were.
LEMMA ConfirmedStay ==
  ASSUME PagesInvariant, Confirms
  PROVE  Txs' = Txs
<1>1. PICK k \in DOMAIN mempool : /\ chain' = Append(chain, mempool[k])
                                   /\ mempool' = RemoveAt(mempool, k)
  BY DEF Confirms
<1>2. IsList(chain) /\ IsList(mempool)
  BY DEF PagesInvariant
<1>3. Len(mempool) \in Nat /\ DOMAIN mempool = 1..Len(mempool) /\ k \in 1..Len(mempool)
  BY <1>2, ListFacts
<1>4. /\ IsList(mempool') /\ Len(mempool') = Len(mempool) - 1
      /\ \A i \in 1..(Len(mempool) - 1) : mempool'[i] = IF i < k THEN mempool[i] ELSE mempool[i + 1]
  BY <1>1, <1>2, <1>3, OneRemoved
<1>5. DOMAIN mempool' = 1..(Len(mempool) - 1)
  BY <1>4, ListFacts
<1>6. ToSet(chain') = ToSet(chain) \cup {mempool[k]}
  BY <1>1, <1>2, OneMore
<1>7. ToSet(mempool') \subseteq ToSet(mempool)
  <2> SUFFICES ASSUME NEW i \in DOMAIN mempool' PROVE mempool'[i] \in ToSet(mempool)
    BY DEF ToSet
  <2>1. i \in 1..(Len(mempool) - 1) /\ i \in DOMAIN mempool /\ i + 1 \in DOMAIN mempool
    BY <1>3, <1>5
  <2> QED BY <1>4, <2>1 DEF ToSet
<1>8. ToSet(mempool) \subseteq ToSet(mempool') \cup {mempool[k]}
  <2> SUFFICES ASSUME NEW i \in 1..Len(mempool), i # k PROVE mempool[i] \in ToSet(mempool')
    BY <1>3 DEF ToSet
  <2>1. CASE i < k
    <3>1. i \in 1..(Len(mempool) - 1)
      BY <1>3, <2>1
    <3>2. mempool'[i] = mempool[i]
      BY <1>4, <2>1, <3>1
    <3> QED BY <1>5, <3>1, <3>2 DEF ToSet
  <2>2. CASE k < i
    <3>1. i - 1 \in 1..(Len(mempool) - 1) /\ ~ (i - 1 < k) /\ (i - 1) + 1 = i
      BY <1>3, <2>2
    <3>2. mempool'[i - 1] = mempool[i]
      BY <1>4, <3>1
    <3> QED BY <1>5, <3>1, <3>2 DEF ToSet
  <2> QED BY <1>3, <2>1, <2>2
<1>9. mempool[k] \in ToSet(mempool)
  BY DEF ToSet
<1> QED BY <1>6, <1>7, <1>8, <1>9 DEF Txs

LEMMA UpToFinite ==
  ASSUME NEW n \in Int
  PROVE  IsFiniteSet(1..n)
<1>1. 1 \in Int
  OBVIOUS
<1> QED BY <1>1, FS_Interval

LEMMA OneEntry ==
  ASSUME NEW put, put.value \in Nat
  PROVE  Entries(<<put>>)
<1>1. IsFiniteSet(1..1)
  BY 1 \in Int, UpToFinite, Zenon
<1> QED BY <1>1 DEF Entries

LEMMA TwoEntries ==
  ASSUME NEW a, NEW b, a.value \in Nat, b.value \in Nat
  PROVE  Entries(<<a, b>>)
<1>1. IsFiniteSet(1..2)
  BY 2 \in Int, UpToFinite, Zenon
<1>2. \A k \in 1..2 : k = 1 \/ k = 2
  OBVIOUS
<1> QED BY <1>1, <1>2 DEF Entries

LEMMA NextPayments ==
  ASSUME PagesAssumption, PagesInvariant, PaymentsInvariant, [PagesNext]_pagesVars
  PROVE  PaymentsInvariant'
<1>1. CASE IsPaid
  <2> DEFINE vin == <<[addr |-> Other, value |-> 4, id |-> <<0, Len(All)>>]>>
             outs == <<Put(Owner, 2), Put(Other, 1)>>
  <2>1. Appears(vin, outs)
    BY <1>1 DEF IsPaid
  <2>2. Entries(vin) /\ Owned(vin) = {}
    <3>1. DOMAIN vin = 1..1 /\ vin[1].value = 4 /\ vin[1].addr = Other
      OBVIOUS
    <3>2. IsFiniteSet(1..1)
      BY 1 \in Int, UpToFinite, Zenon
    <3> HIDE DEF vin
    <3> QED BY <3>1, <3>2 DEF Entries, Owned, PagesAssumption
  <2>3. Entries(outs)
    BY TwoEntries DEF Put
  <2> QED BY <2>1, <2>2, <2>3, PaymentsMore
<1>2. CASE Pays
  <2>1. PICK put \in Unspent :
          \/ put.value > 1 /\ Appears(<<put>>, <<Put(Other, 1)>>)
          \/ put.value > 1 /\ Appears(<<put>>, <<Put(Owner, put.value - 1)>>)
          \/ Appears(<<put, [addr |-> Other, value |-> 3, id |-> <<0, Len(All)>>]>>,
                     <<Put(Other, 1), Put(Owner, 2)>>)
    BY <1>2 DEF Pays
  <2>2. put.value \in Nat /\ put.addr = Owner
    <3>1. IsList(chain) /\ IsList(mempool)
      BY DEF PagesInvariant
    <3>2. PICK tx \in Txs : put \in ToSet(tx.vout)
      BY <3>1, AllTxs DEF Unspent
    <3> QED BY <3>2 DEF PaymentsInvariant, EntriesOK, Entries, ToSet, Unspent
  <2>3. Entries(<<put>>) /\ Owned(<<put>>) = {1}
    <3>1. IsFiniteSet(1..1)
      BY 1 \in Int, UpToFinite, Zenon
    <3> QED BY <2>2, <3>1 DEF Entries, Owned
  <2>4. CASE put.value > 1 /\ Appears(<<put>>, <<Put(Other, 1)>>)
    <3>1. Entries(<<Put(Other, 1)>>)
      BY OneEntry DEF Put
    <3> QED BY <2>3, <2>4, <3>1, PaymentsMore
  <2>5. CASE put.value > 1 /\ Appears(<<put>>, <<Put(Owner, put.value - 1)>>)
    <3>1. put.value - 1 \in Nat
      BY <2>2, <2>5
    <3>2. Entries(<<Put(Owner, put.value - 1)>>)
      BY <3>1, OneEntry DEF Put
    <3> QED BY <2>3, <2>5, <3>2, PaymentsMore
  <2>6. CASE Appears(<<put, [addr |-> Other, value |-> 3, id |-> <<0, Len(All)>>]>>,
                     <<Put(Other, 1), Put(Owner, 2)>>)
    <3> DEFINE other == [addr |-> Other, value |-> 3, id |-> <<0, Len(All)>>]
               vin == <<put, other>>
    <3>1. Entries(<<Put(Other, 1), Put(Owner, 2)>>)
      BY TwoEntries DEF Put
    <3>2. other.addr = Other /\ other.value = 3
      OBVIOUS
    <3> HIDE DEF other
    <3>3. Entries(vin)
      BY <2>2, <3>2, TwoEntries
    <3>4. \A i \in Owned(vin) : i = 1 /\ vin[i] = put
      BY <3>2 DEF Owned, PagesAssumption
    <3>5. Appears(vin, <<Put(Other, 1), Put(Owner, 2)>>)
      BY <2>6 DEF other
    <3> HIDE DEF vin
    <3> QED BY <3>1, <3>3, <3>4, <3>5, PaymentsMore
  <2> QED BY <2>1, <2>4, <2>5, <2>6
<1>3. CASE Confirms
  BY <1>3, ConfirmedStay DEF PaymentsInvariant
<1>4. CASE Begins \/ Continues \/ UNCHANGED pagesVars
  <2>1. UNCHANGED <<chain, mempool>>
    BY <1>4 DEF Begins, Continues, pagesVars
  <2>2. Txs' = Txs
    BY <2>1 DEF Txs
  <2> QED BY <2>2 DEF PaymentsInvariant
<1> QED BY <1>1, <1>2, <1>3, <1>4 DEF PagesNext

LEMMA AlwaysPayments == PagesSpec => [](PagesInvariant /\ PaymentsInvariant)
<1>1. PagesInit => PaymentsInvariant
  <2> SUFFICES ASSUME PagesInit PROVE Txs = {}
    BY DEF PaymentsInvariant, EntriesOK, SpentOnce
  <2> QED BY DEF PagesInit, Txs, ToSet
<1>2. PagesInvariant /\ PaymentsInvariant /\ [PagesNext]_pagesVars => PaymentsInvariant'
  BY PagesAssumption, NextPayments
<1> QED BY <1>1, <1>2, AlwaysPagesInvariant, PTL DEF PagesSpec

\* What a record of the Bitcoin adapter tells is the net of its transaction.
LEMMA FlowIsNet ==
  ASSUME net = "bitcoin", NEW tx, Entries(tx.vin), Entries(tx.vout),
         SumOwned(tx.vin) \in Nat, SumOwned(tx.vout) \in Nat
  PROVE  LET i == RecordToItem(Record(tx), 1)
         IN  \/ i.direction = "in" /\ i.amount = Net(tx)
             \/ i.direction = "out" /\ - i.amount = Net(tx)
<1> DEFINE r == Record(tx)
           i == RecordToItem(r, 1)
<1>1. Net(tx) \in Int
  BY DEF Net
<1>2. ASSUME NEW puts, Entries(puts) PROVE FirstForeign(puts) # Owner
  <2> DEFINE foreign == DOMAIN puts \ Owned(puts)
  <2>1. CASE foreign = {}
    BY <2>1, ItemsAssumption DEF FirstForeign
  <2>2. CASE foreign # {}
    <3>1. foreign \subseteq Nat
      BY <1>2 DEF Entries
    <3>2. Min(foreign) \in foreign
      BY <2>2, <3>1, MinIn
    <3>3. puts[Min(foreign)].addr # Owner
      BY <3>2 DEF Owned
    <3> QED BY <2>2, <3>3 DEF FirstForeign, FirstAt
  <2> QED BY <2>1, <2>2
<1>3. /\ r.from = IF Net(tx) < 0 THEN Owner ELSE FirstForeign(tx.vin)
      /\ r.to   = IF Net(tx) < 0 THEN FirstForeign(tx.vout) ELSE Owner
      /\ r.amount = IF Net(tx) < 0 THEN - Net(tx) ELSE Net(tx)
  BY DEF Record, BitcoinRecord
<1>4. i.direction = RecordDirection(r) /\ i.amount = IF r.amount < 0 THEN 0 ELSE r.amount
  BY DEF RecordToItem
<1> HIDE DEF i, r
<1>5. CASE Net(tx) < 0
  <2>1. RecordDirection(r) = "out" /\ r.amount = - Net(tx)
    BY <1>2, <1>3, <1>5 DEF RecordDirection
  <2>2. i.amount = - Net(tx)
    BY <1>1, <1>4, <1>5, <2>1
  <2> QED BY <1>1, <1>4, <2>1, <2>2 DEF i, r
<1>6. CASE ~ (Net(tx) < 0)
  <2>1. RecordDirection(r) = "in" /\ r.amount = Net(tx)
    BY <1>2, <1>3, <1>6 DEF RecordDirection
  <2>2. i.amount = Net(tx)
    BY <1>1, <1>4, <1>6, <2>1
  <2> QED BY <1>4, <2>1, <2>2 DEF i, r
<1> QED BY <1>5, <1>6

\* One side of some transactions: no entry of the owner's is there twice; puts are
\* these entries, sums what they amount to by transaction.
Sides(txs, side, puts, worth, sums) ==
  /\ IsFiniteSet(txs)
  /\ \A tx \in txs : Entries(side[tx]) /\ sums[tx] = SumOwned(side[tx])
  /\ \A tx, ty \in txs : \A i \in Owned(side[tx]), j \in Owned(side[ty]) :
       side[tx][i] = side[ty][j] => tx = ty /\ i = j
  /\ \A put : put \in puts <=> \E tx \in txs : \E i \in Owned(side[tx]) : put = side[tx][i]
  /\ \A put \in puts : worth[put] = put.value

\* What is the owner's adds up, entry by entry.
LEMMA SidesAdd ==
  ASSUME NEW txs, NEW side, NEW puts, NEW worth, NEW sums, Sides(txs, side, puts, worth, sums)
  PROVE  /\ IsFiniteSet(puts) /\ \A put \in puts : put.value \in Nat
         /\ \A tx \in txs : SumOwned(side[tx]) \in Nat
         /\ SumFunctionOnSet(sums, txs) = SumFunctionOnSet(worth, puts)
<1> USE DEF Sides
<1> DEFINE of == [tx \in txs |-> {side[tx][i] : i \in Owned(side[tx])}]
           h == [put \in puts |-> CHOOSE tx \in txs : put \in of[tx]]
<1>1. \A put : put \in puts <=> \E tx \in txs : put \in of[tx]
  OBVIOUS
<1>2. \A put \in puts : h[put] \in txs /\ put \in of[h[put]]
  <2> HIDE DEF of
  <2> QED BY <1>1
<1>3. ASSUME NEW tx \in txs
      PROVE  /\ IsFiniteSet(of[tx])
             /\ SumOwned(side[tx]) = SumFunctionOnSet(worth, of[tx])
             /\ SumOwned(side[tx]) \in Nat
             /\ \A put \in of[tx] : put.value \in Nat
  <2> DEFINE b == side[tx]
             S == Owned(b)
             f == Values(b)
  <2>1. S \subseteq DOMAIN b /\ IsFiniteSet(S) /\ \A k \in S : b[k].value \in Nat
    <3>1. Entries(b)
      OBVIOUS
    <3>2. S \subseteq DOMAIN b
      BY DEF Owned
    <3> QED BY <3>1, <3>2, FS_Subset DEF Entries
  <2>2. of[tx] = {b[k] : k \in S}
    OBVIOUS
  <2>3. \A k \in S : f[k] \in Nat /\ f[k] = b[k].value
    BY <2>1 DEF Values
  <2>4. \A k \in S : b[k] \in puts /\ worth[b[k]] = b[k].value
    <3>1. \A k \in S : b[k] \in puts
      OBVIOUS
    <3> QED BY <3>1
  <2>5. \A k, l \in S : b[k] = b[l] => k = l
    OBVIOUS
  <2>6. SumOwned(b) = SumFunctionOnSet(f, S)
    BY DEF SumOwned
  <2> HIDE DEF b, S, f, of, Sides
  <2>7. /\ IsFiniteSet({b[k] : k \in S})
        /\ SumFunctionOnSet(worth, {b[k] : k \in S}) = SumFunctionOnSet(f, S)
    <3>1. \A k \in S : f[k] \in Int /\ worth[b[k]] = f[k]
      BY <2>3, <2>4
    <3>2. IsFiniteSet(S)
      BY <2>1
    <3>3. \A k, l \in S : b[k] = b[l] => k = l
      BY <2>5
    <3> QED BY <3>1, <3>2, <3>3, SumRenamed, SMTT(30)
  <2>8. SumFunctionOnSet(f, S) \in Nat
    BY <2>1, <2>3, SumNat
  <2>9. SumFunctionOnSet(worth, of[tx]) = SumFunctionOnSet(f, S)
    BY <2>2, <2>7, Zenon
  <2>10. SumOwned(side[tx]) = SumOwned(b)
    BY DEF b
  <2>11. \A put \in of[tx] : put.value \in Nat
    BY <2>1, <2>2
  <2> QED BY <2>2, <2>6, <2>7, <2>8, <2>9, <2>10, <2>11
<1>4. IsFiniteSet(puts) /\ \A put \in puts : put.value \in Nat
  <2>1. of \in Surjection(txs, {of[tx] : tx \in txs})
    BY DEF Surjection
  <2>2. IsFiniteSet({of[tx] : tx \in txs})
    <3> HIDE DEF of
    <3> QED BY <2>1, FS_Surjection
  <2>3. \A T \in {of[tx] : tx \in txs} : IsFiniteSet(T)
    <3> HIDE DEF of
    <3> QED BY <1>3
  <2>4. IsFiniteSet(puts)
    <3> HIDE DEF of
    <3>1. puts = UNION {of[tx] : tx \in txs}
      BY <1>1
    <3> QED BY <2>2, <2>3, <3>1, FS_UNION
  <2>5. ASSUME NEW put \in puts PROVE put.value \in Nat
    <3>1. h[put] \in txs /\ put \in of[h[put]]
      BY <1>2
    <3> HIDE DEF h, of
    <3> QED BY <1>3, <3>1
  <2> QED BY <2>4, <2>5
<1>5. ASSUME NEW tx \in txs PROVE \A put : put \in of[tx] <=> put \in puts /\ h[put] = tx
  <2>1. ASSUME NEW put \in of[tx] PROVE put \in puts /\ h[put] = tx
    <3>1. put \in puts
      BY <1>1
    <3>2. h[put] \in txs /\ put \in of[h[put]]
      BY <1>2, <3>1
    <3> HIDE DEF h
    <3>3. PICK i \in Owned(side[tx]) : put = side[tx][i]
      BY <2>1
    <3>4. PICK j \in Owned(side[h[put]]) : put = side[h[put]][j]
      BY <3>2
    <3> QED BY <3>1, <3>2, <3>3, <3>4
  <2> QED BY <1>2, <2>1
<1>6. \A tx \in txs : sums[tx] = SumFunctionOnSet(worth, of[tx])
  BY <1>3
<1>7. \A put \in puts : worth[put] \in Int
  BY <1>4
<1>8. SumFunctionOnSet(sums, txs) = SumFunctionOnSet(worth, puts)
  <2> HIDE DEF h
  <2>1. \A put \in puts : h[put] \in txs
    BY <1>2
  <2> HIDE DEF of
  <2>2. \A tx \in txs : \A put : put \in of[tx] <=> put \in puts /\ h[put] = tx
    BY <1>5
  <2>3. IsFiniteSet(puts) /\ IsFiniteSet(txs)
    BY <1>4
  <2> HIDE DEF Sides
  <2>4. Grouped(worth, puts, txs, h, of, sums)
    BY <1>6, <1>7, <2>1, <2>2, <2>3 DEF Grouped
  <2> QED BY <2>4, SumGroups
<1> HIDE DEF of
<1> QED BY <1>1, <1>3, <1>4, <1>8

LEMMA ListFinite ==
  ASSUME NEW s, IsList(s)
  PROVE  IsFiniteSet(ToSet(s))
<1>1. Len(s) \in Nat /\ DOMAIN s = 1..Len(s)
  BY ListFacts
<1>2. IsFiniteSet(DOMAIN s)
  <2>1. Len(s) \in Int
    BY <1>1
  <2> QED BY <1>1, <2>1, UpToFinite
<1>3. s \in [DOMAIN s -> ToSet(s)]
  <2>1. PICK S : s \in Seq(S)
    BY DEF IsList
  <2>2. s \in [DOMAIN s -> S]
    BY <2>1, SeqDef
  <2> QED BY <2>2 DEF ToSet
<1>4. \A x \in ToSet(s) : \E k \in DOMAIN s : s[k] = x
  BY DEF ToSet
<1>5. s \in Surjection(DOMAIN s, ToSet(s))
  BY <1>3, <1>4 DEF Surjection
<1> QED BY <1>2, <1>5, FS_Surjection

\* BalanceIsHistory: the balance the Bitcoin adapter reads off the sums of an
\* address is what its records add up to, so that nothing is lost in the
\* saturating subtraction (tx_to_record, balance_from_address_info).  The owner's
\* inputs are outputs of known transactions, each spent once, so no more is spent
\* than was received.
THEOREM BalanceAddsUp == PagesSpec => []BalanceIsHistory
<1>1. PagesInvariant /\ PaymentsInvariant => BalanceIsHistory
  <2> SUFFICES ASSUME PagesInvariant, PaymentsInvariant, net = "bitcoin" PROVE BalanceIsHistory
    BY DEF BalanceIsHistory
  <2> DEFINE T == ToSet(All)
             Flow(i) == CASE i.direction = "in"   -> i.amount
                          [] i.direction = "out"  -> - i.amount
                          [] i.direction = "self" -> 0
             flow == [tx \in T |-> Flow(RecordToItem(Record(tx), 1))]
             vins == [tx \in T |-> tx.vin]
             vouts == [tx \in T |-> tx.vout]
             into == [tx \in T |-> SumOwned(tx.vout)]
             out == [tx \in T |-> SumOwned(tx.vin)]
             paid == UNION {{tx.vin[i] : i \in Owned(tx.vin)} : tx \in T}
             got == UNION {{tx.vout[i] : i \in Owned(tx.vout)} : tx \in T}
             worth == [put \in paid \cup got |-> put.value]
             funded == SumFunctionOnSet(into, T)
             spent == SumFunctionOnSet(out, T)
  <2>1. IsList(chain) /\ IsList(mempool) /\ Numbered
    BY DEF PagesInvariant
  <2>2. T = Txs /\ IsFiniteSet(T)
    <3>1. IsFiniteSet(ToSet(chain)) /\ IsFiniteSet(ToSet(mempool))
      BY <2>1, ListFinite
    <3>2. IsFiniteSet(Txs)
      BY <3>1, FS_Union DEF Txs
    <3> QED BY <2>1, <3>2, AllTxs
  <2>3. EntriesOK(T) /\ SpentOnce(T)
    BY <2>2 DEF PaymentsInvariant
  <2>4. \A tx, ty \in T : tx.hash = ty.hash => tx = ty
    BY <2>1, <2>2, TxsNumbered
  <2> HIDE DEF T
  <2>5. \A tx \in T : Entries(vins[tx]) /\ Entries(vouts[tx])
    BY <2>3 DEF EntriesOK
  <2>6. \A tx, ty \in T : \A i \in Owned(vins[tx]), j \in Owned(vins[ty]) :
          vins[tx][i] = vins[ty][j] => tx = ty /\ i = j
    BY <2>3 DEF SpentOnce
  <2>7. ASSUME NEW tx \in T, NEW ty \in T, NEW i \in Owned(vouts[tx]), NEW j \in Owned(vouts[ty]),
               vouts[tx][i] = vouts[ty][j]
        PROVE  tx = ty /\ i = j
    <3>1. i \in DOMAIN tx.vout /\ j \in DOMAIN ty.vout
      BY DEF Owned
    <3>2. tx.vout[i].id = <<tx.hash, i>> /\ ty.vout[j].id = <<ty.hash, j>>
      BY <2>3, <3>1 DEF EntriesOK
    <3>3. <<tx.hash, i>> = <<ty.hash, j>>
      BY <2>7, <3>2
    <3> QED BY <2>4, <3>3
  <2>10. /\ \A tx \in T : vins[tx] = tx.vin /\ vouts[tx] = tx.vout
         /\ \A tx \in T : out[tx] = SumOwned(tx.vin) /\ into[tx] = SumOwned(tx.vout)
         /\ \A put \in paid \cup got : worth[put] = put.value
    OBVIOUS
  <2>20. \A put : put \in paid <=> \E tx \in T : \E i \in Owned(tx.vin) : put = tx.vin[i]
    OBVIOUS
  <2>21. \A put : put \in got <=> \E tx \in T : \E i \in Owned(tx.vout) : put = tx.vout[i]
    OBVIOUS
  <2> HIDE DEF vins, vouts, into, out, worth, paid, got
  <2>8. /\ IsFiniteSet(paid) /\ \A put \in paid : put.value \in Nat
        /\ \A tx \in T : SumOwned(tx.vin) \in Nat
        /\ spent = SumFunctionOnSet(worth, paid)
    <3>0. IsFiniteSet(T)
      BY <2>2
    <3>5. \A tx \in T : Entries(vins[tx])
      BY <2>5
    <3>1. \A put : put \in paid <=> \E tx \in T : \E i \in Owned(vins[tx]) : put = vins[tx][i]
      BY <2>10, <2>20
    <3>2. \A tx \in T : out[tx] = SumOwned(vins[tx])
      BY <2>10
    <3>3. \A put \in paid : worth[put] = put.value
      BY <2>10
    <3>6. Sides(T, vins, paid, worth, out)
      BY <3>0, <3>1, <3>2, <3>3, <3>5, <2>6 DEF Sides
    <3>4. /\ IsFiniteSet(paid) /\ \A put \in paid : put.value \in Nat
          /\ \A tx \in T : SumOwned(vins[tx]) \in Nat
          /\ SumFunctionOnSet(out, T) = SumFunctionOnSet(worth, paid)
      BY <3>6, SidesAdd
    <3> QED BY <2>10, <3>4
  <2>9. /\ IsFiniteSet(got) /\ \A put \in got : put.value \in Nat
        /\ \A tx \in T : SumOwned(tx.vout) \in Nat
        /\ funded = SumFunctionOnSet(worth, got)
    <3>0. IsFiniteSet(T)
      BY <2>2
    <3>5. \A tx \in T : Entries(vouts[tx])
      BY <2>5
    <3>1. \A put : put \in got <=> \E tx \in T : \E i \in Owned(vouts[tx]) : put = vouts[tx][i]
      BY <2>10, <2>21
    <3>2. \A tx \in T : into[tx] = SumOwned(vouts[tx])
      BY <2>10
    <3>3. \A put \in got : worth[put] = put.value
      BY <2>10
    <3>6. Sides(T, vouts, got, worth, into)
      BY <3>0, <3>1, <3>2, <3>3, <3>5, <2>7 DEF Sides
    <3>4. /\ IsFiniteSet(got) /\ \A put \in got : put.value \in Nat
          /\ \A tx \in T : SumOwned(vouts[tx]) \in Nat
          /\ SumFunctionOnSet(into, T) = SumFunctionOnSet(worth, got)
      BY <3>6, SidesAdd
    <3> QED BY <2>10, <3>4
  <2>11. paid \subseteq got
    <3> SUFFICES ASSUME NEW tx \in T, NEW i \in Owned(tx.vin) PROVE tx.vin[i] \in got
      BY <2>20
    <3>1. PICK ty \in T : \E k \in DOMAIN ty.vout : tx.vin[i] = ty.vout[k]
      BY <2>3 DEF SpentOnce
    <3>2. PICK k \in DOMAIN ty.vout : tx.vin[i] = ty.vout[k]
      BY <3>1
    <3>3. k \in Owned(ty.vout)
      BY <3>2 DEF Owned
    <3> QED BY <2>21, <3>2, <3>3
  <2>13. spent <= funded /\ spent \in Nat /\ funded \in Nat
    <3>1. \A put \in got : worth[put] \in Nat
      BY <2>9, <2>10
    <3>2. paid \in SUBSET got
      BY <2>11
    <3>3. SumFunctionOnSet(worth, paid) <= SumFunctionOnSet(worth, got)
      BY <2>9, <3>1, <3>2, SumMore
    <3>4. SumFunctionOnSet(worth, paid) \in Nat /\ SumFunctionOnSet(worth, got) \in Nat
      BY <2>8, <2>9, <3>1, <3>2, SumNat
    <3> QED BY <2>8, <2>9, <3>3, <3>4
  <2>14. \A tx \in T : /\ flow[tx] \in Int /\ out[tx] \in Int
                       /\ into[tx] = flow[tx] + out[tx]
    <3> SUFFICES ASSUME NEW tx \in T
                 PROVE  /\ flow[tx] \in Int /\ out[tx] \in Int
                        /\ into[tx] = flow[tx] + out[tx]
      OBVIOUS
    <3>1. SumOwned(tx.vin) \in Nat /\ SumOwned(tx.vout) \in Nat /\ Entries(tx.vin) /\ Entries(tx.vout)
      BY <2>5, <2>8, <2>9, <2>10
    <3> DEFINE i == RecordToItem(Record(tx), 1)
    <3>2. \/ i.direction = "in" /\ i.amount = Net(tx)
          \/ i.direction = "out" /\ - i.amount = Net(tx)
      BY <3>1, FlowIsNet
    <3> HIDE DEF i
    <3>3. Flow(i) = Net(tx)
      BY <3>2
    <3>4. flow[tx] = Net(tx)
      BY <3>3 DEF i
    <3>5. out[tx] = SumOwned(tx.vin) /\ into[tx] = SumOwned(tx.vout)
      BY <2>10
    <3> HIDE DEF flow
    <3> QED BY <3>1, <3>4, <3>5 DEF Net
  <2>15. funded = SumFunctionOnSet(flow, T) + spent
    <3> HIDE DEF flow
    <3> QED BY <2>2, <2>14, SumPlus
  <2>16. SumFunctionOnSet(flow, T) \in Int
    <3> HIDE DEF flow
    <3> QED BY <2>2, <2>14, SumType
  <2>17. /\ SumFunction(flow) = SumFunctionOnSet(flow, T)
         /\ SumFunction(into) = funded /\ SumFunction(out) = spent
    <3>1. DOMAIN flow = T /\ DOMAIN into = T /\ DOMAIN out = T
      BY DEF into, out
    <3> HIDE DEF flow
    <3> QED BY <3>1, Zenon DEF SumFunction
  <2>18. SumFunction(flow) = BitcoinBalance(SumFunction(into), SumFunction(out))
    <3> HIDE DEF flow, funded, spent
    <3>1. SumFunctionOnSet(flow, T) = IF funded > spent THEN funded - spent ELSE 0
      BY <2>13, <2>15, <2>16
    <3> QED BY <2>17, <3>1 DEF BitcoinBalance
  <2> QED BY <2>18, Zenon DEF BalanceIsHistory, T, into, out
<1> QED BY <1>1, AlwaysPayments, PTL

-----------------------------------------------------------------------------
(* The histories of the caches.                                            *)

\* The transactions of the networks: numbered, none later than now, each of them
\* about the owner and with finitely many moves.
LogOK(log, now) ==
    /\ IsList(log)
    /\ \A k \in DOMAIN log :
         /\ log[k].hash = k /\ log[k].at \in Nat /\ log[k].at <= now
         /\ IsFiniteSet(DOMAIN log[k].moves)
         /\ Owner \in {log[k].from, log[k].to} \/ OwnPlaces(log[k].moves) # {}

\* The items tell every transaction of c that is not younger than t and has all
\* its rows on the first pages, as it is.
Tells(log, items, c, t) ==
    \A tx \in ToSet(log) :
        tx.chain = c /\ tx.at <= t /\ OnPages(log, tx) =>
            {i \in Unpriced(items) : i.hash = tx.hash} = {Truth(tx)}

\* An entry of the indexer's cache was complete when its fetch began.
EntryOK(log, now, c, entry) ==
    \/ entry = Nothing
    \/ /\ entry.at \in Nat /\ entry.at <= now
       /\ Tells(log, entry.items, c, entry.at - FETCH_TIMEOUT - 1)

N == Len(EvmChains)

CollectedOK(log, now, entry) ==
    \/ entry = Nothing
    \/ /\ entry.at \in Nat /\ entry.at <= now
       /\ \A c \in Chains \ entry.skipped :
            Tells(log, entry.items[c], c, entry.at - INDEX_TTL - N * FETCH_TIMEOUT)

\* What a request has of the networks that are done: q of them since then.
Gathered(log, since, r) ==
    \/ /\ r.kind = "history" /\ r.items = Silence
       /\ \E c \in Chains : r.todo = <<c>> /\ r.skipped = Chains \ {c}
    \/ /\ r.kind = "history" /\ r.at = "starts" /\ r.todo = <<>>
       /\ r.items = [c \in Chains |-> r.items[c]]
       /\ \A c \in Chains \ r.skipped :
            Tells(log, r.items[c], c, since - INDEX_TTL - FETCH_TIMEOUT)
    \/ /\ r.kind = "analytics"
       /\ r.items = [c \in Chains |-> r.items[c]]
       /\ IsList(r.todo)
       /\ \E q \in 0..N :
            /\ Len(r.todo) = N - q
            /\ \A i \in 1..(N - q) : r.todo[i] = EvmChains[q + i]
            /\ \A i \in 1..q :
                 \/ EvmChains[i] \in r.skipped
                 \/ Tells(log, r.items[EvmChains[i]], EvmChains[i],
                          since - INDEX_TTL - q * FETCH_TIMEOUT)

Fetching == {"txlist", "tokentx", "stores"}

Lag(kind) == IF kind = "analytics" THEN AnalyticsLag ELSE IndexLag

JobOK(log, now, r) ==
    /\ r = [at |-> r.at, kind |-> r.kind, todo |-> r.todo, usd |-> r.usd, txlist |-> r.txlist,
            found |-> r.found, deadline |-> r.deadline, items |-> r.items, skipped |-> r.skipped]
    /\ r.at \in {"idle", "starts", "done", "error"} \cup Fetching
    /\ r.at \in Fetching =>
         /\ r.deadline \in Nat /\ r.deadline <= now + FETCH_TIMEOUT /\ now <= r.deadline
         /\ r.todo # <<>>
         /\ Gathered(log, r.deadline - FETCH_TIMEOUT, r)
    /\ r.at = "tokentx" =>
         /\ r.txlist \subseteq OwnTxs(log, Head(r.todo))
         /\ \A tx \in TxList(log, Head(r.todo)) :
              tx.at <= r.deadline - FETCH_TIMEOUT - 1 => tx \in r.txlist
    /\ r.at = "stores" => Tells(log, r.found, Head(r.todo), r.deadline - FETCH_TIMEOUT - 1)
    /\ r.at = "starts" => Gathered(log, now, r)
    /\ r.at = "done" =>
         \A c \in Chains \ r.skipped : Tells(log, r.items[c], c, now - Lag(r.kind))

HistoryInvariant ==
    /\ clock \in Nat
    /\ LogOK(mined, clock)
    /\ index = [c \in Chains |-> index[c]]
    /\ \A c \in Chains : EntryOK(mined, clock, c, index[c])
    /\ CollectedOK(mined, clock, collected)
    /\ job = [j \in Jobs |-> job[j]]
    /\ \A j \in Jobs : JobOK(mined, clock, job[j])

LEMMA LogFacts ==
  ASSUME NEW log, NEW now \in Nat, LogOK(log, now), NEW tx \in ToSet(log)
  PROVE  /\ tx.hash \in DOMAIN log /\ log[tx.hash] = tx /\ tx.at \in Nat /\ tx.at <= now
         /\ Owner \in {tx.from, tx.to} \/ OwnPlaces(tx.moves) # {}
         /\ IsFiniteSet(DOMAIN tx.moves)
<1>1. PICK k \in DOMAIN log : tx = log[k]
  BY DEF ToSet
<1> QED BY <1>1 DEF LogOK

LEMMA TellsLess ==
  ASSUME NEW log, NEW now \in Nat, LogOK(log, now), NEW items, NEW c,
         NEW t \in Int, NEW s \in Int, s <= t, Tells(log, items, c, t)
  PROVE  Tells(log, items, c, s)
<1> SUFFICES ASSUME NEW tx \in ToSet(log), tx.chain = c, tx.at <= s, OnPages(log, tx)
             PROVE  {i \in Unpriced(items) : i.hash = tx.hash} = {Truth(tx)}
  BY DEF Tells
<1>1. tx.at \in Nat
  BY LogFacts
<1>2. tx.at <= t
  BY <1>1
<1> QED BY <1>2 DEF Tells

\* The rows of either list are finitely many.
LEMMA FiniteRows ==
  ASSUME NEW log, NEW now \in Nat, LogOK(log, now), NEW c
  PROVE  IsFiniteSet(OwnTxs(log, c)) /\ IsFiniteSet(OwnRows(log, c))
<1>1. IsFiniteSet(ToSet(log))
  BY ListFinite DEF LogOK
<1>2. IsFiniteSet(OwnTxs(log, c)) /\ IsFiniteSet(MinedOn(log, c))
  <2>1. OwnTxs(log, c) \subseteq ToSet(log) /\ MinedOn(log, c) \subseteq ToSet(log)
    BY DEF OwnTxs, MinedOn
  <2> QED BY <1>1, <2>1, FS_Subset
<1>3. IsFiniteSet(OwnRows(log, c))
  <2> DEFINE rows(tx) == {tx.hash} \X OwnPlaces(tx.moves)
             all == {rows(tx) : tx \in MinedOn(log, c)}
             f == [tx \in MinedOn(log, c) |-> rows(tx)]
  <2>1. ASSUME NEW tx \in MinedOn(log, c) PROVE IsFiniteSet(rows(tx))
    <3>1. IsFiniteSet(DOMAIN tx.moves)
      BY LogFacts DEF MinedOn
    <3>2. IsFiniteSet(OwnPlaces(tx.moves))
      <4>1. OwnPlaces(tx.moves) \subseteq DOMAIN tx.moves
        BY DEF OwnPlaces
      <4> QED BY <3>1, <4>1, FS_Subset
    <3> QED BY <3>2, FS_Singleton, FS_Product
  <2>2. f \in Surjection(MinedOn(log, c), all)
    BY DEF Surjection
  <2>3. IsFiniteSet(all)
    <3> HIDE DEF f, all
    <3> QED BY <1>2, <2>2, FS_Surjection
  <2>4. \A S \in all : IsFiniteSet(S)
    BY <2>1
  <2>5. OwnRows(log, c) = UNION all
    BY DEF OwnRows
  <2> HIDE DEF all
  <2> QED BY <2>3, <2>4, <2>5, FS_UNION
<1> QED BY <1>2, <1>3

\* What has room on the first pages after one transaction more had it before.
LEMMA PagesMore ==
  ASSUME NEW log, NEW now \in Nat, LogOK(log, now), NEW tx, LogOK(Append(log, tx), now),
         NEW x \in ToSet(log)
  PROVE  /\ x \in TxList(Append(log, tx), x.chain) => x \in TxList(log, x.chain)
         /\ OnPages(Append(log, tx), x) => OnPages(log, x)
<1> DEFINE more == Append(log, tx)
<1>0. IsList(log) /\ PAGE_SIZE \in Nat
  BY HistoryAssumption DEF LogOK
<1>1. ToSet(log) \subseteq ToSet(more)
  BY <1>0, OneMore
<1> HIDE DEF more
<1>2. \A c : MinedOn(log, c) \subseteq MinedOn(more, c)
  BY <1>1 DEF MinedOn
<1>3. \A c : OwnTxs(log, c) \subseteq OwnTxs(more, c) /\ OwnRows(log, c) \subseteq OwnRows(more, c)
  BY <1>2 DEF OwnTxs, OwnRows
<1>4. ASSUME NEW small, NEW big, IsFiniteSet(big), small \subseteq big, Cardinality(big) < PAGE_SIZE
      PROVE  Cardinality(small) < PAGE_SIZE
  <2>1. /\ IsFiniteSet(small) /\ Cardinality(small) <= Cardinality(big)
        /\ Cardinality(small) \in Nat /\ Cardinality(big) \in Nat
    BY <1>4, FS_Subset, FS_CardinalityType
  <2> QED BY <1>0, <1>4, <2>1
<1>5. ASSUME NEW y, Cardinality(TxsBefore(more, y)) < PAGE_SIZE
      PROVE  Cardinality(TxsBefore(log, y)) < PAGE_SIZE
  <2>1. TxsBefore(log, y) \subseteq TxsBefore(more, y)
    BY <1>3 DEF TxsBefore
  <2>2. IsFiniteSet(TxsBefore(more, y))
    <3>1. IsFiniteSet(OwnTxs(more, y.chain))
      BY FiniteRows DEF more
    <3>2. TxsBefore(more, y) \subseteq OwnTxs(more, y.chain)
      BY DEF TxsBefore
    <3> QED BY <3>1, <3>2, FS_Subset
  <2> QED BY <1>4, <1>5, <2>1, <2>2
<1>6. ASSUME NEW c, NEW row, Cardinality(RowsBefore(more, c, row)) < PAGE_SIZE
      PROVE  Cardinality(RowsBefore(log, c, row)) < PAGE_SIZE
  <2>1. RowsBefore(log, c, row) \subseteq RowsBefore(more, c, row)
    BY <1>3 DEF RowsBefore
  <2>2. IsFiniteSet(RowsBefore(more, c, row))
    <3>1. IsFiniteSet(OwnRows(more, c))
      BY FiniteRows DEF more
    <3>2. RowsBefore(more, c, row) \subseteq OwnRows(more, c)
      BY DEF RowsBefore
    <3> QED BY <3>1, <3>2, FS_Subset
  <2> QED BY <1>4, <1>6, <2>1, <2>2
<1>7. x \in OwnTxs(more, x.chain) <=> x \in OwnTxs(log, x.chain)
  BY <1>1 DEF OwnTxs, MinedOn
<1>8. x \in TxList(more, x.chain) => x \in TxList(log, x.chain)
  BY <1>5, <1>7 DEF TxList
<1>9. PlacesListed(more, x) \subseteq PlacesListed(log, x)
  BY <1>6 DEF PlacesListed
<1>10. PlacesListed(log, x) \subseteq OwnPlaces(x.moves)
  BY DEF PlacesListed
<1>11. OnPages(more, x) => OnPages(log, x)
  BY <1>7, <1>8, <1>9, <1>10 DEF OnPages
<1> QED BY <1>8, <1>11 DEF more

LEMMA TellsMore ==
  ASSUME NEW log, NEW now \in Nat, LogOK(log, now), NEW tx, LogOK(Append(log, tx), now),
         NEW items, NEW c, NEW t \in Int, tx.at = now, t < now, Tells(log, items, c, t)
  PROVE  Tells(Append(log, tx), items, c, t)
<1> SUFFICES ASSUME NEW x \in ToSet(Append(log, tx)), x.chain = c, x.at <= t,
                    OnPages(Append(log, tx), x)
             PROVE  {i \in Unpriced(items) : i.hash = x.hash} = {Truth(x)}
  BY DEF Tells
<1>1. x # tx
  OBVIOUS
<1>2. x \in ToSet(log)
  BY <1>1, OneMore DEF LogOK
<1>3. OnPages(log, x)
  BY <1>2, PagesMore
<1> QED BY <1>2, <1>3 DEF Tells

\* What an item tells, whatever the price.
LEMMA UnpricedItems ==
  ASSUME NEW tx, NEW moves, NEW usd, NEW hash, NEW group
  PROVE  /\ TxToItem(tx, moves, usd).hash = tx.hash
         /\ [TxToItem(tx, moves, usd) EXCEPT !.usd = 0] = TxToItem(tx, moves, 0)
         /\ TokenOnlyItem(hash, group).hash = hash
         /\ [TokenOnlyItem(hash, group) EXCEPT !.usd = 0] = TokenOnlyItem(hash, group)
<1>1. /\ TxToItem(tx, moves, usd).hash = tx.hash
      /\ [TxToItem(tx, moves, usd) EXCEPT !.usd = 0] = TxToItem(tx, moves, 0)
  <2> DEFINE sent      == SentBy(moves)
             received  == ReceivedBy(moves)
             category  == Categorize(tx.call, tx.fname, sent, received)
             direction == TxDirection(tx, received)
             shown     == ShownMove(tx, category, moves)
             amount == IF shown = <<>> THEN tx.value ELSE Head(shown).amount
             symbol == IF shown = <<>> THEN Native ELSE Head(shown).symbol
             other  == CASE direction = "out"  -> IF shown = <<>> THEN tx.to ELSE Head(shown).to
                         [] direction = "in"   -> IF shown = <<>> THEN tx.from ELSE Head(shown).from
                         [] direction = "self" -> Nobody
             fee    == IF tx.from = Owner THEN tx.fee ELSE 0
             status == IF tx.failed THEN "failed" ELSE "confirmed"
  <2>1. \A u : TxToItem(tx, moves, u) =
                  [hash |-> tx.hash, at |-> tx.at, category |-> category, direction |-> direction,
                   amount |-> amount, symbol |-> symbol, counterparty |-> other, fee |-> fee,
                   usd |-> u, status |-> status]
    BY Zenon DEF TxToItem
  <2> HIDE DEF category, direction, amount, symbol, other, fee, status
  <2> QED BY <2>1
<1>2. /\ TokenOnlyItem(hash, group).hash = hash
      /\ [TokenOnlyItem(hash, group) EXCEPT !.usd = 0] = TokenOnlyItem(hash, group)
  BY DEF TokenOnlyItem
<1> QED BY <1>1, <1>2

LEMMA NoMoves == \A moves : <<>> = Restrict(moves, {})
<1>1. <<>> \in [{} -> {}]
  <2>1. <<>> \in Seq({}) /\ DOMAIN <<>> = {}
    OBVIOUS
  <2> QED BY <2>1, SeqDef
<1> QED BY <1>1 DEF Restrict

OwnMoves(moves) == Restrict(moves, OwnPlaces(moves))

\* The two lists of a network together tell what was there when the first of
\* them was made.
LEMMA NormalizedTells ==
  ASSUME NEW now \in Nat, LogOK(mined, now), NEW c, NEW t \in Int, NEW usd, NEW txlist,
         txlist \subseteq OwnTxs(mined, c),
         \A tx \in TxList(mined, c) : tx.at <= t => tx \in txlist
  PROVE  Tells(mined, NormalizeEtherscan(txlist, TokenTx(mined, c), usd), c, t)
<1> DEFINE tokentx == TokenTx(mined, c)
           listed == {x.hash : x \in txlist}
           bare == DOMAIN tokentx \ listed
           items == NormalizeEtherscan(txlist, tokentx, usd)
<1> SUFFICES ASSUME NEW tx \in ToSet(mined), tx.chain = c, tx.at <= t, OnPages(mined, tx)
             PROVE  {i \in Unpriced(items) : i.hash = tx.hash} = {Truth(tx)}
  BY DEF Tells
<1>1. ASSUME NEW x \in ToSet(mined), NEW y \in ToSet(mined), x.hash = y.hash PROVE x = y
  BY <1>1, LogFacts
<1>2. txlist \subseteq ToSet(mined)
  BY DEF OwnTxs, MinedOn
<1>3. /\ DOMAIN tokentx = {x.hash : x \in {u \in MinedOn(mined, c) : PlacesListed(mined, u) # {}}}
      /\ \A h \in DOMAIN tokentx : tokentx[h] = MovesIn(mined, mined[h])
  BY DEF TokenTx
<1> HIDE DEF tokentx
<1>4. PlacesListed(mined, tx) = OwnPlaces(tx.moves)
  BY DEF OnPages
<1>5. OwnPlaces(tx.moves) # {} =>
         tx.hash \in DOMAIN tokentx /\ tokentx[tx.hash] = [at |-> tx.at, moves |-> OwnMoves(tx.moves)]
  <2> SUFFICES ASSUME OwnPlaces(tx.moves) # {}
               PROVE  /\ tx.hash \in DOMAIN tokentx
                      /\ tokentx[tx.hash] = [at |-> tx.at, moves |-> OwnMoves(tx.moves)]
    OBVIOUS
  <2>1. tx.hash \in DOMAIN tokentx
    BY <1>3, <1>4 DEF MinedOn
  <2>2. mined[tx.hash] = tx
    BY LogFacts
  <2>3. MovesIn(mined, tx) = [at |-> tx.at, moves |-> OwnMoves(tx.moves)]
    BY <1>4 DEF MovesIn, OwnMoves
  <2> QED BY <1>3, <2>1, <2>2, <2>3
<1>6. OwnPlaces(tx.moves) = {} => tx.hash \notin DOMAIN tokentx
  <2> SUFFICES ASSUME OwnPlaces(tx.moves) = {}, tx.hash \in DOMAIN tokentx PROVE FALSE
    OBVIOUS
  <2>1. PICK x \in MinedOn(mined, c) : PlacesListed(mined, x) # {} /\ x.hash = tx.hash
    BY <1>3
  <2>2. x = tx
    BY <1>1, <2>1 DEF MinedOn
  <2> QED BY <1>4, <2>1, <2>2
<1>7. MovesOf(tokentx, tx.hash) = OwnMoves(tx.moves)
  <2>1. CASE OwnPlaces(tx.moves) # {}
    BY <1>5, <2>1 DEF MovesOf
  <2>2. CASE OwnPlaces(tx.moves) = {}
    BY <1>6, <2>2, NoMoves DEF MovesOf, OwnMoves
  <2> QED BY <2>1, <2>2
<1>8. \A i : i \in Unpriced(items) <=>
                \/ \E x \in txlist : i = TxToItem(x, MovesOf(tokentx, x.hash), 0)
                \/ \E h \in bare : i = TokenOnlyItem(h, tokentx[h])
  <2>1. \A y : y \in items <=> \/ \E x \in txlist : y = TxToItem(x, MovesOf(tokentx, x.hash), usd)
                               \/ \E h \in bare : y = TokenOnlyItem(h, tokentx[h])
    BY DEF NormalizeEtherscan
  <2>2. \A i : i \in Unpriced(items) <=> \E y \in items : i = [y EXCEPT !.usd = 0]
    BY DEF Unpriced
  <2> HIDE DEF items, bare
  <2>3. ASSUME NEW i, i \in Unpriced(items)
        PROVE  \/ \E x \in txlist : i = TxToItem(x, MovesOf(tokentx, x.hash), 0)
               \/ \E h \in bare : i = TokenOnlyItem(h, tokentx[h])
    <3>1. PICK y \in items : i = [y EXCEPT !.usd = 0]
      BY <2>2, <2>3
    <3>2. CASE \E x \in txlist : y = TxToItem(x, MovesOf(tokentx, x.hash), usd)
      BY <3>1, <3>2, UnpricedItems
    <3>3. CASE \E h \in bare : y = TokenOnlyItem(h, tokentx[h])
      BY <3>1, <3>3, UnpricedItems
    <3> QED BY <2>1, <3>2, <3>3
  <2>4. ASSUME NEW x \in txlist PROVE TxToItem(x, MovesOf(tokentx, x.hash), 0) \in Unpriced(items)
    <3>1. TxToItem(x, MovesOf(tokentx, x.hash), usd) \in items
      BY <2>1
    <3>2. [TxToItem(x, MovesOf(tokentx, x.hash), usd) EXCEPT !.usd = 0]
            = TxToItem(x, MovesOf(tokentx, x.hash), 0)
      BY UnpricedItems
    <3> QED BY <2>2, <3>1, <3>2
  <2>5. ASSUME NEW h \in bare PROVE TokenOnlyItem(h, tokentx[h]) \in Unpriced(items)
    <3>1. TokenOnlyItem(h, tokentx[h]) \in items
      BY <2>1
    <3>2. [TokenOnlyItem(h, tokentx[h]) EXCEPT !.usd = 0] = TokenOnlyItem(h, tokentx[h])
      BY UnpricedItems
    <3> QED BY <2>2, <3>1, <3>2
  <2> QED BY <2>3, <2>4, <2>5
<1>9. \A x \in txlist : TxToItem(x, MovesOf(tokentx, x.hash), 0).hash = x.hash
  BY UnpricedItems
<1>10. \A h \in bare : TokenOnlyItem(h, tokentx[h]).hash = h
  BY UnpricedItems
<1>11. CASE tx \in txlist
  <2>1. Owner \in {tx.from, tx.to}
    BY <1>11 DEF OwnTxs
  <2>2. Truth(tx) = TxToItem(tx, MovesOf(tokentx, tx.hash), 0)
    BY <1>7, <2>1 DEF Truth, OwnMoves
  <2>3. tx.hash \notin bare
    BY <1>11
  <2>4. \A x \in txlist : x.hash = tx.hash => x = tx
    BY <1>1, <1>2
  <2> HIDE DEF items, bare
  <2>5. Truth(tx) \in Unpriced(items) /\ Truth(tx).hash = tx.hash
    BY <1>8, <1>9, <1>11, <2>2
  <2>6. ASSUME NEW i \in Unpriced(items), i.hash = tx.hash PROVE i = Truth(tx)
    <3>1. CASE \E x \in txlist : i = TxToItem(x, MovesOf(tokentx, x.hash), 0)
      BY <1>9, <2>2, <2>4, <2>6, <3>1
    <3>2. CASE \E h \in bare : i = TokenOnlyItem(h, tokentx[h])
      BY <1>10, <2>3, <2>6, <3>2
    <3> QED BY <1>8, <2>6, <3>1, <3>2
  <2> QED BY <2>5, <2>6
<1>12. CASE tx \notin txlist
  <2>1. Owner \notin {tx.from, tx.to}
    <3>1. tx \notin TxList(mined, c)
      BY <1>12
    <3> QED BY <3>1 DEF OnPages, OwnTxs, MinedOn
  <2>2. OwnPlaces(tx.moves) # {}
    BY <2>1, LogFacts
  <2>3. Truth(tx) = TokenOnlyItem(tx.hash, tokentx[tx.hash])
    BY <1>5, <2>1, <2>2 DEF Truth, OwnMoves
  <2>4. \A x \in txlist : x.hash # tx.hash
    BY <1>1, <1>2, <1>12
  <2>5. tx.hash \in bare
    BY <1>5, <2>2, <2>4
  <2> HIDE DEF items, bare
  <2>6. Truth(tx) \in Unpriced(items) /\ Truth(tx).hash = tx.hash
    BY <1>8, <1>10, <2>3, <2>5
  <2>7. ASSUME NEW i \in Unpriced(items), i.hash = tx.hash PROVE i = Truth(tx)
    <3>1. CASE \E x \in txlist : i = TxToItem(x, MovesOf(tokentx, x.hash), 0)
      BY <1>9, <2>4, <2>7, <3>1
    <3>2. CASE \E h \in bare : i = TokenOnlyItem(h, tokentx[h])
      BY <1>10, <2>3, <2>7, <3>2
    <3> QED BY <1>8, <2>7, <3>1, <3>2
  <2> QED BY <2>6, <2>7
<1> QED BY <1>11, <1>12

LEMMA Lifetimes ==
  /\ INDEX_TTL \in Nat /\ INDEX_TTL > 0 /\ ANALYTICS_TTL \in Nat /\ ANALYTICS_TTL > 0
  /\ FETCH_TIMEOUT \in Nat
BY HistoryAssumption

LEMMA Times ==
  /\ INDEX_TTL \in Nat /\ INDEX_TTL > 0 /\ ANALYTICS_TTL \in Nat /\ ANALYTICS_TTL > 0
  /\ FETCH_TIMEOUT \in Nat
  /\ \A q \in Nat : q * FETCH_TIMEOUT \in Nat /\ (q + 1) * FETCH_TIMEOUT = q * FETCH_TIMEOUT + FETCH_TIMEOUT
  /\ 1 * FETCH_TIMEOUT = FETCH_TIMEOUT
  /\ N \in Nat /\ DOMAIN EvmChains = 1..N /\ N * FETCH_TIMEOUT \in Nat
  /\ \A c : c \in Chains <=> \E i \in 1..N : c = EvmChains[i]
<1>1. /\ INDEX_TTL \in Nat /\ INDEX_TTL > 0 /\ ANALYTICS_TTL \in Nat /\ ANALYTICS_TTL > 0
      /\ FETCH_TIMEOUT \in Nat
  BY Lifetimes
<1>2. N \in Nat /\ DOMAIN EvmChains = 1..N
  BY HistoryAssumption DEF N
<1>3. \A c : c \in Chains <=> \E i \in 1..N : c = EvmChains[i]
  BY <1>2 DEF Chains, ToSet
<1>4. ASSUME NEW f \in Nat, NEW q \in Nat
      PROVE  q * f \in Nat /\ (q + 1) * f = q * f + f /\ 1 * f = f
  OBVIOUS
<1> QED BY <1>1, <1>2, <1>3, <1>4

LEMMA GatheredLess ==
  ASSUME NEW log, NEW now \in Nat, LogOK(log, now), NEW r, NEW since \in Int, NEW s \in Int, s <= since,
         Gathered(log, since, r)
  PROVE  Gathered(log, s, r)
<1>1. \A items, c : \A t, u \in Int : u <= t /\ Tells(log, items, c, t) => Tells(log, items, c, u)
  BY TellsLess
<1>2. CASE /\ r.kind = "history" /\ r.items = Silence
           /\ \E c \in Chains : r.todo = <<c>> /\ r.skipped = Chains \ {c}
  BY <1>2 DEF Gathered
<1>3. CASE /\ r.kind = "history" /\ r.at = "starts" /\ r.todo = <<>>
           /\ r.items = [c \in Chains |-> r.items[c]]
           /\ \A c \in Chains \ r.skipped :
                Tells(log, r.items[c], c, since - INDEX_TTL - FETCH_TIMEOUT)
  <2> DEFINE t == since - INDEX_TTL - FETCH_TIMEOUT
             u == s - INDEX_TTL - FETCH_TIMEOUT
  <2>1. t \in Int /\ u \in Int /\ u <= t
    BY Times
  <2>2. \A c \in Chains \ r.skipped : Tells(log, r.items[c], c, t)
    BY <1>3
  <2> HIDE DEF t, u
  <2>3. \A c \in Chains \ r.skipped : Tells(log, r.items[c], c, u)
    BY <1>1, <2>1, <2>2
  <2>4. \A c \in Chains \ r.skipped : Tells(log, r.items[c], c, s - INDEX_TTL - FETCH_TIMEOUT)
    BY <2>3 DEF u
  <2> QED BY <1>3, <2>4 DEF Gathered
<1>4. ASSUME r.kind = "analytics", r.items = [c \in Chains |-> r.items[c]], IsList(r.todo),
             NEW q \in 0..N, Len(r.todo) = N - q,
             \A i \in 1..(N - q) : r.todo[i] = EvmChains[q + i],
             \A i \in 1..q : \/ EvmChains[i] \in r.skipped
                             \/ Tells(log, r.items[EvmChains[i]], EvmChains[i],
                                      since - INDEX_TTL - q * FETCH_TIMEOUT)
      PROVE  Gathered(log, s, r)
  <2> DEFINE t == since - INDEX_TTL - q * FETCH_TIMEOUT
             u == s - INDEX_TTL - q * FETCH_TIMEOUT
  <2>1. t \in Int /\ u \in Int /\ u <= t
    <3>1. q \in Nat /\ q * FETCH_TIMEOUT \in Nat
      BY Times
    <3> QED BY <3>1, Times
  <2>2. \A i \in 1..q : EvmChains[i] \in r.skipped \/ Tells(log, r.items[EvmChains[i]], EvmChains[i], t)
    BY <1>4
  <2> HIDE DEF t, u
  <2>3. \A i \in 1..q : EvmChains[i] \in r.skipped \/ Tells(log, r.items[EvmChains[i]], EvmChains[i], u)
    BY <1>1, <2>1, <2>2
  <2>4. \A i \in 1..q : EvmChains[i] \in r.skipped
                        \/ Tells(log, r.items[EvmChains[i]], EvmChains[i],
                                 s - INDEX_TTL - q * FETCH_TIMEOUT)
    BY <2>3 DEF u
  <2> QED BY <1>4, <2>4 DEF Gathered
<1> QED BY <1>2, <1>3, <1>4 DEF Gathered

LEMMA GatheredMore ==
  ASSUME NEW log, NEW now \in Nat, LogOK(log, now), NEW r, NEW since \in Int, since <= now,
         NEW tx, tx.at = now, LogOK(Append(log, tx), now), Gathered(log, since, r)
  PROVE  Gathered(Append(log, tx), since, r)
<1>1. \A items, c : \A t \in Int : t < now /\ Tells(log, items, c, t) => Tells(Append(log, tx), items, c, t)
  BY TellsMore
<1>2. CASE /\ r.kind = "history" /\ r.items = Silence
           /\ \E c \in Chains : r.todo = <<c>> /\ r.skipped = Chains \ {c}
  BY <1>2 DEF Gathered
<1>3. CASE /\ r.kind = "history" /\ r.at = "starts" /\ r.todo = <<>>
           /\ r.items = [c \in Chains |-> r.items[c]]
           /\ \A c \in Chains \ r.skipped :
                Tells(log, r.items[c], c, since - INDEX_TTL - FETCH_TIMEOUT)
  <2>1. since - INDEX_TTL - FETCH_TIMEOUT \in Int /\ since - INDEX_TTL - FETCH_TIMEOUT < now
    BY Times
  <2>2. \A c \in Chains \ r.skipped :
           Tells(Append(log, tx), r.items[c], c, since - INDEX_TTL - FETCH_TIMEOUT)
    BY <1>1, <1>3, <2>1
  <2> QED BY <1>3, <2>2 DEF Gathered
<1>4. ASSUME r.kind = "analytics", r.items = [c \in Chains |-> r.items[c]], IsList(r.todo),
             NEW q \in 0..N, Len(r.todo) = N - q,
             \A i \in 1..(N - q) : r.todo[i] = EvmChains[q + i],
             \A i \in 1..q : \/ EvmChains[i] \in r.skipped
                             \/ Tells(log, r.items[EvmChains[i]], EvmChains[i],
                                      since - INDEX_TTL - q * FETCH_TIMEOUT)
      PROVE  Gathered(Append(log, tx), since, r)
  <2> DEFINE t == since - INDEX_TTL - q * FETCH_TIMEOUT
  <2>1. t \in Int /\ t < now
    <3>1. q \in Nat /\ q * FETCH_TIMEOUT \in Nat
      BY Times
    <3> QED BY <3>1, Times
  <2>2. \A i \in 1..q : EvmChains[i] \in r.skipped \/ Tells(log, r.items[EvmChains[i]], EvmChains[i], t)
    BY <1>4
  <2> HIDE DEF t
  <2>3. \A i \in 1..q : EvmChains[i] \in r.skipped
                        \/ Tells(Append(log, tx), r.items[EvmChains[i]], EvmChains[i], t)
    BY <1>1, <2>1, <2>2
  <2>4. \A i \in 1..q : EvmChains[i] \in r.skipped
                        \/ Tells(Append(log, tx), r.items[EvmChains[i]], EvmChains[i],
                                 since - INDEX_TTL - q * FETCH_TIMEOUT)
    BY <2>3 DEF t
  <2> QED BY <1>4, <2>4 DEF Gathered
<1> QED BY <1>2, <1>3, <1>4 DEF Gathered

\* A request after one network more, told or skipped.
AfterOne(r, items, skipped) ==
    [at |-> "starts", kind |-> r.kind, todo |-> Tail(r.todo), usd |-> 0, txlist |-> {},
     found |-> {}, deadline |-> 0, items |-> [r.items EXCEPT ![Head(r.todo)] = items],
     skipped |-> skipped]

LEMMA ListsTail ==
  ASSUME NEW s, IsList(s), s # <<>>
  PROVE  /\ IsList(Tail(s)) /\ Len(s) \in Nat /\ Len(s) > 0 /\ Len(Tail(s)) = Len(s) - 1
         /\ Head(s) = s[1] /\ \A i \in 1..(Len(s) - 1) : Tail(s)[i] = s[i + 1]
<1>1. PICK S : s \in Seq(S)
  BY DEF IsList
<1> QED BY <1>1, HeadTailProperties DEF IsList

LEMMA OneNetworkMore ==
  ASSUME NEW log, NEW now \in Nat, LogOK(log, now), NEW r, NEW since \in Int,
         since <= now, now <= since + FETCH_TIMEOUT,
         r.todo # <<>>, Gathered(log, since, r), NEW items, NEW skipped, r.skipped \subseteq skipped,
         \/ Tells(log, items, Head(r.todo), now - INDEX_TTL - FETCH_TIMEOUT)
         \/ r.kind = "analytics" /\ Head(r.todo) \in skipped
  PROVE  JobOK(log, now, AfterOne(r, items, skipped))
<1> DEFINE new == AfterOne(r, items, skipped)
<1>0. /\ new.at = "starts" /\ new.kind = r.kind /\ new.todo = Tail(r.todo)
      /\ new.items = [r.items EXCEPT ![Head(r.todo)] = items] /\ new.skipped = skipped
      /\ new = [at |-> new.at, kind |-> new.kind, todo |-> new.todo, usd |-> new.usd,
                txlist |-> new.txlist, found |-> new.found, deadline |-> new.deadline,
                items |-> new.items, skipped |-> new.skipped]
  BY DEF AfterOne
<1> HIDE DEF new
<1>1. Gathered(log, now, new)
  <2>1. CASE /\ r.kind = "history" /\ r.items = Silence
             /\ \E c \in Chains : r.todo = <<c>> /\ r.skipped = Chains \ {c}
    <3>1. PICK c \in Chains : r.todo = <<c>> /\ r.skipped = Chains \ {c}
      BY <2>1
    <3>2. Head(r.todo) = c /\ Tail(r.todo) = <<>>
      BY <3>1
    <3>3. r.items = [d \in Chains |-> {}]
      BY <2>1 DEF Silence
    <3>4. new.items = [d \in Chains |-> IF d = c THEN items ELSE {}]
      BY <1>0, <3>2, <3>3
    <3>5. \A d \in Chains \ new.skipped :
              Tells(log, new.items[d], d, now - INDEX_TTL - FETCH_TIMEOUT)
      <4>1. \A d \in Chains \ new.skipped : d = c
        BY <1>0, <3>1
      <4>2. Tells(log, items, c, now - INDEX_TTL - FETCH_TIMEOUT)
        BY <2>1, <3>2
      <4> QED BY <3>4, <4>1, <4>2
    <3>6. new.items = [d \in Chains |-> new.items[d]]
      BY <3>4
    <3> QED BY <1>0, <2>1, <3>2, <3>5, <3>6 DEF Gathered
  <2>2. ASSUME r.kind = "analytics", r.items = [c \in Chains |-> r.items[c]], IsList(r.todo),
               NEW q \in 0..N, Len(r.todo) = N - q,
               \A i \in 1..(N - q) : r.todo[i] = EvmChains[q + i],
               \A i \in 1..q : \/ EvmChains[i] \in r.skipped
                               \/ Tells(log, r.items[EvmChains[i]], EvmChains[i],
                                        since - INDEX_TTL - q * FETCH_TIMEOUT)
        PROVE  Gathered(log, now, new)
    <3> DEFINE t == since - INDEX_TTL - q * FETCH_TIMEOUT
               u == now - INDEX_TTL - (q + 1) * FETCH_TIMEOUT
               v == now - INDEX_TTL - FETCH_TIMEOUT
    <3>1. q \in Nat /\ q * FETCH_TIMEOUT \in Nat
          /\ (q + 1) * FETCH_TIMEOUT = q * FETCH_TIMEOUT + FETCH_TIMEOUT
      <4>1. q \in Nat
        OBVIOUS
      <4>2. \A n \in Nat : n * FETCH_TIMEOUT \in Nat
                           /\ (n + 1) * FETCH_TIMEOUT = n * FETCH_TIMEOUT + FETCH_TIMEOUT
        BY Times
      <4> QED BY Zenon, <4>1, <4>2
    <3>2. t \in Int /\ u \in Int /\ v \in Int /\ u <= t /\ u <= v
      BY <3>1, Times
    <3>3. \A i \in 1..q : EvmChains[i] \in r.skipped \/ Tells(log, r.items[EvmChains[i]], EvmChains[i], t)
      BY <2>2
    <3>4. Tells(log, items, Head(r.todo), v) \/ Head(r.todo) \in skipped
      OBVIOUS
    <3>5. /\ IsList(Tail(r.todo)) /\ Len(Tail(r.todo)) = N - (q + 1) /\ q + 1 \in 0..N
          /\ Head(r.todo) = EvmChains[q + 1] /\ Head(r.todo) \in Chains
          /\ \A i \in 1..(N - (q + 1)) : Tail(r.todo)[i] = EvmChains[q + 1 + i]
      <4>1. /\ IsList(Tail(r.todo)) /\ N - q > 0 /\ Len(Tail(r.todo)) = N - q - 1
            /\ Head(r.todo) = r.todo[1] /\ \A i \in 1..(N - q - 1) : Tail(r.todo)[i] = r.todo[i + 1]
        BY <2>2, ListsTail
      <4>2. N \in Nat
        BY Times
      <4>3. q + 1 \in 1..N /\ q + 1 \in 0..N /\ N - q - 1 = N - (q + 1) /\ 1 \in 1..(N - q)
        BY <3>1, <4>1, <4>2
      <4>4. Head(r.todo) = EvmChains[q + 1]
        BY <2>2, <4>1, <4>3
      <4>5. \A i \in 1..(N - (q + 1)) :
               i + 1 \in 1..(N - q) /\ i \in 1..(N - q - 1) /\ q + (i + 1) = q + 1 + i
        BY <3>1, <4>2
      <4>6. \A i \in 1..(N - (q + 1)) : Tail(r.todo)[i] = EvmChains[q + 1 + i]
        BY <2>2, <4>1, <4>5
      <4> QED BY <4>1, <4>3, <4>4, <4>6, Times
    <3> HIDE DEF t, u, v
    <3>6. \A its, c : \A a, b \in Int : b <= a /\ Tells(log, its, c, a) => Tells(log, its, c, b)
      BY TellsLess
    <3>7. new.items = [c \in Chains |-> IF c = Head(r.todo) THEN items ELSE r.items[c]]
      <4> DEFINE f == r.items
      <4>1. f = [c \in Chains |-> f[c]]
        BY <2>2
      <4> HIDE DEF f
      <4>2. [f EXCEPT ![Head(r.todo)] = items] =
               [c \in Chains |-> IF c = Head(r.todo) THEN items ELSE f[c]]
        BY <4>1
      <4> QED BY <1>0, <4>2 DEF f
    <3>8. ASSUME NEW i \in 1..(q + 1)
          PROVE  EvmChains[i] \in skipped \/ Tells(log, new.items[EvmChains[i]], EvmChains[i], u)
      <4>1. EvmChains[i] \in Chains
        <5>1. i \in 1..N
          BY <3>1, <3>5, Times
        <5> QED BY <5>1, Times
      <4>2. CASE EvmChains[i] = Head(r.todo)
        BY <3>2, <3>4, <3>6, <3>7, <4>1, <4>2
      <4>3. CASE EvmChains[i] # Head(r.todo)
        <5>1. i # q + 1
          BY <3>5, <4>3
        <5>2. i \in 1..q
          BY <3>1, <5>1
        <5>3. new.items[EvmChains[i]] = r.items[EvmChains[i]]
          BY <3>7, <4>1, <4>3
        <5> QED BY <3>2, <3>3, <3>6, <5>2, <5>3
      <4> QED BY <4>2, <4>3
    <3>9. new.items = [c \in Chains |-> new.items[c]]
      BY <3>7
    <3>10. \A i \in 1..(q + 1) : \/ EvmChains[i] \in new.skipped
                                 \/ Tells(log, new.items[EvmChains[i]], EvmChains[i],
                                          now - INDEX_TTL - (q + 1) * FETCH_TIMEOUT)
      BY <1>0, <3>8 DEF u
    <3> DEFINE p == q + 1
    <3>11. /\ p \in 0..N /\ Len(Tail(r.todo)) = N - p
           /\ \A i \in 1..(N - p) : Tail(r.todo)[i] = EvmChains[p + i]
           /\ \A i \in 1..p : \/ EvmChains[i] \in new.skipped
                              \/ Tells(log, new.items[EvmChains[i]], EvmChains[i],
                                       now - INDEX_TTL - p * FETCH_TIMEOUT)
      BY <3>5, <3>10
    <3> HIDE DEF p
    <3> QED BY ZenonT(60), <1>0, <2>2, <3>5, <3>9, <3>11 DEF Gathered
  <2> QED BY <2>1, <2>2 DEF Gathered
<1> QED BY <1>0, <1>1 DEF JobOK, Fetching, new

\* A transaction is mined under a request, or a day passes.
LEMMA JobMore ==
  ASSUME NEW log, NEW now \in Nat, LogOK(log, now), NEW tx, tx.at = now, NEW r,
         LogOK(Append(log, tx), now), JobOK(log, now, r)
  PROVE  JobOK(Append(log, tx), now, r)
<1>0. IsList(log)
  BY DEF LogOK
<1>1. \A items, c : \A t \in Int : t < now /\ Tells(log, items, c, t) => Tells(Append(log, tx), items, c, t)
  BY TellsMore
<1>2. r.at \in Fetching => r.deadline - FETCH_TIMEOUT \in Int /\ r.deadline - FETCH_TIMEOUT <= now
  BY Times DEF JobOK
<1>3. r.at \in Fetching => Gathered(Append(log, tx), r.deadline - FETCH_TIMEOUT, r)
  <2> SUFFICES ASSUME r.at \in Fetching PROVE Gathered(Append(log, tx), r.deadline - FETCH_TIMEOUT, r)
    OBVIOUS
  <2> DEFINE since == r.deadline - FETCH_TIMEOUT
  <2>1. since \in Int /\ since <= now /\ Gathered(log, since, r)
    BY <1>2 DEF JobOK
  <2> HIDE DEF since
  <2>2. Gathered(Append(log, tx), since, r)
    BY <2>1, GatheredMore
  <2> QED BY <2>2 DEF since
<1>4. r.at = "starts" => Gathered(Append(log, tx), now, r)
  <2>1. now \in Int /\ now <= now
    OBVIOUS
  <2> QED BY <2>1, GatheredMore DEF JobOK
<1>5. r.at = "tokentx" =>
        /\ r.txlist \subseteq OwnTxs(Append(log, tx), Head(r.todo))
        /\ \A x \in TxList(Append(log, tx), Head(r.todo)) :
             x.at <= r.deadline - FETCH_TIMEOUT - 1 => x \in r.txlist
  <2> SUFFICES ASSUME r.at = "tokentx"
               PROVE  /\ r.txlist \subseteq OwnTxs(Append(log, tx), Head(r.todo))
                      /\ \A x \in TxList(Append(log, tx), Head(r.todo)) :
                           x.at <= r.deadline - FETCH_TIMEOUT - 1 => x \in r.txlist
    OBVIOUS
  <2>1. r.at \in Fetching
    BY DEF Fetching
  <2>2. ToSet(Append(log, tx)) = ToSet(log) \cup {tx}
    BY <1>0, OneMore
  <2>3. r.txlist \subseteq OwnTxs(log, Head(r.todo))
    BY DEF JobOK
  <2>4. r.txlist \subseteq OwnTxs(Append(log, tx), Head(r.todo))
    BY <2>2, <2>3 DEF OwnTxs, MinedOn
  <2>5. ~ (tx.at <= r.deadline - FETCH_TIMEOUT - 1)
    BY <1>2, <2>1
  <2>6. ASSUME NEW x \in TxList(Append(log, tx), Head(r.todo))
        PROVE  x = tx \/ x \in TxList(log, Head(r.todo))
    <3>1. x \in ToSet(Append(log, tx)) /\ x.chain = Head(r.todo)
      BY DEF TxList, OwnTxs, MinedOn
    <3> QED BY <2>2, <3>1, PagesMore
  <2>7. \A x \in TxList(log, Head(r.todo)) : x.at <= r.deadline - FETCH_TIMEOUT - 1 => x \in r.txlist
    BY DEF JobOK
  <2> QED BY <2>4, <2>5, <2>6, <2>7
<1>6. r.at = "stores" => Tells(Append(log, tx), r.found, Head(r.todo), r.deadline - FETCH_TIMEOUT - 1)
  <2> SUFFICES ASSUME r.at = "stores"
               PROVE  Tells(Append(log, tx), r.found, Head(r.todo), r.deadline - FETCH_TIMEOUT - 1)
    OBVIOUS
  <2>1. r.at \in Fetching
    BY DEF Fetching
  <2>2. r.deadline - FETCH_TIMEOUT - 1 \in Int /\ r.deadline - FETCH_TIMEOUT - 1 < now
    BY <1>2, <2>1
  <2>3. Tells(log, r.found, Head(r.todo), r.deadline - FETCH_TIMEOUT - 1)
    BY DEF JobOK
  <2> QED BY <1>1, <2>2, <2>3
<1>7. r.at = "done" =>
        \A c \in Chains \ r.skipped : Tells(Append(log, tx), r.items[c], c, now - Lag(r.kind))
  <2>1. now - Lag(r.kind) \in Int /\ now - Lag(r.kind) < now
    <3>1. AnalyticsLag = ANALYTICS_TTL + INDEX_TTL - 1 + N * FETCH_TIMEOUT
      BY DEF AnalyticsLag, N
    <3>2. AnalyticsLag \in Nat /\ AnalyticsLag > 0
      BY <3>1, Times
    <3>3. IndexLag \in Nat /\ IndexLag > 0
      BY Lifetimes DEF IndexLag
    <3>4. Lag(r.kind) \in Nat /\ Lag(r.kind) > 0
      BY <3>2, <3>3 DEF Lag
    <3> QED BY <3>4
  <2>2. r.at = "done" =>
          \A c \in Chains \ r.skipped : Tells(log, r.items[c], c, now - Lag(r.kind))
    BY DEF JobOK
  <2> DEFINE t == now - Lag(r.kind)
  <2> HIDE DEF t
  <2>3. r.at = "done" =>
          \A c \in Chains \ r.skipped : Tells(log, r.items[c], c, t)
    BY <2>2 DEF t
  <2>4. t \in Int /\ t < now
    BY <2>1 DEF t
  <2>5. r.at = "done" =>
          \A c \in Chains \ r.skipped : Tells(Append(log, tx), r.items[c], c, t)
    BY <1>1, <2>3, <2>4
  <2> QED BY <2>5 DEF t
<1> QED BY <1>3, <1>4, <1>5, <1>6, <1>7 DEF JobOK

LEMMA JobTick ==
  ASSUME NEW log, NEW now \in Nat, NEW r, JobOK(log, now, r),
         r.at = "idle" \/ (r.at \in Fetching /\ now < r.deadline)
  PROVE  JobOK(log, now + 1, r)
<1>1. CASE r.at = "idle"
  BY <1>1 DEF JobOK, Fetching
<1>2. CASE r.at \in Fetching /\ now < r.deadline
  <2>1. /\ r.deadline \in Nat /\ r.deadline <= now + FETCH_TIMEOUT
    BY <1>2 DEF JobOK
  <2>2. r.deadline <= now + 1 + FETCH_TIMEOUT /\ now + 1 <= r.deadline
    BY <1>2, <2>1, Times
  <2>3. r.at # "starts" /\ r.at # "done"
    BY <1>2 DEF Fetching
  <2> QED BY <1>2, <2>2, <2>3 DEF JobOK
<1> QED BY <1>1, <1>2

LEMMA LogMore ==
  ASSUME NEW log, NEW now \in Nat, LogOK(log, now), NEW tx, tx.hash = Len(log) + 1, tx.at = now,
         Owner \in {tx.from, tx.to} \/ OwnPlaces(tx.moves) # {}, IsFiniteSet(DOMAIN tx.moves)
  PROVE  LogOK(Append(log, tx), now)
<1>1. IsList(log) /\ Len(log) \in Nat /\ DOMAIN log = 1..Len(log)
  BY ListFacts DEF LogOK
<1>2. /\ IsList(Append(log, tx)) /\ DOMAIN Append(log, tx) = 1..(Len(log) + 1)
      /\ \A k \in 1..Len(log) : Append(log, tx)[k] = log[k]
      /\ Append(log, tx)[Len(log) + 1] = tx
  BY <1>1, ListsAppend
<1>3. ASSUME NEW k \in DOMAIN Append(log, tx)
      PROVE  \/ k \in DOMAIN log /\ Append(log, tx)[k] = log[k]
             \/ k = Len(log) + 1 /\ Append(log, tx)[k] = tx
  <2>1. k \in 1..Len(log) \/ k = Len(log) + 1
    BY <1>1, <1>2, <1>3
  <2>2. CASE k \in 1..Len(log)
    BY <1>1, <1>2, <2>2
  <2>3. CASE k = Len(log) + 1
    BY <1>2, <2>3
  <2> QED BY <2>1, <2>2, <2>3
<1> QED BY <1>2, <1>3 DEF LogOK

-----------------------------------------------------------------------------

\* A transaction of one of the deeds.
LEMMA TxFacts ==
  ASSUME NEW hash, NEW at, NEW c, NEW deed \in Deeds \cup {p[2] : p \in ToSet(Past)}
  PROVE  /\ Tx(hash, at, c, deed).hash = hash /\ Tx(hash, at, c, deed).at = at
         /\ Tx(hash, at, c, deed).chain = c
         /\ \/ Owner \in {Tx(hash, at, c, deed).from, Tx(hash, at, c, deed).to}
            \/ OwnPlaces(Tx(hash, at, c, deed).moves) # {}
         /\ IsFiniteSet(DOMAIN Tx(hash, at, c, deed).moves)
<1>1. Owner \in {deed.from, deed.to} \/ OwnPlaces(deed.moves) # {}
  BY HistoryAssumption, Zenon
<1>2. IsFiniteSet(DOMAIN deed.moves)
  BY HistoryAssumption, Zenon
<1> DEFINE x == Tx(hash, at, c, deed)
<1>3. /\ x.hash = hash /\ x.at = at /\ x.chain = c
      /\ x.from = deed.from /\ x.to = deed.to /\ x.moves = deed.moves
  BY DEF Tx
<1> HIDE DEF x
<1>4. Owner \in {x.from, x.to} \/ OwnPlaces(x.moves) # {}
  BY <1>1, <1>3
<1>5. IsFiniteSet(DOMAIN x.moves)
  BY <1>2, <1>3
<1> QED BY <1>3, <1>4, <1>5 DEF x

LEMMA MinesKeeps ==
  ASSUME HistoryInvariant, NEW c \in Chains, Mines(c)
  PROVE  HistoryInvariant'
<1>1. PICK deed \in Deeds : mined' = Append(mined, Tx(Len(mined) + 1, clock, c, deed))
  BY DEF Mines
<1>2. UNCHANGED <<clock, index, collected, job>>
  BY DEF Mines
<1>3. PICK tx : /\ mined' = Append(mined, tx) /\ tx.hash = Len(mined) + 1 /\ tx.at = clock
                /\ Owner \in {tx.from, tx.to} \/ OwnPlaces(tx.moves) # {}
                /\ IsFiniteSet(DOMAIN tx.moves)
  BY <1>1, TxFacts
<1>4. clock \in Nat /\ LogOK(mined, clock) /\ IsList(mined)
  BY DEF HistoryInvariant, LogOK
<1>5. LogOK(mined', clock)
  BY <1>3, <1>4, LogMore
<1>6. \A items, d : \A t \in Int : t < clock /\ Tells(mined, items, d, t) => Tells(mined', items, d, t)
  BY <1>3, <1>4, <1>5, TellsMore
<1>7. ASSUME NEW d \in Chains, EntryOK(mined, clock, d, index[d])
      PROVE  EntryOK(mined', clock, d, index[d])
  <2> DEFINE e == index[d]
             t == e.at - FETCH_TIMEOUT - 1
  <2>1. CASE e = Nothing
    BY <2>1 DEF EntryOK
  <2>2. CASE e.at \in Nat /\ e.at <= clock /\ Tells(mined, e.items, d, t)
    <3>1. t \in Int /\ t < clock
      BY <1>4, <2>2, Times
    <3> HIDE DEF e, t
    <3>2. Tells(mined', e.items, d, t)
      BY <1>6, <2>2, <3>1
    <3> QED BY <2>2, <3>2 DEF EntryOK, t, e
  <2> QED BY <1>7, <2>1, <2>2 DEF EntryOK
<1>8. CollectedOK(mined', clock, collected)
  <2> DEFINE t == collected.at - INDEX_TTL - N * FETCH_TIMEOUT
  <2>1. CASE collected = Nothing
    BY <2>1 DEF CollectedOK
  <2>2. CASE /\ collected.at \in Nat /\ collected.at <= clock
             /\ \A d \in Chains \ collected.skipped : Tells(mined, collected.items[d], d, t)
    <3>1. t \in Int /\ t < clock
      BY <1>4, <2>2, Times
    <3> HIDE DEF t
    <3>2. \A d \in Chains \ collected.skipped : Tells(mined', collected.items[d], d, t)
      BY <1>6, <2>2, <3>1
    <3> QED BY <2>2, <3>2 DEF CollectedOK, t
  <2> QED BY <2>1, <2>2 DEF HistoryInvariant, CollectedOK
<1>9. \A j \in Jobs : JobOK(mined', clock, job[j])
  BY <1>3, <1>4, <1>5, JobMore DEF HistoryInvariant
<1> QED BY <1>2, <1>4, <1>5, <1>7, <1>8, <1>9 DEF HistoryInvariant

LEMMA HistoryTickKeeps ==
  ASSUME HistoryInvariant, HistoryTick
  PROVE  HistoryInvariant'
<1>1. clock' = clock + 1 /\ UNCHANGED <<mined, index, collected, job>> /\ clock \in Nat
  BY DEF HistoryTick, Tick, HistoryInvariant
<1>2. LogOK(mined, clock + 1)
  <2>1. \A k \in DOMAIN mined : mined[k].at \in Nat /\ mined[k].at <= clock
    BY DEF HistoryInvariant, LogOK
  <2>2. \A k \in DOMAIN mined : mined[k].at <= clock + 1
    BY <1>1, <2>1
  <2> QED BY <2>2 DEF HistoryInvariant, LogOK
<1>3. ASSUME NEW at \in Nat, at <= clock PROVE at <= clock + 1
  BY <1>1, <1>3
<1>4. \A c \in Chains : EntryOK(mined, clock + 1, c, index[c])
  BY <1>3 DEF HistoryInvariant, EntryOK
<1>5. CollectedOK(mined, clock + 1, collected)
  BY <1>3 DEF HistoryInvariant, CollectedOK
<1>6. \A j \in Jobs : JobOK(mined, clock + 1, job[j])
  <2>1. \A j \in Jobs : job[j].at = "idle" \/ (job[j].at \in Fetching /\ clock < job[j].deadline)
    BY DEF HistoryTick, Fetching
  <2> QED BY <1>1, <2>1, JobTick DEF HistoryInvariant
<1>7. clock + 1 \in Nat
  BY <1>1
<1> QED BY <1>1, <1>2, <1>4, <1>5, <1>6, <1>7 DEF HistoryInvariant

\* A request goes on, and the rest with it.
LEMMA JobGoes ==
  ASSUME HistoryInvariant, NEW j \in Jobs, NEW to, Goes(j, to), UNCHANGED <<clock, mined>>,
         JobOK(mined, clock, to),
         index' = [c \in Chains |-> index'[c]],
         \A c \in Chains : EntryOK(mined, clock, c, index'[c]),
         CollectedOK(mined, clock, collected')
  PROVE  HistoryInvariant'
<1>1. job' = [i \in Jobs |-> IF i = j THEN to ELSE job[i]]
  BY DEF Goes, HistoryInvariant
<1>2. \A i \in Jobs : JobOK(mined, clock, job'[i])
  BY <1>1 DEF HistoryInvariant
<1>3. job' = [i \in Jobs |-> job'[i]]
  BY <1>1
<1> QED BY <1>2, <1>3 DEF HistoryInvariant

LEMMA JobGoesAlone ==
  ASSUME HistoryInvariant, NEW j \in Jobs, NEW to, Goes(j, to),
         UNCHANGED <<clock, mined, index, collected>>, JobOK(mined, clock, to)
  PROVE  HistoryInvariant'
BY JobGoes DEF HistoryInvariant

LEMMA NoJobForm ==
  /\ NoJob = [at |-> NoJob.at, kind |-> NoJob.kind, todo |-> NoJob.todo, usd |-> NoJob.usd,
              txlist |-> NoJob.txlist, found |-> NoJob.found, deadline |-> NoJob.deadline,
              items |-> NoJob.items, skipped |-> NoJob.skipped]
  /\ NoJob.todo = <<>> /\ NoJob.usd = 0 /\ NoJob.txlist = {} /\ NoJob.found = {}
  /\ NoJob.deadline = 0 /\ NoJob.skipped = {}
BY DEF NoJob

\* A request that goes on.
Continued(at, kind, todo, skipped, items) ==
    [NoJob EXCEPT !.at = at, !.kind = kind, !.todo = todo, !.skipped = skipped, !.items = items]

LEMMA JobEnds ==
  ASSUME NEW at
  PROVE  [NoJob EXCEPT !.at = at] =
           [at |-> at, kind |-> NoJob.kind, todo |-> <<>>, usd |-> 0, txlist |-> {},
            found |-> {}, deadline |-> 0, items |-> NoJob.items, skipped |-> {}]
<1> DEFINE new == [NoJob EXCEPT !.at = at]
<1>1. new = [NoJob EXCEPT !.at = at]
  OBVIOUS
<1>2. NoJob = [at |-> NoJob.at, kind |-> NoJob.kind, todo |-> NoJob.todo, usd |-> NoJob.usd,
               txlist |-> NoJob.txlist, found |-> NoJob.found, deadline |-> NoJob.deadline,
               items |-> NoJob.items, skipped |-> NoJob.skipped]
  BY NoJobForm
<1> HIDE DEF new
<1>3. new =
        [at |-> at, kind |-> NoJob.kind, todo |-> NoJob.todo, usd |-> NoJob.usd, txlist |-> NoJob.txlist,
         found |-> NoJob.found, deadline |-> NoJob.deadline, items |-> NoJob.items, skipped |-> NoJob.skipped]
  BY <1>1, <1>2
<1> QED BY Zenon, <1>3, NoJobForm DEF new

LEMMA JobContinues ==
  ASSUME NEW at, NEW kind, NEW todo, NEW skipped, NEW items
  PROVE  Continued(at, kind, todo, skipped, items) =
           [at |-> at, kind |-> kind, todo |-> todo, usd |-> 0, txlist |-> {},
            found |-> {}, deadline |-> 0, items |-> items, skipped |-> skipped]
<1> DEFINE new == Continued(at, kind, todo, skipped, items)
<1>1. new = [NoJob EXCEPT !.at = at, !.kind = kind, !.todo = todo, !.skipped = skipped, !.items = items]
  BY DEF Continued
<1>2. NoJob = [at |-> NoJob.at, kind |-> NoJob.kind, todo |-> NoJob.todo, usd |-> NoJob.usd,
               txlist |-> NoJob.txlist, found |-> NoJob.found, deadline |-> NoJob.deadline,
               items |-> NoJob.items, skipped |-> NoJob.skipped]
  BY NoJobForm
<1> HIDE DEF new
<1>3. new =
        [at |-> at, kind |-> kind, todo |-> todo, usd |-> NoJob.usd, txlist |-> NoJob.txlist,
         found |-> NoJob.found, deadline |-> NoJob.deadline, items |-> items, skipped |-> skipped]
  BY <1>1, <1>2
<1> QED BY Zenon, <1>3, NoJobForm DEF new

LEMMA AsksHistoryKeeps ==
  ASSUME HistoryInvariant, NEW j \in Jobs, NEW c \in Chains, AsksHistory(j, c)
  PROVE  HistoryInvariant'
<1> DEFINE to == [at |-> "starts", kind |-> "history", todo |-> <<c>>, usd |-> 0, txlist |-> {},
                  found |-> {}, deadline |-> 0, items |-> Silence, skipped |-> Chains \ {c}]
<1>1. Goes(j, to) /\ UNCHANGED <<clock, mined, index, collected>>
  <2> DEFINE skipped == Chains \ {c}
             new == [NoJob EXCEPT !.at = "starts", !.kind = "history", !.todo = <<c>>,
                                  !.items = Silence, !.skipped = skipped]
  <2>1. Goes(j, new) /\ UNCHANGED <<clock, mined, index, collected>>
    BY DEF AsksHistory
  <2>2. new = [at |-> "starts", kind |-> "history", todo |-> <<c>>, usd |-> NoJob.usd,
               txlist |-> NoJob.txlist, found |-> NoJob.found, deadline |-> NoJob.deadline,
               items |-> Silence, skipped |-> skipped]
    <3>1. new = [NoJob EXCEPT !.at = "starts", !.kind = "history", !.todo = <<c>>,
                              !.items = Silence, !.skipped = skipped]
      OBVIOUS
    <3> HIDE DEF new, skipped
    <3> QED BY <3>1, NoJobForm
  <2> HIDE DEF new, skipped
  <2>3. new = [at |-> "starts", kind |-> "history", todo |-> <<c>>, usd |-> 0, txlist |-> {},
               found |-> {}, deadline |-> 0, items |-> Silence, skipped |-> skipped]
    BY Zenon, <2>2, NoJobForm
  <2>4. new = to
    BY <2>3 DEF skipped
  <2> HIDE DEF to
  <2> QED BY <2>1, <2>4
<1>2. JobOK(mined, clock, to)
  BY DEF JobOK, Gathered, Fetching
<1> HIDE DEF to
<1> QED BY <1>1, <1>2, JobGoesAlone

LEMMA AsksAnalyticsKeeps ==
  ASSUME HistoryInvariant, NEW j \in Jobs, AsksAnalytics(j)
  PROVE  HistoryInvariant'
<1>0. clock \in Nat /\ LogOK(mined, clock)
  BY DEF HistoryInvariant
<1>1. CASE collected # Nothing /\ clock - collected.at < ANALYTICS_TTL
  <2> DEFINE to == [at |-> "done", kind |-> "analytics", todo |-> <<>>, usd |-> 0, txlist |-> {},
                    found |-> {}, deadline |-> 0, items |-> collected.items,
                    skipped |-> collected.skipped]
             t == collected.at - INDEX_TTL - N * FETCH_TIMEOUT
             u == clock - AnalyticsLag
  <2>1. Goes(j, to) /\ UNCHANGED <<clock, mined, index, collected>>
    BY <1>1 DEF AsksAnalytics, NoJob
  <2>2. /\ collected.at \in Nat
        /\ \A c \in Chains \ collected.skipped : Tells(mined, collected.items[c], c, t)
    BY <1>1 DEF HistoryInvariant, CollectedOK
  <2>3. t \in Int /\ u \in Int /\ u <= t
    <3>1. AnalyticsLag = ANALYTICS_TTL + INDEX_TTL - 1 + N * FETCH_TIMEOUT
      BY DEF AnalyticsLag, N
    <3>2. N * FETCH_TIMEOUT \in Nat /\ ANALYTICS_TTL \in Nat /\ INDEX_TTL \in Nat
      BY Times
    <3> QED BY <1>0, <1>1, <2>2, <3>1, <3>2
  <2> HIDE DEF t, u
  <2>4. \A c \in Chains \ collected.skipped : Tells(mined, collected.items[c], c, u)
    BY <1>0, <2>2, <2>3, TellsLess
  <2>5. JobOK(mined, clock, to)
    BY <2>4 DEF JobOK, Fetching, Lag, u
  <2> HIDE DEF to
  <2> QED BY <2>1, <2>5, JobGoesAlone
<1>2. CASE ~ (collected # Nothing /\ clock - collected.at < ANALYTICS_TTL)
  <2> DEFINE to == [at |-> "starts", kind |-> "analytics", todo |-> EvmChains, usd |-> 0,
                    txlist |-> {}, found |-> {}, deadline |-> 0, items |-> Silence, skipped |-> {}]
  <2>1. Goes(j, to) /\ UNCHANGED <<clock, mined, index, collected>>
    BY <1>2 DEF AsksAnalytics, NoJob
  <2>2. Gathered(mined, clock, to)
    <3>1. IsList(EvmChains) /\ 0 \in 0..N /\ Len(EvmChains) = N - 0
      BY Times, HistoryAssumption DEF IsList, N
    <3>2. \A i \in 1..(N - 0) : to.todo[i] = EvmChains[0 + i]
      BY Times
    <3>3. 1..0 = {}
      OBVIOUS
    <3>4. to.items = [c \in Chains |-> to.items[c]]
      BY DEF Silence
    <3>5. to.kind = "analytics" /\ to.todo = EvmChains
      OBVIOUS
    <3> HIDE DEF to
    <3> QED BY <3>1, <3>2, <3>3, <3>4, <3>5 DEF Gathered
  <2>3. JobOK(mined, clock, to)
    <3>1. /\ to.at = "starts"
          /\ to = [at |-> to.at, kind |-> to.kind, todo |-> to.todo, usd |-> to.usd,
                   txlist |-> to.txlist, found |-> to.found, deadline |-> to.deadline,
                   items |-> to.items, skipped |-> to.skipped]
      OBVIOUS
    <3> HIDE DEF to
    <3> QED BY <2>2, <3>1 DEF JobOK, Fetching
  <2> HIDE DEF to
  <2> QED BY <2>1, <2>3, JobGoesAlone
<1> QED BY <1>1, <1>2

\* Told and Skipped make the record of one network more.
LEMMA ToldForm ==
  ASSUME NEW j \in Jobs, NEW items
  PROVE  /\ Told(j, items) = AfterOne(job[j], items, job[j].skipped)
         /\ Skipped(j) = AfterOne(job[j], {}, job[j].skipped \cup {Head(job[j].todo)})
<1> DEFINE kind == job[j].kind
           todo == Tail(job[j].todo)
           skipped == job[j].skipped
           one == Head(job[j].todo)
           its == [job[j].items EXCEPT ![one] = items]
           none == [job[j].items EXCEPT ![one] = {}]
<1> HIDE DEF kind, todo, skipped, its, none
<1>1. \A f : Continued("starts", kind, todo, skipped, f) =
             [at |-> "starts", kind |-> kind, todo |-> todo, usd |-> 0, txlist |-> {},
              found |-> {}, deadline |-> 0, items |-> f, skipped |-> skipped]
  BY JobContinues
<1>2. Told(j, items) = Continued("starts", kind, todo, skipped, its)
  BY Zenon DEF Told, Chain, Continued, kind, todo, skipped, its
<1>3. Told(j, {}) = Continued("starts", kind, todo, skipped, none)
  BY Zenon DEF Told, Chain, Continued, kind, todo, skipped, none
<1>4. Told(j, items) = AfterOne(job[j], items, skipped)
  <2>1. Told(j, items) = [at |-> "starts", kind |-> kind, todo |-> todo, usd |-> 0, txlist |-> {},
                          found |-> {}, deadline |-> 0, items |-> its, skipped |-> skipped]
    BY <1>1, <1>2
  <2> QED BY Zenon, <2>1 DEF AfterOne, kind, todo, its
<1>5. Skipped(j) = AfterOne(job[j], {}, skipped \cup {one})
  <2> DEFINE more == skipped \cup {one}
  <2>1. Skipped(j) = [Told(j, {}) EXCEPT !.skipped = @ \cup {one}]
    BY Zenon DEF Skipped, Chain
  <2>2. Skipped(j) = [at |-> "starts", kind |-> kind, todo |-> todo, usd |-> 0, txlist |-> {},
                      found |-> {}, deadline |-> 0, items |-> none, skipped |-> more]
    <3> DEFINE before == Told(j, {})
               after == Skipped(j)
    <3>1. after = [before EXCEPT !.skipped = @ \cup {one}]
      BY <2>1
    <3>2. before = [at |-> "starts", kind |-> kind, todo |-> todo, usd |-> NoJob.usd,
                    txlist |-> NoJob.txlist, found |-> NoJob.found, deadline |-> NoJob.deadline,
                    items |-> none, skipped |-> skipped]
      BY Zenon, <1>1, <1>3, NoJobForm
    <3> HIDE DEF before, after
    <3>3. after = [at |-> "starts", kind |-> kind, todo |-> todo, usd |-> NoJob.usd,
                   txlist |-> NoJob.txlist, found |-> NoJob.found, deadline |-> NoJob.deadline,
                   items |-> none, skipped |-> more]
      BY <3>1, <3>2
    <3> QED BY Zenon, <3>3, NoJobForm DEF after
  <2> HIDE DEF more
  <2> QED BY Zenon, <2>2 DEF AfterOne, kind, todo, none, more
<1> QED BY <1>4, <1>5 DEF skipped

\* The next network of a request is one of those that are known.
LEMMA NextIsKnown ==
  ASSUME NEW log, NEW since, NEW r, Gathered(log, since, r), r.todo # <<>>
  PROVE  Head(r.todo) \in Chains
<1>1. CASE \E c \in Chains : r.todo = <<c>>
  BY <1>1
<1>2. ASSUME IsList(r.todo), NEW q \in 0..N, Len(r.todo) = N - q,
             \A i \in 1..(N - q) : r.todo[i] = EvmChains[q + i]
      PROVE  Head(r.todo) \in Chains
  <2>1. N - q > 0 /\ Head(r.todo) = r.todo[1] /\ q \in Nat /\ N \in Nat
    BY <1>2, ListsTail, Times
  <2>2. 1 \in 1..(N - q) /\ q + 1 \in 1..N
    BY <2>1
  <2> QED BY <1>2, <2>1, <2>2, Times
<1> QED BY <1>1, <1>2 DEF Gathered

LEMMA LooksUpKeeps ==
  ASSUME HistoryInvariant, NEW j \in Jobs, LooksUp(j)
  PROVE  HistoryInvariant'
<1> DEFINE r == job[j]
           c == Head(r.todo)
<1>0. /\ clock \in Nat /\ LogOK(mined, clock) /\ JobOK(mined, clock, r)
      /\ r.at = "starts" /\ r.todo # <<>> /\ Gathered(mined, clock, r)
      /\ UNCHANGED <<clock, mined, index, collected>>
  BY DEF HistoryInvariant, LooksUp, JobOK
<1>1. c \in Chains
  BY <1>0, NextIsKnown
<1>2. CASE IndexFresh(c)
  <2>1. Goes(j, Told(j, index[c].items))
    BY <1>2 DEF LooksUp, Chain
  <2> DEFINE t == index[c].at - FETCH_TIMEOUT - 1
             u == clock - INDEX_TTL - FETCH_TIMEOUT
  <2>2. index[c].at \in Nat /\ Tells(mined, index[c].items, c, t) /\ clock - index[c].at < INDEX_TTL
    BY <1>1, <1>2 DEF HistoryInvariant, EntryOK, IndexFresh
  <2>3. t \in Int /\ u \in Int /\ u <= t
    <3>1. FETCH_TIMEOUT \in Nat /\ INDEX_TTL \in Nat /\ clock \in Nat
      BY <1>0, Times
    <3>2. index[c].at \in Nat /\ clock - index[c].at < INDEX_TTL
      BY <2>2
    <3> HIDE DEF c
    <3> QED BY <3>1, <3>2
  <2> HIDE DEF t, u
  <2>4. Tells(mined, index[c].items, c, u)
    BY <1>0, <2>2, <2>3, TellsLess
  <2>5. clock <= clock + FETCH_TIMEOUT
    BY <1>0, Times
  <2>6. JobOK(mined, clock, AfterOne(r, index[c].items, r.skipped))
    BY <1>0, <2>4, <2>5, OneNetworkMore DEF u
  <2>7. JobOK(mined, clock, Told(j, index[c].items))
    BY <2>6, ToldForm
  <2> QED BY <1>0, <2>1, <2>7, JobGoesAlone
<1>3. CASE ~ IndexFresh(c)
  <2>1. PICK usd : Goes(j, [job[j] EXCEPT !.at = "txlist", !.usd = usd,
                                          !.deadline = clock + FETCH_TIMEOUT])
    BY <1>3 DEF LooksUp, Chain
  <2> DEFINE to == [at |-> "txlist", kind |-> r.kind, todo |-> r.todo, usd |-> usd,
                    txlist |-> r.txlist, found |-> r.found, deadline |-> clock + FETCH_TIMEOUT,
                    items |-> r.items, skipped |-> r.skipped]
  <2>2. r = [at |-> r.at, kind |-> r.kind, todo |-> r.todo, usd |-> r.usd, txlist |-> r.txlist,
            found |-> r.found, deadline |-> r.deadline, items |-> r.items, skipped |-> r.skipped]
    BY <1>0 DEF JobOK
  <2>3. [r EXCEPT !.at = "txlist", !.usd = usd, !.deadline = clock + FETCH_TIMEOUT] = to
    <3> DEFINE deadline == clock + FETCH_TIMEOUT
               new == [r EXCEPT !.at = "txlist", !.usd = usd, !.deadline = deadline]
    <3>0. new = [r EXCEPT !.at = "txlist", !.usd = usd, !.deadline = deadline]
      OBVIOUS
    <3> HIDE DEF r, deadline, new
    <3>1. new = [at |-> "txlist", kind |-> r.kind, todo |-> r.todo, usd |-> usd,
                 txlist |-> r.txlist, found |-> r.found, deadline |-> deadline,
                 items |-> r.items, skipped |-> r.skipped]
      BY <2>2, <3>0
    <3> QED BY <3>1 DEF deadline, new
  <2>4. /\ to.deadline \in Nat /\ to.deadline <= clock + FETCH_TIMEOUT /\ clock <= to.deadline
        /\ to.deadline - FETCH_TIMEOUT = clock
    BY <1>0, Times
  <2>5. /\ to.todo = r.todo /\ to.items = r.items /\ to.kind = r.kind /\ to.skipped = r.skipped
        /\ to.at = "txlist"
        /\ to = [at |-> to.at, kind |-> to.kind, todo |-> to.todo, usd |-> to.usd,
                 txlist |-> to.txlist, found |-> to.found, deadline |-> to.deadline,
                 items |-> to.items, skipped |-> to.skipped]
    OBVIOUS
  <2>6. Goes(j, to)
    BY <2>1, <2>3
  <2> HIDE DEF to, r
  <2>7. Gathered(mined, clock, to)
    BY <1>0, <2>5 DEF Gathered
  <2>8. JobOK(mined, clock, to)
    BY <1>0, <2>4, <2>5, <2>7 DEF JobOK, Fetching
  <2> QED BY <1>0, <2>6, <2>8, JobGoesAlone
<1> QED BY <1>2, <1>3

LEMMA FetchesTxlistKeeps ==
  ASSUME HistoryInvariant, NEW j \in Jobs, FetchesTxlist(j)
  PROVE  HistoryInvariant'
<1> DEFINE r == job[j]
           list == TxList(mined, Head(r.todo))
           to == [at |-> "tokentx", kind |-> r.kind, todo |-> r.todo, usd |-> r.usd, txlist |-> list,
                  found |-> r.found, deadline |-> r.deadline, items |-> r.items,
                  skipped |-> r.skipped]
<1>0. /\ clock \in Nat /\ LogOK(mined, clock) /\ JobOK(mined, clock, r) /\ r.at = "txlist"
      /\ UNCHANGED <<clock, mined, index, collected>>
  BY DEF HistoryInvariant, FetchesTxlist
<1>1. r = [at |-> r.at, kind |-> r.kind, todo |-> r.todo, usd |-> r.usd, txlist |-> r.txlist,
           found |-> r.found, deadline |-> r.deadline, items |-> r.items, skipped |-> r.skipped]
  BY <1>0 DEF JobOK
<1>2. Goes(j, [r EXCEPT !.at = "tokentx", !.txlist = list])
  BY DEF FetchesTxlist, Chain
<1>3. list \subseteq OwnTxs(mined, Head(r.todo)) /\ list = TxList(mined, Head(r.todo))
  BY DEF TxList
<1> HIDE DEF r, list
<1>4. [r EXCEPT !.at = "tokentx", !.txlist = list] = to
  <2> DEFINE new == [r EXCEPT !.at = "tokentx", !.txlist = list]
  <2>1. new = [r EXCEPT !.at = "tokentx", !.txlist = list]
    OBVIOUS
  <2> HIDE DEF new
  <2>2. new = to
    BY <1>1, <2>1
  <2> QED BY <2>2 DEF new
<1>5. /\ to.at = "tokentx" /\ to.kind = r.kind /\ to.todo = r.todo /\ to.items = r.items
      /\ to.skipped = r.skipped /\ to.deadline = r.deadline /\ to.txlist = list
      /\ to = [at |-> to.at, kind |-> to.kind, todo |-> to.todo, usd |-> to.usd,
               txlist |-> to.txlist, found |-> to.found, deadline |-> to.deadline,
               items |-> to.items, skipped |-> to.skipped]
  OBVIOUS
<1> HIDE DEF to
<1>6. /\ r.deadline \in Nat /\ r.deadline <= clock + FETCH_TIMEOUT /\ clock <= r.deadline
      /\ r.todo # <<>> /\ Gathered(mined, r.deadline - FETCH_TIMEOUT, r)
  BY <1>0 DEF JobOK, Fetching
<1>7. Gathered(mined, to.deadline - FETCH_TIMEOUT, to)
  BY <1>0, <1>5, <1>6 DEF Gathered
<1>8. JobOK(mined, clock, to)
  BY <1>3, <1>5, <1>6, <1>7 DEF JobOK, Fetching
<1> QED BY <1>0, <1>2, <1>4, <1>8, JobGoesAlone

LEMMA FetchesTokentxKeeps ==
  ASSUME HistoryInvariant, NEW j \in Jobs, FetchesTokentx(j)
  PROVE  HistoryInvariant'
<1> DEFINE r == job[j]
           items == NormalizeEtherscan(r.txlist, TokenTx(mined, Head(r.todo)), r.usd)
           to == [at |-> "stores", kind |-> r.kind, todo |-> r.todo, usd |-> r.usd, txlist |-> {},
                  found |-> items, deadline |-> r.deadline, items |-> r.items,
                  skipped |-> r.skipped]
<1>0. /\ clock \in Nat /\ LogOK(mined, clock) /\ JobOK(mined, clock, r) /\ r.at = "tokentx"
      /\ UNCHANGED <<clock, mined, index, collected>>
  BY DEF HistoryInvariant, FetchesTokentx
<1>1. r = [at |-> r.at, kind |-> r.kind, todo |-> r.todo, usd |-> r.usd, txlist |-> r.txlist,
           found |-> r.found, deadline |-> r.deadline, items |-> r.items, skipped |-> r.skipped]
  BY <1>0 DEF JobOK
<1>2. Goes(j, [r EXCEPT !.at = "stores", !.txlist = {}, !.found = items])
  BY DEF FetchesTokentx, Chain
<1>3. /\ r.deadline \in Nat /\ r.deadline <= clock + FETCH_TIMEOUT /\ clock <= r.deadline
      /\ r.todo # <<>> /\ Gathered(mined, r.deadline - FETCH_TIMEOUT, r)
      /\ r.txlist \subseteq OwnTxs(mined, Head(r.todo))
      /\ \A tx \in TxList(mined, Head(r.todo)) :
           tx.at <= r.deadline - FETCH_TIMEOUT - 1 => tx \in r.txlist
  BY <1>0 DEF JobOK, Fetching
<1>4. r.deadline - FETCH_TIMEOUT - 1 \in Int
  BY <1>3, Times
<1> HIDE DEF r
<1>5. Tells(mined, items, Head(r.todo), r.deadline - FETCH_TIMEOUT - 1)
  BY <1>0, <1>3, <1>4, NormalizedTells
<1> HIDE DEF items
<1>6. [r EXCEPT !.at = "stores", !.txlist = {}, !.found = items] = to
  <2> DEFINE new == [r EXCEPT !.at = "stores", !.txlist = {}, !.found = items]
  <2>1. new = [r EXCEPT !.at = "stores", !.txlist = {}, !.found = items]
    OBVIOUS
  <2> HIDE DEF new
  <2>2. new = to
    BY <1>1, <2>1
  <2> QED BY <2>2 DEF new
<1>7. /\ to.at = "stores" /\ to.kind = r.kind /\ to.todo = r.todo /\ to.items = r.items
      /\ to.skipped = r.skipped /\ to.deadline = r.deadline /\ to.found = items
      /\ to = [at |-> to.at, kind |-> to.kind, todo |-> to.todo, usd |-> to.usd,
               txlist |-> to.txlist, found |-> to.found, deadline |-> to.deadline,
               items |-> to.items, skipped |-> to.skipped]
  OBVIOUS
<1> HIDE DEF to
<1>8. Gathered(mined, to.deadline - FETCH_TIMEOUT, to)
  BY <1>0, <1>3, <1>7 DEF Gathered
<1>9. JobOK(mined, clock, to)
  BY <1>3, <1>5, <1>7, <1>8 DEF JobOK, Fetching
<1> QED BY <1>0, <1>2, <1>6, <1>9, JobGoesAlone

LEMMA StoresKeeps ==
  ASSUME HistoryInvariant, NEW j \in Jobs, Stores(j)
  PROVE  HistoryInvariant'
<1> DEFINE r == job[j]
           c == Head(r.todo)
           t == r.deadline - FETCH_TIMEOUT - 1
<1>0. /\ clock \in Nat /\ LogOK(mined, clock) /\ JobOK(mined, clock, r) /\ r.at = "stores"
      /\ UNCHANGED <<clock, mined, collected>> /\ Goes(j, Told(j, r.found))
      /\ index' = [index EXCEPT ![c] = [at |-> clock, items |-> r.found]]
      /\ index = [d \in Chains |-> index[d]]
      /\ \A d \in Chains : EntryOK(mined, clock, d, index[d])
      /\ CollectedOK(mined, clock, collected)
  BY DEF HistoryInvariant, Stores, Chain
<1>1. /\ r.deadline \in Nat /\ r.deadline <= clock + FETCH_TIMEOUT /\ clock <= r.deadline
      /\ r.todo # <<>> /\ Gathered(mined, r.deadline - FETCH_TIMEOUT, r)
      /\ Tells(mined, r.found, c, t)
  BY <1>0 DEF JobOK, Fetching
<1>2. c \in Chains
  BY <1>1, NextIsKnown
<1>3. /\ t \in Int /\ clock - FETCH_TIMEOUT - 1 \in Int /\ clock - FETCH_TIMEOUT - 1 <= t
      /\ clock - INDEX_TTL - FETCH_TIMEOUT \in Int /\ clock - INDEX_TTL - FETCH_TIMEOUT <= t
      /\ r.deadline - FETCH_TIMEOUT \in Int /\ r.deadline - FETCH_TIMEOUT <= clock
      /\ clock <= r.deadline - FETCH_TIMEOUT + FETCH_TIMEOUT
  <2> DEFINE deadline == r.deadline
  <2>1. /\ deadline \in Nat /\ deadline <= clock + FETCH_TIMEOUT /\ clock <= deadline
        /\ clock \in Nat /\ FETCH_TIMEOUT \in Nat /\ INDEX_TTL \in Nat /\ INDEX_TTL > 0
    BY <1>0, <1>1, Times
  <2> HIDE DEF deadline
  <2>2. /\ deadline - FETCH_TIMEOUT - 1 \in Int /\ clock - FETCH_TIMEOUT - 1 \in Int
        /\ clock - FETCH_TIMEOUT - 1 <= deadline - FETCH_TIMEOUT - 1
        /\ clock - INDEX_TTL - FETCH_TIMEOUT \in Int
        /\ clock - INDEX_TTL - FETCH_TIMEOUT <= deadline - FETCH_TIMEOUT - 1
        /\ deadline - FETCH_TIMEOUT \in Int /\ deadline - FETCH_TIMEOUT <= clock
        /\ clock <= deadline - FETCH_TIMEOUT + FETCH_TIMEOUT
    BY <2>1
  <2> QED BY <2>2 DEF deadline
<1> HIDE DEF t
<1>4. /\ Tells(mined, r.found, c, clock - FETCH_TIMEOUT - 1)
      /\ Tells(mined, r.found, c, clock - INDEX_TTL - FETCH_TIMEOUT)
  BY <1>0, <1>1, <1>3, TellsLess
<1>5. index' = [d \in Chains |-> IF d = c THEN [at |-> clock, items |-> r.found] ELSE index[d]]
  BY <1>0, <1>2
<1>6. \A d \in Chains : EntryOK(mined, clock, d, index'[d])
  <2>1. EntryOK(mined, clock, c, [at |-> clock, items |-> r.found])
    <3>1. clock <= clock
      BY <1>0
    <3> QED BY <1>0, <1>4, <3>1 DEF EntryOK
  <2> QED BY <1>0, <1>2, <1>5, <2>1
<1>7. index' = [d \in Chains |-> index'[d]]
  BY <1>5
<1>8. JobOK(mined, clock, AfterOne(r, r.found, r.skipped))
  <2> HIDE DEF r
  <2> QED BY <1>0, <1>1, <1>3, <1>4, OneNetworkMore
<1>9. JobOK(mined, clock, Told(j, r.found))
  BY <1>8, ToldForm
<1> QED BY <1>0, <1>6, <1>7, <1>9, JobGoes

LEMMA FetchFailsKeeps ==
  ASSUME HistoryInvariant, NEW j \in Jobs, FetchFails(j)
  PROVE  HistoryInvariant'
<1> DEFINE r == job[j]
<1>0. /\ clock \in Nat /\ LogOK(mined, clock) /\ JobOK(mined, clock, r) /\ r.at \in Fetching
      /\ UNCHANGED <<clock, mined, index, collected>>
  BY DEF HistoryInvariant, FetchFails, Fetching
<1>1. /\ r.deadline \in Nat /\ r.deadline <= clock + FETCH_TIMEOUT /\ clock <= r.deadline
      /\ r.todo # <<>> /\ Gathered(mined, r.deadline - FETCH_TIMEOUT, r)
  BY <1>0 DEF JobOK
<1>2. CASE r.kind = "history"
  <2> DEFINE to == [at |-> "error", kind |-> NoJob.kind, todo |-> <<>>, usd |-> 0, txlist |-> {},
                    found |-> {}, deadline |-> 0, items |-> NoJob.items, skipped |-> {}]
  <2>1. [NoJob EXCEPT !.at = "error"] = to
    BY Zenon, JobEnds
  <2>2. Goes(j, to)
    BY <1>2, <2>1 DEF FetchFails
  <2>3. JobOK(mined, clock, to)
    BY DEF JobOK, Fetching
  <2> HIDE DEF to
  <2> QED BY <1>0, <2>2, <2>3, JobGoesAlone
<1>3. CASE r.kind # "history"
  <2>1. Goes(j, Skipped(j))
    BY <1>3 DEF FetchFails
  <2>2. r.kind = "analytics"
    BY <1>1, <1>3 DEF Gathered
  <2>3. /\ r.deadline - FETCH_TIMEOUT \in Int /\ r.deadline - FETCH_TIMEOUT <= clock
        /\ clock <= r.deadline - FETCH_TIMEOUT + FETCH_TIMEOUT
    <3>1. PICK deadline : deadline = r.deadline
      OBVIOUS
    <3>2. /\ deadline \in Nat /\ deadline <= clock + FETCH_TIMEOUT /\ clock <= deadline
          /\ clock \in Nat
      BY <1>0, <1>1, <3>1
    <3>3. /\ deadline - FETCH_TIMEOUT \in Int /\ deadline - FETCH_TIMEOUT <= clock
          /\ clock <= deadline - FETCH_TIMEOUT + FETCH_TIMEOUT
      BY <3>2, Lifetimes
    <3> QED BY <3>1, <3>3
  <2>4. JobOK(mined, clock, AfterOne(r, {}, r.skipped \cup {Head(r.todo)}))
    <3> DEFINE skipped == r.skipped \cup {Head(r.todo)}
    <3>1. r.skipped \subseteq skipped /\ Head(r.todo) \in skipped
      OBVIOUS
    <3> HIDE DEF r, skipped
    <3>2. JobOK(mined, clock, AfterOne(r, {}, skipped))
      BY <1>0, <1>1, <2>2, <2>3, <3>1, OneNetworkMore
    <3> QED BY <3>2 DEF skipped
  <2>5. JobOK(mined, clock, Skipped(j))
    BY <2>4, ToldForm
  <2> QED BY <1>0, <2>1, <2>5, JobGoesAlone
<1> QED BY <1>2, <1>3

LEMMA CollectsHistoryKeeps ==
  ASSUME HistoryInvariant, NEW j \in Jobs, CollectsHistory(j)
  PROVE  HistoryInvariant'
<1> DEFINE r == job[j]
           to == [at |-> "done", kind |-> r.kind, todo |-> r.todo, usd |-> r.usd, txlist |-> r.txlist,
                  found |-> r.found, deadline |-> r.deadline, items |-> r.items,
                  skipped |-> r.skipped]
           u == clock - Lag(r.kind)
<1>0. /\ clock \in Nat /\ LogOK(mined, clock) /\ JobOK(mined, clock, r) /\ r.at = "starts"
      /\ r.todo = <<>> /\ Gathered(mined, clock, r) /\ UNCHANGED <<clock, mined, index>>
      /\ index = [d \in Chains |-> index[d]]
      /\ \A d \in Chains : EntryOK(mined, clock, d, index[d])
      /\ CollectedOK(mined, clock, collected)
      /\ collected' = IF r.kind = "history" THEN collected
                        ELSE [at |-> clock, items |-> r.items, skipped |-> r.skipped]
      /\ Goes(j, [r EXCEPT !.at = "done"])
  BY DEF HistoryInvariant, CollectsHistory, JobOK
<1>1. r = [at |-> r.at, kind |-> r.kind, todo |-> r.todo, usd |-> r.usd, txlist |-> r.txlist,
           found |-> r.found, deadline |-> r.deadline, items |-> r.items, skipped |-> r.skipped]
  BY <1>0 DEF JobOK
<1>2. \A c \in Chains : r.todo # <<c>>
  BY <1>0
<1> HIDE DEF r
<1>3. [r EXCEPT !.at = "done"] = to
  <2> DEFINE new == [r EXCEPT !.at = "done"]
  <2>1. new = [r EXCEPT !.at = "done"]
    OBVIOUS
  <2> HIDE DEF new
  <2>2. new = to
    BY <1>1, <2>1
  <2> QED BY <2>2 DEF new
<1>4. /\ to.at = "done" /\ to.kind = r.kind /\ to.items = r.items /\ to.skipped = r.skipped
      /\ to = [at |-> to.at, kind |-> to.kind, todo |-> to.todo, usd |-> to.usd,
               txlist |-> to.txlist, found |-> to.found, deadline |-> to.deadline,
               items |-> to.items, skipped |-> to.skipped]
  OBVIOUS
<1>5. Goes(j, to)
  BY <1>0, <1>3
<1> HIDE DEF to
<1>6. CASE r.kind = "history"
  <2>1. \A c \in Chains \ r.skipped :
          Tells(mined, r.items[c], c, clock - INDEX_TTL - FETCH_TIMEOUT)
    BY <1>2, <1>6, <1>0 DEF Gathered
  <2>2. u = clock - INDEX_TTL - FETCH_TIMEOUT
    BY <1>0, <1>6, Times DEF Lag, IndexLag
  <2> HIDE DEF u
  <2>3. \A c \in Chains \ r.skipped : Tells(mined, r.items[c], c, u)
    BY <2>1, <2>2
  <2>4. JobOK(mined, clock, to)
    BY <1>4, <1>6, <2>3 DEF JobOK, Fetching, u
  <2>5. CollectedOK(mined, clock, collected')
    BY <1>0, <1>6
  <2> QED BY <1>0, <1>5, <2>4, <2>5, JobGoes
<1>7. CASE r.kind # "history"
  <2> DEFINE t == clock - INDEX_TTL - N * FETCH_TIMEOUT
  <2>1. PICK q \in 0..N :
          /\ Len(r.todo) = N - q
          /\ \A i \in 1..q : \/ EvmChains[i] \in r.skipped
                             \/ Tells(mined, r.items[EvmChains[i]], EvmChains[i],
                                      clock - INDEX_TTL - q * FETCH_TIMEOUT)
    BY <1>0, <1>7 DEF Gathered
  <2>2. r.kind = "analytics"
    BY <1>0, <1>7 DEF Gathered
  <2>3. q = N
    <3>1. Len(r.todo) = 0
      BY <1>0
    <3> QED BY <2>1, <3>1, Times
  <2>4. \A c \in Chains \ r.skipped : Tells(mined, r.items[c], c, t)
    <3> SUFFICES ASSUME NEW c \in Chains \ r.skipped PROVE Tells(mined, r.items[c], c, t)
      OBVIOUS
    <3>1. PICK i \in 1..N : c = EvmChains[i]
      BY HistoryAssumption DEF Chains, ToSet, N
    <3> QED BY <2>1, <2>3, <3>1
  <2>5. t \in Int /\ u \in Int /\ u <= t
    <3>1. u = clock - (ANALYTICS_TTL + INDEX_TTL - 1 + N * FETCH_TIMEOUT)
      BY <2>2 DEF Lag, AnalyticsLag, N
    <3>2. N * FETCH_TIMEOUT \in Nat /\ ANALYTICS_TTL \in Nat /\ ANALYTICS_TTL > 0 /\ INDEX_TTL \in Nat
      BY Times
    <3> DEFINE m == N * FETCH_TIMEOUT
    <3>3. m \in Nat /\ t = clock - INDEX_TTL - m /\ u = clock - (ANALYTICS_TTL + INDEX_TTL - 1 + m)
      BY <3>1, <3>2
    <3> HIDE DEF m, t, u
    <3> QED BY <1>0, <3>2, <3>3
  <2> HIDE DEF t, u
  <2>6. \A c \in Chains \ r.skipped : Tells(mined, r.items[c], c, u)
    BY <1>0, <2>4, <2>5, TellsLess
  <2>7. JobOK(mined, clock, to)
    BY <1>4, <2>2, <2>6 DEF JobOK, Fetching, u
  <2>8. CollectedOK(mined, clock, collected')
    <3> DEFINE e == [at |-> clock, items |-> r.items, skipped |-> r.skipped]
    <3>1. e.at = clock /\ e.items = r.items /\ e.skipped = r.skipped /\ collected' = e
      BY <1>0, <1>7
    <3>2. clock <= clock
      BY <1>0
    <3> HIDE DEF e
    <3> QED BY <1>0, <2>4, <3>1, <3>2 DEF CollectedOK, t
  <2> QED BY <1>0, <1>5, <2>7, <2>8, JobGoes
<1> QED BY <1>6, <1>7

LEMMA LeavesKeeps ==
  ASSUME HistoryInvariant, NEW j \in Jobs, Leaves(j)
  PROVE  HistoryInvariant'
<1>1. Goes(j, NoJob) /\ UNCHANGED <<clock, mined, index, collected>>
  BY DEF Leaves
<1>2. JobOK(mined, clock, NoJob)
  BY DEF JobOK, NoJob, Fetching
<1> QED BY <1>1, <1>2, JobGoesAlone

LEMMA InitHistory == HistoryInit => HistoryInvariant
<1> SUFFICES ASSUME HistoryInit PROVE HistoryInvariant
  OBVIOUS
<1>1. clock = 0 /\ collected = Nothing
      /\ index = [c \in Chains |-> Nothing] /\ job = [j \in Jobs |-> NoJob]
  BY DEF HistoryInit
<1>2. LogOK(mined, clock)
  <2>1. Len(Past) \in Nat /\ DOMAIN Past = 1..Len(Past)
    BY HistoryAssumption
  <2>2. mined = [k \in 1..Len(Past) |-> Tx(k, 0, Past[k][1], Past[k][2])]
    BY DEF HistoryInit
  <2>3. IsList(mined) /\ DOMAIN mined = 1..Len(Past)
    <3>1. mined \in [1..Len(Past) -> {mined[k] : k \in 1..Len(Past)}]
      BY <2>2
    <3>2. mined \in Seq({mined[k] : k \in 1..Len(Past)})
      BY <2>1, <3>1, SeqDef
    <3> QED BY <2>2, <3>2 DEF IsList
  <2>4. ASSUME NEW k \in DOMAIN mined
        PROVE  /\ mined[k].hash = k /\ mined[k].at = 0 /\ IsFiniteSet(DOMAIN mined[k].moves)
               /\ Owner \in {mined[k].from, mined[k].to} \/ OwnPlaces(mined[k].moves) # {}
    <3>1. Past[k][2] \in Deeds \cup {p[2] : p \in ToSet(Past)}
      BY <2>1, <2>3 DEF ToSet
    <3>2. mined[k] = Tx(k, 0, Past[k][1], Past[k][2])
      BY <2>2, <2>3
    <3> QED BY <3>1, <3>2, TxFacts
  <2> QED BY <1>1, <2>3, <2>4 DEF LogOK
<1>3. JobOK(mined, clock, NoJob)
  BY DEF JobOK, NoJob, Fetching
<1>4. \A j \in Jobs : JobOK(mined, clock, job[j])
  BY <1>1, <1>3
<1>5. \A c \in Chains : EntryOK(mined, clock, c, index[c])
  BY <1>1 DEF EntryOK
<1>6. CollectedOK(mined, clock, collected)
  BY <1>1 DEF CollectedOK
<1>7. index = [c \in Chains |-> index[c]] /\ job = [j \in Jobs |-> job[j]]
  BY <1>1
<1>8. clock \in Nat
  BY <1>1
<1> QED BY <1>2, <1>4, <1>5, <1>6, <1>7, <1>8 DEF HistoryInvariant

LEMMA NextHistory == HistoryInvariant /\ [HistoryNext]_historyVars => HistoryInvariant'
<1> SUFFICES ASSUME HistoryInvariant, [HistoryNext]_historyVars PROVE HistoryInvariant'
  OBVIOUS
<1>1. CASE HistoryTick
  BY <1>1, HistoryTickKeeps
<1>2. ASSUME NEW c \in Chains, Mines(c) PROVE HistoryInvariant'
  BY <1>2, MinesKeeps
<1>3. ASSUME NEW j \in Jobs,
             \/ \E c \in Chains : AsksHistory(j, c)
             \/ AsksAnalytics(j) \/ LooksUp(j) \/ FetchesTxlist(j) \/ FetchesTokentx(j)
             \/ Stores(j) \/ FetchFails(j) \/ CollectsHistory(j) \/ Leaves(j)
      PROVE  HistoryInvariant'
  BY <1>3, AsksHistoryKeeps, AsksAnalyticsKeeps, LooksUpKeeps, FetchesTxlistKeeps,
     FetchesTokentxKeeps, StoresKeeps, FetchFailsKeeps, CollectsHistoryKeeps, LeavesKeeps
<1>4. CASE UNCHANGED historyVars
  BY <1>4 DEF historyVars, HistoryInvariant
<1> QED BY <1>1, <1>2, <1>3, <1>4 DEF HistoryNext

\* What the caches and the requests hold is complete up to an age that the
\* lifetimes and the timeouts add up to, as far as the first pages of the two
\* lists reach (PAGE_SIZE of the indexer).
THEOREM AlwaysHistoryInvariant == HistorySpec => []HistoryInvariant
<1> QED BY InitHistory, NextHistory, PTL DEF HistorySpec

LEMMA OldAreTold == HistoryInvariant => OldTransactionsAreTold
<1> SUFFICES ASSUME HistoryInvariant, NEW j \in Jobs, job[j].at = "done",
                    NEW c \in About(j), NEW tx \in MinedOn(mined, c), OldEnough(j, tx),
                    OnPages(mined, tx)
             PROVE  {i \in Unpriced(job[j].items[c]) : i.hash = tx.hash} = {Truth(tx)}
  BY DEF OldTransactionsAreTold
<1> DEFINE r == job[j]
           lag == Lag(r.kind)
<1>1. c \in Chains \ r.skipped
  BY DEF About
<1>2. Tells(mined, r.items[c], c, clock - lag)
  BY <1>1 DEF HistoryInvariant, JobOK
<1>3. tx \in ToSet(mined) /\ tx.chain = c
  BY DEF MinedOn
<1>4. clock \in Nat /\ tx.at \in Nat
  BY <1>3, LogFacts DEF HistoryInvariant
<1>5. lag \in Nat
  <2>1. AnalyticsLag = ANALYTICS_TTL + INDEX_TTL - 1 + N * FETCH_TIMEOUT
    BY DEF AnalyticsLag, N
  <2>2. AnalyticsLag \in Nat
    BY <2>1, Times
  <2>3. IndexLag \in Nat
    BY Lifetimes DEF IndexLag
  <2> QED BY <2>2, <2>3 DEF Lag
<1>6. tx.at + lag <= clock
  BY DEF OldEnough, Lag
<1> HIDE DEF lag
<1>7. tx.at <= clock - lag
  BY <1>4, <1>5, <1>6
<1> QED BY <1>2, <1>3, <1>7 DEF Tells

\* A transaction older than the caches and fetches together, with all its rows
\* among the newest PAGE_SIZE, is told in every answer, once, and as what it is
\* (history of the indexer, collect_history).
THEOREM OldTold == HistorySpec => []OldTransactionsAreTold
<1> QED BY OldAreTold, AlwaysHistoryInvariant, PTL

-----------------------------------------------------------------------------
(* The fees of the analytics.                                              *)

Amounts(moves) == \A k \in DOMAIN moves : k \in Nat /\ moves[k].amount \in Nat

\* The transactions of the networks, with their amounts.
LogFair(log) ==
    \A k \in DOMAIN log : /\ log[k].chain \in Chains /\ log[k].value \in Nat
                          /\ log[k].fee \in Nat /\ Amounts(log[k].moves)

Shaped(i) ==
    i = [hash |-> i.hash, at |-> i.at, category |-> i.category, direction |-> i.direction,
         amount |-> i.amount, symbol |-> i.symbol, counterparty |-> i.counterparty,
         fee |-> i.fee, usd |-> i.usd, status |-> i.status]

\* An item is about a transaction of network c, and a fee in it is the owner's.
FairItem(log, c, i) ==
    /\ Shaped(i) /\ i.amount \in Nat /\ i.fee \in Nat /\ i.usd \in {0, USD}
    /\ i.hash \in DOMAIN log /\ log[i.hash].chain = c /\ i.at = log[i.hash].at
    /\ i.fee > 0 => log[i.hash].from = Owner /\ i.fee = log[i.hash].fee

\* Items of network c, one for a transaction.
Fair(log, c, items) ==
    /\ \A i \in items : FairItem(log, c, i)
    /\ \A i, k \in items : i.hash = k.hash => i = k

FairAll(log, items) ==
    /\ items = [c \in Chains |-> items[c]]
    /\ \A c \in Chains : Fair(log, c, items[c])

FairJob(log, r) ==
    /\ r.usd \in {0, USD}
    /\ r.at \in {"starts", "done"} \cup Fetching => FairAll(log, r.items)
    /\ r.at = "stores" => Fair(log, Head(r.todo), r.found)

FairInvariant ==
    /\ LogFair(mined)
    /\ \A c \in Chains : index[c] # Nothing => Fair(mined, c, index[c].items)
    /\ collected # Nothing => FairAll(mined, collected.items)
    /\ \A j \in Jobs : FairJob(mined, job[j])

LEMMA ItemOfTx ==
  ASSUME NEW tx, tx.value \in Nat, tx.fee \in Nat, NEW moves, Amounts(moves), NEW usd,
         NEW i, i = TxToItem(tx, moves, usd)
  PROVE  /\ Shaped(i) /\ i.hash = tx.hash /\ i.at = tx.at /\ i.usd = usd /\ i.amount \in Nat
         /\ i.fee = IF tx.from = Owner THEN tx.fee ELSE 0
         /\ tx.from = Owner => i.direction # "in"
<1> DEFINE sent      == SentBy(moves)
           received  == ReceivedBy(moves)
           category  == Categorize(tx.call, tx.fname, sent, received)
           direction == TxDirection(tx, received)
           shown     == ShownMove(tx, category, moves)
           amount == IF shown = <<>> THEN tx.value ELSE Head(shown).amount
           symbol == IF shown = <<>> THEN Native ELSE Head(shown).symbol
           other  == CASE direction = "out"  -> IF shown = <<>> THEN tx.to ELSE Head(shown).to
                       [] direction = "in"   -> IF shown = <<>> THEN tx.from ELSE Head(shown).from
                       [] direction = "self" -> Nobody
           fee    == IF tx.from = Owner THEN tx.fee ELSE 0
           status == IF tx.failed THEN "failed" ELSE "confirmed"
<1>1. i = [hash |-> tx.hash, at |-> tx.at, category |-> category, direction |-> direction,
           amount |-> amount, symbol |-> symbol, counterparty |-> other, fee |-> fee,
           usd |-> usd, status |-> status]
  BY Zenon DEF TxToItem
<1>2. amount \in Nat
  <2>1. CASE shown = <<>>
    BY <2>1
  <2>2. CASE shown # <<>>
    <3>1. \/ sent # {} /\ shown = <<moves[Min(sent)]>>
          \/ received # {} /\ shown = <<moves[Min(received)]>>
      BY <2>2 DEF ShownMove, FirstAt
    <3>2. /\ sent \subseteq DOMAIN moves /\ sent \subseteq Nat
          /\ received \subseteq DOMAIN moves /\ received \subseteq Nat
      BY DEF SentBy, ReceivedBy, Amounts
    <3> HIDE DEF sent, received, shown
    <3>3. PICK k \in DOMAIN moves : shown = <<moves[k]>>
      BY <3>1, <3>2, MinIn
    <3>4. Head(shown) = moves[k]
      BY <3>3
    <3>5. amount = moves[k].amount
      BY <2>2, <3>4
    <3> QED BY <3>5 DEF Amounts
  <2> QED BY <2>1, <2>2
<1>3. tx.from = Owner => direction # "in"
  BY DEF TxDirection
<1>4. fee = IF tx.from = Owner THEN tx.fee ELSE 0
  OBVIOUS
<1> HIDE DEF category, direction, amount, symbol, other, fee, status
<1> QED BY <1>1, <1>2, <1>3, <1>4 DEF Shaped

LEMMA ItemOfMoves ==
  ASSUME NEW hash, NEW group, Amounts(group.moves), OwnPlaces(group.moves) # {},
         NEW i, i = TokenOnlyItem(hash, group)
  PROVE  /\ Shaped(i) /\ i.hash = hash /\ i.at = group.at /\ i.usd = 0 /\ i.fee = 0
         /\ i.amount \in Nat
<1> DEFINE toOwner   == ReceivedBy(group.moves)
           direction == IF toOwner # {} THEN "in" ELSE "out"
           m == FirstAt(group.moves, IF toOwner # {} THEN toOwner ELSE SentBy(group.moves))
           other == IF direction = "in" THEN m.from ELSE m.to
<1>1. i = [hash |-> hash, at |-> group.at, category |-> "transfer", direction |-> direction,
           amount |-> m.amount, symbol |-> m.symbol, counterparty |-> other,
           fee |-> 0, usd |-> 0, status |-> "confirmed"]
  BY Zenon DEF TokenOnlyItem
<1>2. m.amount \in Nat
  <2> DEFINE places == IF toOwner # {} THEN toOwner ELSE SentBy(group.moves)
  <2>1. places # {} /\ places \subseteq DOMAIN group.moves
    BY DEF OwnPlaces, ReceivedBy, SentBy
  <2>2. places \subseteq Nat
    BY <2>1 DEF Amounts
  <2>3. m = group.moves[Min(places)]
    BY DEF FirstAt
  <2> HIDE DEF places, m
  <2>4. Min(places) \in DOMAIN group.moves
    BY <2>1, <2>2, MinIn
  <2> QED BY <2>3, <2>4 DEF Amounts
<1> HIDE DEF direction, m, other
<1> QED BY <1>1, <1>2 DEF Shaped

LEMMA SomeAmounts ==
  ASSUME NEW moves, Amounts(moves), NEW places, places \subseteq OwnPlaces(moves)
  PROVE  Amounts(Restrict(moves, places)) /\ OwnPlaces(Restrict(moves, places)) = places
<1>1. /\ DOMAIN Restrict(moves, places) = places /\ places \subseteq DOMAIN moves
      /\ \A k \in places : Restrict(moves, places)[k] = moves[k]
  BY DEF OwnPlaces, Restrict
<1>2. OwnPlaces(Restrict(moves, places)) = places
  BY <1>1 DEF OwnPlaces
<1> QED BY <1>1, <1>2 DEF Amounts

\* What the two lists make is fair (normalize_etherscan).
LEMMA NormalizedFair ==
  ASSUME NEW now \in Nat, LogOK(mined, now), LogFair(mined), NEW c \in Chains,
         NEW usd \in {0, USD}, NEW txlist, txlist \subseteq OwnTxs(mined, c)
  PROVE  Fair(mined, c, NormalizeEtherscan(txlist, TokenTx(mined, c), usd))
<1> DEFINE tokentx == TokenTx(mined, c)
           listed == {x.hash : x \in txlist}
           bare == DOMAIN tokentx \ listed
           items == NormalizeEtherscan(txlist, tokentx, usd)
           ofTx(x) == TxToItem(x, MovesOf(tokentx, x.hash), usd)
           ofMoves(h) == TokenOnlyItem(h, tokentx[h])
<1>1. ASSUME NEW x \in ToSet(mined), NEW y \in ToSet(mined), x.hash = y.hash PROVE x = y
  BY <1>1, LogFacts
<1>2. txlist \subseteq ToSet(mined)
  BY DEF OwnTxs, MinedOn
<1>3. ASSUME NEW x \in ToSet(mined)
      PROVE  /\ x.hash \in DOMAIN mined /\ mined[x.hash] = x
             /\ x.value \in Nat /\ x.fee \in Nat /\ Amounts(x.moves)
  BY LogFacts DEF LogFair
<1>4. ASSUME NEW h \in DOMAIN tokentx
      PROVE  /\ h \in DOMAIN mined /\ mined[h].chain = c /\ mined[h].hash = h
             /\ Amounts(tokentx[h].moves) /\ OwnPlaces(tokentx[h].moves) # {}
             /\ tokentx[h].at = mined[h].at
  <2>1. PICK x \in MinedOn(mined, c) : PlacesListed(mined, x) # {} /\ x.hash = h
    BY DEF TokenTx
  <2>2. x \in ToSet(mined) /\ x.chain = c
    BY DEF MinedOn
  <2>3. mined[h] = x /\ h \in DOMAIN mined /\ Amounts(x.moves)
    BY <1>3, <2>1, <2>2
  <2>4. tokentx[h] = MovesIn(mined, mined[h])
    BY DEF TokenTx
  <2> DEFINE moves == Restrict(x.moves, PlacesListed(mined, x))
  <2>5. tokentx[h] = [at |-> x.at, moves |-> moves]
    BY <2>3, <2>4 DEF MovesIn
  <2>6. PlacesListed(mined, x) \subseteq OwnPlaces(x.moves)
    BY DEF PlacesListed
  <2>7. Amounts(moves) /\ OwnPlaces(moves) # {}
    BY <2>1, <2>3, <2>6, SomeAmounts
  <2> HIDE DEF tokentx, moves
  <2>8. tokentx[h].at = x.at /\ tokentx[h].moves = moves
    BY <2>5
  <2> QED BY <2>1, <2>2, <2>3, <2>7, <2>8
<1>5. \A i : i \in items <=> (\E x \in txlist : i = ofTx(x)) \/ (\E h \in bare : i = ofMoves(h))
  BY DEF NormalizeEtherscan
<1>6. ASSUME NEW x \in txlist PROVE Amounts(MovesOf(tokentx, x.hash))
  <2> HIDE DEF tokentx
  <2>1. CASE x.hash \in DOMAIN tokentx
    BY <1>4, <2>1 DEF MovesOf
  <2>2. CASE x.hash \notin DOMAIN tokentx
    BY <2>2 DEF MovesOf, Amounts
  <2> QED BY <2>1, <2>2
<1> HIDE DEF tokentx, items
<1>7. ASSUME NEW x \in txlist PROVE FairItem(mined, c, ofTx(x)) /\ ofTx(x).hash = x.hash
  <2> DEFINE i == ofTx(x)
  <2>1. /\ x \in ToSet(mined) /\ x.chain = c /\ x.hash \in DOMAIN mined /\ mined[x.hash] = x
        /\ x.value \in Nat /\ x.fee \in Nat
    BY <1>2, <1>3 DEF OwnTxs, MinedOn
  <2>2. /\ Shaped(i) /\ i.hash = x.hash /\ i.at = x.at /\ i.usd = usd /\ i.amount \in Nat
        /\ i.fee = IF x.from = Owner THEN x.fee ELSE 0
    BY <1>6, <2>1, ItemOfTx
  <2> HIDE DEF i
  <2>3. FairItem(mined, c, i)
    BY <2>1, <2>2 DEF FairItem
  <2> QED BY <2>2, <2>3 DEF i
<1>8. ASSUME NEW h \in bare PROVE FairItem(mined, c, ofMoves(h)) /\ ofMoves(h).hash = h
  <2> DEFINE i == ofMoves(h)
  <2>1. /\ h \in DOMAIN mined /\ mined[h].chain = c
        /\ Amounts(tokentx[h].moves) /\ OwnPlaces(tokentx[h].moves) # {}
        /\ tokentx[h].at = mined[h].at
    BY <1>4
  <2>2. /\ Shaped(i) /\ i.hash = h /\ i.at = mined[h].at /\ i.usd = 0 /\ i.fee = 0
        /\ i.amount \in Nat
    BY <2>1, ItemOfMoves
  <2> HIDE DEF i
  <2>3. FairItem(mined, c, i)
    BY <2>1, <2>2 DEF FairItem
  <2> QED BY <2>2, <2>3 DEF i
<1>9. ASSUME NEW i \in items, NEW k \in items, i.hash = k.hash PROVE i = k
  <2>1. CASE \E x \in txlist : i = ofTx(x)
    <3>1. PICK x \in txlist : i = ofTx(x)
      BY <2>1
    <3>2. i.hash = x.hash /\ i.hash \notin bare
      BY <1>7, <3>1
    <3>3. PICK y \in txlist : k = ofTx(y)
      <4> HIDE DEF bare, listed, ofTx, ofMoves
      <4>1. ASSUME NEW h \in bare, k = ofMoves(h) PROVE FALSE
        <5>1. k.hash = h
          BY <1>8, <4>1, Zenon
        <5> QED BY <1>9, <3>2, <5>1, Zenon
      <4>2. (\E y \in txlist : k = ofTx(y)) \/ (\E h \in bare : k = ofMoves(h))
        BY <1>5, Zenon
      <4> QED BY <4>1, <4>2, Zenon
    <3>4. x = y
      BY <1>1, <1>2, <1>7, <1>9, <3>2, <3>3
    <3> QED BY <3>1, <3>3, <3>4
  <2>2. CASE \E h \in bare : i = ofMoves(h)
    <3>1. PICK h \in bare : i = ofMoves(h)
      BY <2>2
    <3>2. i.hash = h /\ \A y \in txlist : y.hash # h
      BY <1>8, <3>1
    <3> HIDE DEF bare, listed, ofTx, ofMoves
    <3>3. ASSUME NEW y \in txlist, k = ofTx(y) PROVE FALSE
      <4>1. k.hash = y.hash
        BY <1>7, <3>3, Zenon
      <4> QED BY <1>9, <3>2, <4>1, Zenon
    <3>4. PICK g \in bare : k = ofMoves(g)
      <4>1. (\E y \in txlist : k = ofTx(y)) \/ (\E g \in bare : k = ofMoves(g))
        BY <1>5, Zenon
      <4> QED BY <3>3, <4>1, Zenon
    <3>5. g = h
      BY <1>8, <1>9, <3>2, <3>4, Zenon
    <3> QED BY <3>1, <3>4, <3>5
  <2> QED BY <1>5, <2>1, <2>2
<1> HIDE DEF ofTx, ofMoves, bare
<1>10. \A i \in items : FairItem(mined, c, i)
  BY <1>5, <1>7, <1>8
<1> QED BY <1>9, <1>10 DEF Fair, items, tokentx

\* Nothing of this is lost when a transaction is mined.
LEMMA FairMore ==
  ASSUME NEW log, IsList(log), NEW tx
  PROVE  /\ \A c, items : Fair(log, c, items) => Fair(Append(log, tx), c, items)
         /\ \A items : FairAll(log, items) => FairAll(Append(log, tx), items)
         /\ \A r : FairJob(log, r) => FairJob(Append(log, tx), r)
<1> DEFINE more == Append(log, tx)
<1>1. \A k \in DOMAIN log : k \in DOMAIN more /\ more[k] = log[k]
  <2>1. DOMAIN log = 1..Len(log) /\ Len(log) \in Nat
    BY ListFacts
  <2>2. DOMAIN more = 1..(Len(log) + 1) /\ \A k \in 1..Len(log) : more[k] = log[k]
    BY ListsAppend
  <2> QED BY <2>1, <2>2
<1> HIDE DEF more
<1>2. \A c, i : FairItem(log, c, i) => FairItem(more, c, i)
  BY <1>1 DEF FairItem
<1>3. \A c, items : Fair(log, c, items) => Fair(more, c, items)
  BY <1>2 DEF Fair
<1>4. \A items : FairAll(log, items) => FairAll(more, items)
  BY <1>3 DEF FairAll
<1>5. \A r : FairJob(log, r) => FairJob(more, r)
  BY <1>3, <1>4 DEF FairJob
<1> QED BY <1>3, <1>4, <1>5 DEF more

LEMMA NoneFair == \A log, c : Fair(log, c, {})
BY DEF Fair

LEMMA SilenceFair == \A log : FairAll(log, Silence)
BY NoneFair DEF FairAll, Silence

LEMMA FairOneMore ==
  ASSUME NEW log, NEW r, FairAll(log, r.items), Head(r.todo) \in Chains,
         NEW items, Fair(log, Head(r.todo), items), NEW skipped
  PROVE  FairJob(log, AfterOne(r, items, skipped))
<1> DEFINE its == [r.items EXCEPT ![Head(r.todo)] = items]
           to == AfterOne(r, items, skipped)
<1>1. FairAll(log, its)
  <2>1. its = [c \in Chains |-> IF c = Head(r.todo) THEN items ELSE r.items[c]]
    BY DEF FairAll
  <2> HIDE DEF its
  <2> QED BY <2>1 DEF FairAll
<1>2. to.at = "starts" /\ to.usd = 0 /\ to.items = its
  BY DEF AfterOne
<1> HIDE DEF to, its
<1> QED BY <1>1, <1>2 DEF FairJob, to

LEMMA FairGoes ==
  ASSUME HistoryInvariant, FairInvariant, NEW j \in Jobs, NEW to, Goes(j, to), mined' = mined,
         FairJob(mined, to),
         \A c \in Chains : index'[c] # Nothing => Fair(mined, c, index'[c].items),
         collected' # Nothing => FairAll(mined, collected'.items)
  PROVE  FairInvariant'
<1>1. job' = [i \in Jobs |-> IF i = j THEN to ELSE job[i]]
  BY DEF Goes, HistoryInvariant
<1>2. \A i \in Jobs : FairJob(mined, job'[i])
  BY <1>1 DEF FairInvariant
<1> QED BY <1>2 DEF FairInvariant

LEMMA FairGoesAlone ==
  ASSUME HistoryInvariant, FairInvariant, NEW j \in Jobs, NEW to, Goes(j, to),
         UNCHANGED <<mined, index, collected>>, FairJob(mined, to)
  PROVE  FairInvariant'
BY FairGoes DEF FairInvariant

LEMMA TxFair ==
  ASSUME NEW hash, NEW at, NEW c \in Chains, NEW deed \in Deeds \cup {p[2] : p \in ToSet(Past)}
  PROVE  /\ Tx(hash, at, c, deed).chain \in Chains
         /\ Tx(hash, at, c, deed).value \in Nat /\ Tx(hash, at, c, deed).fee \in Nat
         /\ Amounts(Tx(hash, at, c, deed).moves)
<1>1. deed.value \in Nat /\ deed.fee \in Nat /\ Amounts(deed.moves)
  BY HistoryAssumption DEF Amounts
<1> QED BY <1>1 DEF Tx

LEMMA FairMines ==
  ASSUME HistoryInvariant, FairInvariant, NEW c \in Chains, Mines(c)
  PROVE  FairInvariant'
<1>1. PICK deed \in Deeds : mined' = Append(mined, Tx(Len(mined) + 1, clock, c, deed))
  BY DEF Mines
<1>2. UNCHANGED <<clock, index, collected, job>>
  BY DEF Mines
<1>4. PICK tx : /\ mined' = Append(mined, tx)
                /\ tx.chain \in Chains /\ tx.value \in Nat /\ tx.fee \in Nat /\ Amounts(tx.moves)
  BY <1>1, TxFair
<1>5. IsList(mined)
  BY DEF HistoryInvariant, LogOK
<1>6. LogFair(mined')
  <2>1. /\ Len(mined) \in Nat /\ DOMAIN mined = 1..Len(mined)
        /\ DOMAIN mined' = 1..(Len(mined) + 1)
        /\ \A k \in 1..Len(mined) : mined'[k] = mined[k]
        /\ mined'[Len(mined) + 1] = tx
    BY <1>4, <1>5, ListFacts, ListsAppend
  <2>2. \A k \in DOMAIN mined' : k \in DOMAIN mined \/ k = Len(mined) + 1
    BY <2>1
  <2>3. ASSUME NEW k \in DOMAIN mined'
        PROVE  /\ mined'[k].chain \in Chains /\ mined'[k].value \in Nat
               /\ mined'[k].fee \in Nat /\ Amounts(mined'[k].moves)
    <3>1. CASE k \in DOMAIN mined
      BY <2>1, <3>1 DEF FairInvariant, LogFair
    <3>2. CASE k = Len(mined) + 1
      BY <1>4, <2>1, <3>2
    <3> QED BY <2>2, <3>1, <3>2
  <2> QED BY <2>3 DEF LogFair
<1>7. \A d, items : Fair(mined, d, items) => Fair(mined', d, items)
  BY <1>4, <1>5, FairMore
<1>8. \A items : FairAll(mined, items) => FairAll(mined', items)
  BY <1>4, <1>5, FairMore
<1>9. \A r : FairJob(mined, r) => FairJob(mined', r)
  BY <1>4, <1>5, FairMore
<1> QED BY <1>2, <1>6, <1>7, <1>8, <1>9 DEF FairInvariant

LEMMA FairAsksHistory ==
  ASSUME HistoryInvariant, FairInvariant, NEW j \in Jobs, NEW c \in Chains, AsksHistory(j, c)
  PROVE  FairInvariant'
<1>1. PICK t : t = [NoJob EXCEPT !.at = "starts", !.kind = "history", !.todo = <<c>>,
                                 !.items = Silence, !.skipped = Chains \ {c}]
  OBVIOUS
<1>2. Goes(j, t)
  BY <1>1 DEF AsksHistory
<1>3. t.usd = 0 /\ t.at = "starts" /\ t.items = Silence
  <2>1. t = [at |-> "starts", kind |-> "history", todo |-> <<c>>, usd |-> NoJob.usd,
             txlist |-> NoJob.txlist, found |-> NoJob.found, deadline |-> NoJob.deadline,
             items |-> Silence, skipped |-> Chains \ {c}]
    BY <1>1, NoJobForm
  <2> QED BY <2>1, NoJobForm
<1>4. FairJob(mined, t)
  BY <1>3, SilenceFair DEF FairJob
<1> QED BY <1>2, <1>4, FairGoesAlone DEF AsksHistory

LEMMA FairAsksAnalytics ==
  ASSUME HistoryInvariant, FairInvariant, NEW j \in Jobs, AsksAnalytics(j)
  PROVE  FairInvariant'
<1> DEFINE told == [at |-> "done", kind |-> "analytics", todo |-> <<>>, usd |-> 0,
                    txlist |-> {}, found |-> {}, deadline |-> 0, items |-> collected.items,
                    skipped |-> collected.skipped]
           new == [at |-> "starts", kind |-> "analytics", todo |-> EvmChains, usd |-> 0,
                   txlist |-> {}, found |-> {}, deadline |-> 0, items |-> Silence,
                   skipped |-> {}]
<1>1. CASE collected # Nothing /\ clock - collected.at < ANALYTICS_TTL
  <2>1. Goes(j, told) /\ UNCHANGED <<clock, mined, index, collected>>
    BY <1>1 DEF AsksAnalytics, NoJob
  <2>2. PICK t : t = told
    OBVIOUS
  <2>3. t.usd = 0 /\ t.at # "stores" /\ t.items = collected.items
    BY <2>2
  <2>4. FairJob(mined, t)
    BY <1>1, <2>3 DEF FairJob, FairInvariant
  <2> QED BY <2>1, <2>2, <2>4, FairGoesAlone
<1>2. CASE ~ (collected # Nothing /\ clock - collected.at < ANALYTICS_TTL)
  <2>1. Goes(j, new) /\ UNCHANGED <<clock, mined, index, collected>>
    BY <1>2 DEF AsksAnalytics, NoJob
  <2>2. PICK t : t = new
    OBVIOUS
  <2>3. t.usd = 0 /\ t.at # "stores" /\ t.items = Silence
    BY <2>2
  <2>4. FairJob(mined, t)
    BY <2>3, SilenceFair DEF FairJob
  <2> QED BY <2>1, <2>2, <2>4, FairGoesAlone
<1> QED BY <1>1, <1>2

\* What the invariant says of a request that has networks to do.
LEMMA FairUnderWay ==
  ASSUME HistoryInvariant, FairInvariant, NEW j \in Jobs, NEW r, r = job[j],
         r.at \in {"starts"} \cup Fetching
  PROVE  /\ LogOK(mined, clock) /\ clock \in Nat /\ LogFair(mined)
         /\ r.usd \in {0, USD} /\ FairAll(mined, r.items)
         /\ r.todo # <<>> => Head(r.todo) \in Chains
         /\ r.at \in Fetching => r.todo # <<>>
         /\ r.at = "stores" => Fair(mined, Head(r.todo), r.found)
         /\ r.at = "tokentx" => r.txlist \subseteq OwnTxs(mined, Head(r.todo))
         /\ r = [at |-> r.at, kind |-> r.kind, todo |-> r.todo, usd |-> r.usd, txlist |-> r.txlist,
                 found |-> r.found, deadline |-> r.deadline, items |-> r.items,
                 skipped |-> r.skipped]
<1>1. JobOK(mined, clock, r) /\ FairJob(mined, r)
  BY DEF HistoryInvariant, FairInvariant
<1>2. r.todo # <<>> => Head(r.todo) \in Chains
  BY <1>1, NextIsKnown DEF JobOK
<1> QED BY <1>1, <1>2 DEF HistoryInvariant, FairInvariant, JobOK, FairJob

LEMMA FairLooksUp ==
  ASSUME HistoryInvariant, FairInvariant, NEW j \in Jobs, LooksUp(j)
  PROVE  FairInvariant'
<1>1. PICK r : r = job[j]
  OBVIOUS
<1>2. /\ r.at = "starts" /\ r.todo # <<>> /\ Head(r.todo) \in Chains
      /\ FairAll(mined, r.items)
      /\ r = [at |-> r.at, kind |-> r.kind, todo |-> r.todo, usd |-> r.usd, txlist |-> r.txlist,
              found |-> r.found, deadline |-> r.deadline, items |-> r.items,
              skipped |-> r.skipped]
      /\ UNCHANGED <<clock, mined, index, collected>>
  BY <1>1, FairUnderWay DEF LooksUp
<1>3. CASE IndexFresh(Chain(j))
  <2>1. Goes(j, Told(j, index[Chain(j)].items))
    BY <1>3 DEF LooksUp
  <2>2. PICK items : items = index[Chain(j)].items
    OBVIOUS
  <2>3. Fair(mined, Head(r.todo), items)
    BY <1>1, <1>2, <1>3, <2>2 DEF FairInvariant, IndexFresh, Chain
  <2>4. FairJob(mined, AfterOne(r, items, r.skipped))
    BY <1>2, <2>3, FairOneMore
  <2>5. FairJob(mined, Told(j, items))
    BY <1>1, <2>4, ToldForm
  <2> QED BY <1>2, <2>1, <2>2, <2>5, FairGoesAlone
<1>4. CASE ~ IndexFresh(Chain(j))
  <2>1. PICK usd \in {0, USD} : Goes(j, [job[j] EXCEPT !.at = "txlist", !.usd = usd,
                                          !.deadline = clock + FETCH_TIMEOUT])
    BY <1>4 DEF LooksUp
  <2>2. PICK t : t = [job[j] EXCEPT !.at = "txlist", !.usd = usd,
                                    !.deadline = clock + FETCH_TIMEOUT]
    OBVIOUS
  <2>3. t.at = "txlist" /\ t.usd = usd /\ t.items = r.items
    BY <1>1, <1>2, <2>2
  <2>4. FairJob(mined, t)
    BY <1>2, <2>3 DEF FairJob
  <2> QED BY <1>2, <2>1, <2>2, <2>4, FairGoesAlone
<1> QED BY <1>3, <1>4

LEMMA FairFetches ==
  ASSUME HistoryInvariant, FairInvariant, NEW j \in Jobs, FetchesTxlist(j) \/ FetchesTokentx(j)
  PROVE  FairInvariant'
<1>1. PICK r : r = job[j]
  OBVIOUS
<1>2. /\ r.at \in Fetching /\ r.todo # <<>> /\ Head(r.todo) \in Chains
      /\ LogOK(mined, clock) /\ clock \in Nat /\ LogFair(mined)
      /\ r.usd \in {0, USD} /\ FairAll(mined, r.items)
      /\ r.at = "tokentx" => r.txlist \subseteq OwnTxs(mined, Head(r.todo))
      /\ r = [at |-> r.at, kind |-> r.kind, todo |-> r.todo, usd |-> r.usd, txlist |-> r.txlist,
              found |-> r.found, deadline |-> r.deadline, items |-> r.items,
              skipped |-> r.skipped]
      /\ UNCHANGED <<clock, mined, index, collected>>
  <2>1. r.at \in Fetching /\ UNCHANGED <<clock, mined, index, collected>>
    BY <1>1 DEF FetchesTxlist, FetchesTokentx, Fetching
  <2> QED BY <1>1, <2>1, FairUnderWay
<1>3. CASE FetchesTxlist(j)
  <2>1. PICK list : list = TxList(mined, Chain(j))
    OBVIOUS
  <2>2. PICK t : t = [r EXCEPT !.at = "tokentx", !.txlist = list]
    OBVIOUS
  <2>3. Goes(j, t)
    BY <1>1, <1>3, <2>1, <2>2 DEF FetchesTxlist
  <2>4. t.at = "tokentx" /\ t.usd = r.usd /\ t.items = r.items
    BY <1>2, <2>2
  <2>5. FairJob(mined, t)
    BY <1>2, <2>4 DEF FairJob
  <2> QED BY <1>2, <2>3, <2>5, FairGoesAlone
<1>4. CASE FetchesTokentx(j)
  <2>1. PICK items : items = NormalizeEtherscan(r.txlist, TokenTx(mined, Head(r.todo)), r.usd)
    OBVIOUS
  <2>2. PICK t : t = [r EXCEPT !.at = "stores", !.txlist = {}, !.found = items]
    OBVIOUS
  <2>3. Goes(j, t) /\ r.at = "tokentx"
    BY <1>1, <1>4, <2>1, <2>2 DEF FetchesTokentx, Chain
  <2>4. /\ t.at = "stores" /\ t.usd = r.usd /\ t.items = r.items /\ t.todo = r.todo
        /\ t.found = items
    BY <1>2, <2>2
  <2>5. Fair(mined, Head(r.todo), items)
    BY <1>2, <2>1, <2>3, NormalizedFair
  <2>6. FairJob(mined, t)
    BY <1>2, <2>4, <2>5 DEF FairJob
  <2> QED BY <1>2, <2>3, <2>6, FairGoesAlone
<1> QED BY <1>3, <1>4

LEMMA FairStores ==
  ASSUME HistoryInvariant, FairInvariant, NEW j \in Jobs, Stores(j)
  PROVE  FairInvariant'
<1>1. PICK r : r = job[j]
  OBVIOUS
<1>2. /\ Head(r.todo) \in Chains /\ FairAll(mined, r.items)
      /\ Fair(mined, Head(r.todo), r.found)
      /\ UNCHANGED <<clock, mined, collected>> /\ Goes(j, Told(j, r.found))
      /\ index' = [index EXCEPT ![Head(r.todo)] = [at |-> clock, items |-> r.found]]
  <2>1. /\ r.at = "stores"
        /\ UNCHANGED <<clock, mined, collected>> /\ Goes(j, Told(j, r.found))
        /\ index' = [index EXCEPT ![Head(r.todo)] = [at |-> clock, items |-> r.found]]
    BY <1>1 DEF Stores, Chain
  <2>2. r.at \in Fetching
    BY <2>1 DEF Fetching
  <2> QED BY <1>1, <2>1, <2>2, FairUnderWay
<1>3. FairJob(mined, AfterOne(r, r.found, r.skipped))
  BY <1>2, FairOneMore
<1>4. FairJob(mined, Told(j, r.found))
  BY <1>1, <1>3, ToldForm
<1>5. ASSUME NEW c \in Chains, index'[c] # Nothing PROVE Fair(mined, c, index'[c].items)
  <2>1. index = [d \in Chains |-> index[d]]
    BY DEF HistoryInvariant
  <2>2. CASE c = Head(r.todo)
    <3>1. index'[c] = [at |-> clock, items |-> r.found]
      BY <1>2, <2>1, <2>2
    <3>2. index'[c].items = r.found
      BY <3>1
    <3> QED BY <1>2, <2>2, <3>2
  <2>3. CASE c # Head(r.todo)
    <3>1. index'[c] = index[c]
      BY <1>2, <2>1, <2>3
    <3> QED BY <1>5, <3>1 DEF FairInvariant
  <2> QED BY <2>2, <2>3
<1>6. collected' # Nothing => FairAll(mined, collected'.items)
  BY <1>2 DEF FairInvariant
<1> QED BY <1>2, <1>4, <1>5, <1>6, FairGoes

LEMMA FairEnds ==
  ASSUME HistoryInvariant, FairInvariant, NEW j \in Jobs,
         FetchFails(j) \/ CollectsHistory(j) \/ Leaves(j)
  PROVE  FairInvariant'
<1>1. PICK r : r = job[j]
  OBVIOUS
<1>2. CASE FetchFails(j)
  <2>1. /\ r.at \in Fetching /\ UNCHANGED <<clock, mined, index, collected>>
        /\ Goes(j, IF r.kind = "history" THEN [NoJob EXCEPT !.at = "error"] ELSE Skipped(j))
    BY <1>1, <1>2 DEF FetchFails, Fetching
  <2>2. Head(r.todo) \in Chains /\ FairAll(mined, r.items)
    BY <1>1, <2>1, FairUnderWay
  <2>3. FairJob(mined, Skipped(j))
    <3>1. PICK skipped : skipped = r.skipped \cup {Head(r.todo)}
      OBVIOUS
    <3>2. FairJob(mined, AfterOne(r, {}, skipped))
      BY <2>2, NoneFair, FairOneMore
    <3> QED BY <1>1, <3>1, <3>2, ToldForm
  <2>4. PICK t : t = [NoJob EXCEPT !.at = "error"]
    OBVIOUS
  <2>5. t.at = "error" /\ t.usd = 0
    BY <2>4 DEF NoJob
  <2>6. FairJob(mined, t)
    BY <2>5 DEF FairJob, Fetching
  <2>7. CASE r.kind = "history"
    BY <2>1, <2>4, <2>6, <2>7, FairGoesAlone
  <2>8. CASE r.kind # "history"
    BY <2>1, <2>3, <2>8, FairGoesAlone
  <2> QED BY <2>7, <2>8
<1>3. CASE CollectsHistory(j)
  <2>1. PICK t : t = [r EXCEPT !.at = "done"]
    OBVIOUS
  <2>2. /\ r.at = "starts" /\ UNCHANGED <<clock, mined, index>> /\ Goes(j, t)
        /\ \/ collected' = collected
           \/ collected' = [at |-> clock, items |-> r.items, skipped |-> r.skipped]
    BY <1>1, <1>3, <2>1 DEF CollectsHistory
  <2>3. /\ r.usd \in {0, USD} /\ FairAll(mined, r.items)
        /\ r = [at |-> r.at, kind |-> r.kind, todo |-> r.todo, usd |-> r.usd, txlist |-> r.txlist,
                found |-> r.found, deadline |-> r.deadline, items |-> r.items,
                skipped |-> r.skipped]
    BY <1>1, <2>2, FairUnderWay
  <2>4. t.at = "done" /\ t.usd = r.usd /\ t.items = r.items
    BY <2>1, <2>3
  <2>5. FairJob(mined, t)
    BY <2>3, <2>4 DEF FairJob
  <2>6. collected' # Nothing => FairAll(mined, collected'.items)
    <3>1. CASE collected' = collected
      BY <3>1 DEF FairInvariant
    <3>2. CASE collected' = [at |-> clock, items |-> r.items, skipped |-> r.skipped]
      <4>1. collected'.items = r.items
        BY <3>2
      <4> QED BY <2>3, <4>1
    <3> QED BY <2>2, <3>1, <3>2
  <2>7. \A c \in Chains : index'[c] # Nothing => Fair(mined, c, index'[c].items)
    BY <2>2 DEF FairInvariant
  <2> QED BY <2>2, <2>5, <2>6, <2>7, FairGoes
<1>4. CASE Leaves(j)
  <2>1. Goes(j, NoJob) /\ UNCHANGED <<clock, mined, index, collected>>
    BY <1>4 DEF Leaves
  <2>2. FairJob(mined, NoJob)
    BY DEF FairJob, NoJob, Fetching
  <2> QED BY <2>1, <2>2, FairGoesAlone
<1> QED BY <1>2, <1>3, <1>4

LEMMA InitFair == HistoryInit => FairInvariant
<1> SUFFICES ASSUME HistoryInit PROVE FairInvariant
  OBVIOUS
<1>1. /\ mined = [k \in 1..Len(Past) |-> Tx(k, 0, Past[k][1], Past[k][2])]
      /\ collected = Nothing
      /\ index = [c \in Chains |-> Nothing] /\ job = [j \in Jobs |-> NoJob]
  BY DEF HistoryInit
<1>2. LogFair(mined)
  <2>1. ASSUME NEW k \in 1..Len(Past)
        PROVE  Past[k][1] \in Chains /\ Past[k][2] \in Deeds \cup {p[2] : p \in ToSet(Past)}
    <3>1. DOMAIN Past = 1..Len(Past) /\ Past[k] \in Chains \X {p[2] : p \in ToSet(Past)}
      BY HistoryAssumption
    <3> QED BY <3>1
  <2>2. DOMAIN mined = 1..Len(Past)
    BY <1>1
  <2>3. ASSUME NEW k \in DOMAIN mined
        PROVE  /\ mined[k].chain \in Chains /\ mined[k].value \in Nat /\ mined[k].fee \in Nat
               /\ Amounts(mined[k].moves)
    <3>1. mined[k] = Tx(k, 0, Past[k][1], Past[k][2])
      BY <1>1, <2>2
    <3> QED BY <2>1, <2>2, <3>1, TxFair
  <2> QED BY <2>3 DEF LogFair
<1>3. FairJob(mined, NoJob)
  BY DEF FairJob, NoJob, Fetching
<1> QED BY <1>1, <1>2, <1>3 DEF FairInvariant

LEMMA NextFair ==
  HistoryInvariant /\ FairInvariant /\ [HistoryNext]_historyVars => FairInvariant'
<1> SUFFICES ASSUME HistoryInvariant, FairInvariant, [HistoryNext]_historyVars
             PROVE  FairInvariant'
  OBVIOUS
<1>1. CASE HistoryTick \/ UNCHANGED historyVars
  <2>1. UNCHANGED <<mined, index, collected, job>>
    BY <1>1 DEF HistoryTick, historyVars
  <2> QED BY <2>1 DEF FairInvariant
<1>2. ASSUME NEW c \in Chains, Mines(c) PROVE FairInvariant'
  BY <1>2, FairMines
<1>3. ASSUME NEW j \in Jobs,
             \/ \E c \in Chains : AsksHistory(j, c)
             \/ AsksAnalytics(j) \/ LooksUp(j) \/ FetchesTxlist(j) \/ FetchesTokentx(j)
             \/ Stores(j) \/ FetchFails(j) \/ CollectsHistory(j) \/ Leaves(j)
      PROVE  FairInvariant'
  BY <1>3, FairAsksHistory, FairAsksAnalytics, FairLooksUp, FairFetches, FairStores, FairEnds
<1> QED BY <1>1, <1>2, <1>3 DEF HistoryNext

\* Every item that is kept or told tells of a transaction of its network, no two
\* of the same, and a fee in it is one that the owner has paid.
THEOREM AlwaysFair == HistorySpec => []FairInvariant
<1>1. HistoryInvariant /\ FairInvariant /\ [HistoryNext]_historyVars => FairInvariant'
  BY NextFair
<1> QED BY <1>1, AlwaysHistoryInvariant, InitFair, PTL DEF HistorySpec

Paid(items) == [i \in items |-> PaidFee(i)]

\* The fees of some of the items, as a sum over the fees of them all.
LEMMA PaidOn ==
  ASSUME NEW items, IsFiniteSet(items), \A i \in items : PaidFee(i) \in Nat,
         NEW some, some \subseteq items
  PROVE  SumPaid(some) = SumFunctionOnSet(Paid(items), some)
<1> DEFINE f == [i \in some |-> PaidFee(i)]
           g == Paid(items)
<1>1. SumPaid(some) = SumFunctionOnSet(f, some)
  <2>1. SumPaid(some) = SumFunction(f) /\ DOMAIN f = some
    BY DEF SumPaid
  <2> HIDE DEF f
  <2> QED BY <2>1, Zenon DEF SumFunction
<1>2. IsFiniteSet(some)
  BY FS_Subset
<1>3. \A i \in some : f[i] \in Int /\ f[i] = g[i]
  BY DEF Paid
<1> HIDE DEF f, g
<1>4. SumFunctionOnSet(f, some) = SumFunctionOnSet(g, some)
  BY <1>2, <1>3, SumSame
<1> QED BY <1>1, <1>4 DEF g

\* The days of the timeline add up to the total: a day that is left out has no
\* fees (aggregate_fees).
LEMMA TimelineAdds ==
  ASSUME NEW told, IsFiniteSet(told), \A i \in told : PaidFee(i) \in Nat,
         NEW timeline,
         timeline = [day \in {DayOf(i) : i \in {j \in told : PaidFee(j) > 0}} |->
                       SumPaid({i \in told : DayOf(i) = day})]
  PROVE  SumFunction(timeline) = SumPaid(told)
<1> DEFINE f == Paid(told)
           paying == {j \in told : PaidFee(j) > 0}
           days == {DayOf(i) : i \in paying}
           h == [i \in told |-> DayOf(i)]
           G == [day \in days |-> {i \in told : DayOf(i) = day}]
           dated == {i \in told : h[i] \in days}
           rest == told \ dated
<1>1. \A i \in told : f[i] \in Nat /\ f[i] = PaidFee(i)
  BY DEF Paid
<1>2. IsFiniteSet(dated) /\ IsFiniteSet(rest) /\ IsFiniteSet(paying)
  BY FS_Subset
<1>3. IsFiniteSet(days)
  <2> DEFINE d == [i \in paying |-> DayOf(i)]
  <2>1. d \in Surjection(paying, days)
    BY DEF Surjection
  <2> HIDE DEF d, days, paying
  <2> QED BY <1>2, <2>1, FS_Surjection
<1>4. timeline = [day \in days |-> SumPaid(G[day])]
  <2>1. \A day \in days : G[day] = {i \in told : DayOf(i) = day}
    OBVIOUS
  <2>2. \A day \in days : SumPaid({i \in told : DayOf(i) = day}) = SumPaid(G[day])
    <3> HIDE DEF G
    <3> QED BY <2>1, Zenon
  <2> HIDE DEF G
  <2> QED BY <2>2
<1>5. \A day \in days : timeline[day] = SumFunctionOnSet(f, G[day])
  <2>1. ASSUME NEW day \in days PROVE SumPaid(G[day]) = SumFunctionOnSet(f, G[day])
    <3>1. G[day] \subseteq told
      OBVIOUS
    <3> HIDE DEF G
    <3> QED BY <3>1, PaidOn
  <2> HIDE DEF G, f, days
  <2> QED BY <1>4, <2>1
<1>6. SumFunctionOnSet(timeline, days) = SumFunctionOnSet(f, dated)
  <2>1. \A i \in dated : f[i] \in Int
    BY <1>1
  <2>2. \A i \in dated : h[i] \in days
    OBVIOUS
  <2>3. \A day \in days : \A i : i \in G[day] <=> i \in dated /\ h[i] = day
    OBVIOUS
  <2> HIDE DEF f, h, G, dated, days
  <2>4. Grouped(f, dated, days, h, G, timeline)
    BY <1>2, <1>3, <1>5, <2>1, <2>2, <2>3 DEF Grouped
  <2> QED BY <2>4, SumGroups
<1>7. SumFunctionOnSet(f, rest) = 0
  <2>1. ASSUME NEW i \in rest PROVE f[i] = 0
    <3>1. i \notin paying
      OBVIOUS
    <3> QED BY <1>1, <3>1
  <2> HIDE DEF f, rest
  <2> QED BY <1>2, <2>1, SumZero
<1>8. SumFunctionOnSet(f, told) = SumFunctionOnSet(f, dated) + SumFunctionOnSet(f, rest)
  <2>1. dated \cap rest = {} /\ dated \cup rest = told /\ \A i \in dated \cup rest : f[i] \in Int
    BY <1>1
  <2> HIDE DEF f, dated, rest
  <2>2. SumFunctionOnSet(f, dated \cup rest) = SumFunctionOnSet(f, dated) + SumFunctionOnSet(f, rest)
    BY <1>2, <2>1, SumSplit
  <2> QED BY <2>1, <2>2, Zenon
<1>9. SumFunctionOnSet(f, dated) \in Int
  <2> HIDE DEF f, dated
  <2>1. \A i \in dated : f[i] \in Int
    BY <1>1 DEF dated
  <2> QED BY <1>2, <2>1, SumType
<1>10. SumPaid(told) = SumFunctionOnSet(f, told)
  BY PaidOn
<1>11. SumFunction(timeline) = SumFunctionOnSet(timeline, days)
  <2>1. DOMAIN timeline = days
    BY <1>4
  <2> HIDE DEF days
  <2> QED BY <2>1, Zenon DEF SumFunction
<1> HIDE DEF f, dated, rest, days
<1> QED BY <1>6, <1>7, <1>8, <1>9, <1>10, <1>11

Volumes(items, price) == [i \in items |-> Volume(i, price)]

LEMMA VolumeOn ==
  ASSUME NEW items, IsFiniteSet(items), NEW price, \A i \in items : Volume(i, price) \in Nat,
         NEW some, some \subseteq items
  PROVE  SumVolume(some, price) = SumFunctionOnSet(Volumes(items, price), some)
<1> DEFINE f == [i \in some |-> Volume(i, price)]
           g == Volumes(items, price)
<1>1. SumVolume(some, price) = SumFunctionOnSet(f, some)
  <2>1. SumVolume(some, price) = SumFunction(f) /\ DOMAIN f = some
    BY DEF SumVolume
  <2> HIDE DEF f
  <2> QED BY <2>1, Zenon DEF SumFunction
<1>2. IsFiniteSet(some)
  BY FS_Subset
<1>3. \A i \in some : f[i] \in Int /\ f[i] = g[i]
  BY DEF Volumes
<1> HIDE DEF f, g
<1>4. SumFunctionOnSet(f, some) = SumFunctionOnSet(g, some)
  BY <1>2, <1>3, SumSame
<1> QED BY <1>1, <1>4 DEF g

\* What came in and what went out is within the categories (aggregate_summary).
LEMMA CategoriesAdd ==
  ASSUME NEW told, IsFiniteSet(told), NEW price, \A i \in told : Volume(i, price) \in Nat,
         NEW by, by = [c \in {i.category : i \in told} |->
                         SumVolume({i \in told : i.category = c}, price)]
  PROVE  SumVolume({i \in told : i.direction = "in"}, price)
           + SumVolume({i \in told : i.direction = "out"}, price) <= SumFunction(by)
<1> DEFINE f == Volumes(told, price)
           kinds == {i.category : i \in told}
           h == [i \in told |-> i.category]
           G == [c \in kinds |-> {i \in told : i.category = c}]
           A == {i \in told : i.direction = "in"}
           B == {i \in told : i.direction = "out"}
<1>1. \A i \in told : f[i] \in Nat
  BY DEF Volumes
<1>2. IsFiniteSet(A) /\ IsFiniteSet(B) /\ IsFiniteSet(A \cup B)
  <2>1. A \subseteq told /\ B \subseteq told /\ A \cup B \subseteq told
    OBVIOUS
  <2> HIDE DEF A, B
  <2> QED BY <2>1, FS_Subset
<1>3. IsFiniteSet(kinds)
  <2>1. h \in Surjection(told, kinds)
    BY DEF Surjection
  <2> HIDE DEF h, kinds
  <2> QED BY <2>1, FS_Surjection
<1>4. by = [c \in kinds |-> SumVolume(G[c], price)]
  <2>1. \A c \in kinds : G[c] = {i \in told : i.category = c}
    OBVIOUS
  <2>2. \A c \in kinds : SumVolume({i \in told : i.category = c}, price) = SumVolume(G[c], price)
    <3> HIDE DEF G
    <3> QED BY <2>1, Zenon
  <2> HIDE DEF G
  <2> QED BY <2>2
<1>5. \A c \in kinds : by[c] = SumFunctionOnSet(f, G[c])
  <2>1. ASSUME NEW c \in kinds PROVE SumVolume(G[c], price) = SumFunctionOnSet(f, G[c])
    <3>1. G[c] \subseteq told
      OBVIOUS
    <3> HIDE DEF G
    <3> QED BY <3>1, VolumeOn
  <2> HIDE DEF G, f, kinds
  <2> QED BY <1>4, <2>1
<1>6. SumFunctionOnSet(by, kinds) = SumFunctionOnSet(f, told)
  <2>1. \A i \in told : f[i] \in Int
    BY <1>1
  <2>2. \A i \in told : h[i] \in kinds
    OBVIOUS
  <2>3. \A c \in kinds : \A i : i \in G[c] <=> i \in told /\ h[i] = c
    OBVIOUS
  <2> HIDE DEF f, h, G, kinds
  <2>4. Grouped(f, told, kinds, h, G, by)
    BY <1>3, <1>5, <2>1, <2>2, <2>3 DEF Grouped
  <2> QED BY <2>4, SumGroups
<1>7. SumFunctionOnSet(f, A \cup B) = SumFunctionOnSet(f, A) + SumFunctionOnSet(f, B)
  <2>1. A \cap B = {} /\ \A i \in A \cup B : f[i] \in Int
    BY <1>1
  <2> HIDE DEF f, A, B
  <2> QED BY <1>2, <2>1, SumSplit
<1>8. SumFunctionOnSet(f, A \cup B) <= SumFunctionOnSet(f, told)
  <2>1. A \cup B \in SUBSET told
    OBVIOUS
  <2> HIDE DEF f, A, B
  <2> QED BY <1>1, <2>1, SumMore
<1>9. SumVolume(A, price) = SumFunctionOnSet(f, A) /\ SumVolume(B, price) = SumFunctionOnSet(f, B)
  <2>1. A \subseteq told /\ B \subseteq told
    OBVIOUS
  <2> HIDE DEF A, B
  <2> QED BY <2>1, VolumeOn
<1>10. SumFunction(by) = SumFunctionOnSet(by, kinds)
  <2>1. DOMAIN by = kinds
    BY <1>4
  <2> HIDE DEF kinds
  <2> QED BY <2>1, Zenon DEF SumFunction
<1>11. SumVolume(A, price) + SumVolume(B, price) <= SumFunction(by)
  <2> HIDE DEF f, A, B, kinds
  <2> QED BY <1>6, <1>7, <1>8, <1>9, <1>10
<1> QED BY <1>11, Zenon

LEMMA Products == \A a, b \in Nat : a * b \in Nat
  OBVIOUS

\* Items of any of the networks, one for a transaction.
Accounted(log, items) ==
    /\ IsFiniteSet(items)
    /\ \A i \in items : \E c \in Chains : FairItem(log, c, i)
    /\ \A i, k \in items : i.hash = k.hash => i = k

LEMMA AllItems ==
  ASSUME NEW log, IsList(log), NEW each, FairAll(log, each),
         NEW items, items = UNION {each[c] : c \in Chains}
  PROVE  Accounted(log, items)
<1> DEFINE h == [i \in items |-> i.hash]
<1>1. \A i \in items : \E c \in Chains : i \in each[c] /\ FairItem(log, c, i)
  BY DEF FairAll, Fair
<1>2. ASSUME NEW i \in items, NEW k \in items, i.hash = k.hash PROVE i = k
  <2>1. PICK c \in Chains : i \in each[c] /\ FairItem(log, c, i)
    BY <1>1
  <2>2. PICK d \in Chains : k \in each[d] /\ FairItem(log, d, k)
    BY <1>1
  <2>3. c = d
    BY <1>2, <2>1, <2>2 DEF FairItem
  <2>4. Fair(log, c, each[c])
    BY DEF FairAll
  <2> QED BY <1>2, <2>1, <2>2, <2>3, <2>4 DEF Fair
<1>3. IsFiniteSet(DOMAIN log)
  <2>1. Len(log) \in Nat /\ DOMAIN log = 1..Len(log)
    BY ListFacts
  <2>2. Len(log) \in Int
    BY <2>1
  <2> QED BY <2>1, <2>2, UpToFinite
<1>4. h \in Injection(items, DOMAIN log)
  <2>1. \A i \in items : i.hash \in DOMAIN log
    BY <1>1 DEF FairItem
  <2> QED BY <1>2, <2>1 DEF Injection, IsInjective
<1>5. IsFiniteSet(items)
  <2> HIDE DEF h
  <2> QED BY <1>3, <1>4, FS_Injection
<1> QED BY <1>1, <1>2, <1>5 DEF Accounted

\* What an item weighs in the sums of the analytics.
LEMMA Weights ==
  ASSUME NEW log, LogFair(log), NEW c, NEW i, FairItem(log, c, i), USD \in Nat
  PROVE  /\ PaidFee(i) \in Nat
         /\ Volume(i, [s \in {Native} |-> USD]) \in Nat
         /\ PaidFee(i) > 0 => /\ log[i.hash].from = Owner
                              /\ PaidFee(i) = log[i.hash].fee * USD
<1>1. i.amount \in Nat /\ i.fee \in Nat /\ i.usd \in {0, USD}
  BY DEF FairItem
<1>2. i.amount * USD \in Nat /\ i.fee * USD \in Nat /\ i.amount * 0 = 0 /\ i.fee * 0 = 0
  BY <1>1, Products
<1>3. PaidFee(i) \in Nat
  BY <1>1, <1>2 DEF PaidFee
<1>4. Volume(i, [s \in {Native} |-> USD]) \in Nat
  <2> DEFINE price == [s \in {Native} |-> USD]
  <2>1. DOMAIN price = {Native} /\ price[Native] = USD
    OBVIOUS
  <2>2. Volume(i, price) = i.amount * (IF i.symbol \in {Native} THEN price[i.symbol] ELSE 0)
    BY <2>1, Zenon DEF Volume
  <2>3. CASE i.symbol = Native
    <3>1. Volume(i, price) = i.amount * USD
      BY <2>1, <2>2, <2>3
    <3> QED BY <1>2, <3>1
  <2>4. CASE i.symbol # Native
    <3>1. Volume(i, price) = i.amount * 0
      BY <2>2, <2>4
    <3> QED BY <1>2, <3>1
  <2> QED BY <2>3, <2>4
<1>5. ASSUME PaidFee(i) > 0
      PROVE  log[i.hash].from = Owner /\ PaidFee(i) = log[i.hash].fee * USD
  <2>1. PaidFee(i) = i.fee * i.usd
    BY <1>5 DEF PaidFee
  <2>2. i.usd = USD /\ i.fee > 0
    <3>1. CASE i.usd = 0
      <4>1. PaidFee(i) = i.fee * 0
        BY <2>1, <3>1
      <4> QED BY <1>2, <1>5, <4>1
    <3>2. CASE i.fee = 0
      <4>1. PaidFee(i) = 0 * i.usd /\ i.usd \in Int
        BY <1>1, <2>1, <3>2
      <4>2. 0 * i.usd = 0
        BY <4>1
      <4> QED BY <1>5, <4>1, <4>2
    <3> QED BY <1>1, <3>1, <3>2
  <2>3. log[i.hash].from = Owner /\ i.fee = log[i.hash].fee
    BY <2>2 DEF FairItem
  <2> QED BY <2>1, <2>2, <2>3
<1> QED BY <1>3, <1>4, <1>5

\* The fees that count are fees of the owner in the period, each counted once
\* (paid_fee, aggregate_fees).
LEMMA PaidIsOwed ==
  ASSUME clock \in Nat, USD \in Nat, PERIOD \in Nat, LogOK(mined, clock), LogFair(mined),
         NEW items, Accounted(mined, items)
  PROVE  SumPaid(InPeriod(items, clock, PERIOD)) <= Owed(ToSet(mined))
<1> DEFINE told == InPeriod(items, clock, PERIOD)
           f == Paid(items)
           pos == {i \in told : PaidFee(i) > 0}
           rest == told \ pos
           D == {t \in ToSet(mined) : t.from = Owner /\ t.at + PERIOD >= clock}
           g == [tx \in D |-> tx.fee * USD]
           b == [i \in pos |-> mined[i.hash]]
           image == {b[i] : i \in pos}
<1>1. told \subseteq items /\ pos \subseteq told /\ IsFiniteSet(items)
  BY DEF InPeriod, Accounted
<1>2. IsFiniteSet(told) /\ IsFiniteSet(pos) /\ IsFiniteSet(rest)
  <2>1. pos \subseteq items /\ rest \subseteq items
    BY <1>1
  <2> HIDE DEF told, pos, rest
  <2> QED BY <1>1, <2>1, FS_Subset
<1>3. \A i \in items : PaidFee(i) \in Nat /\ f[i] = PaidFee(i)
  BY Weights DEF Accounted, Paid
<1>4. SumPaid(told) = SumFunctionOnSet(f, told)
  <2> HIDE DEF told
  <2> QED BY <1>1, <1>3, PaidOn
<1>5. SumFunctionOnSet(f, told) = SumFunctionOnSet(f, pos) + SumFunctionOnSet(f, rest)
  <2>1. pos \cap rest = {} /\ pos \cup rest = told
    BY <1>1
  <2>2. \A i \in pos \cup rest : f[i] \in Int
    BY <1>1, <1>3
  <2> HIDE DEF f, pos, rest, told
  <2>3. SumFunctionOnSet(f, pos \cup rest) = SumFunctionOnSet(f, pos) + SumFunctionOnSet(f, rest)
    BY <1>2, <2>1, <2>2, SumSplit
  <2> QED BY <2>1, <2>3, Zenon
<1>6. SumFunctionOnSet(f, rest) = 0
  <2>1. ASSUME NEW i \in rest PROVE f[i] = 0
    <3>1. i \in items /\ ~(PaidFee(i) > 0)
      BY <1>1
    <3> QED BY <1>3, <3>1
  <2> HIDE DEF f, rest
  <2> QED BY <1>2, <2>1, SumZero
<1>7. ASSUME NEW i \in pos
      PROVE  /\ i.hash \in DOMAIN mined /\ mined[i.hash].hash = i.hash
             /\ mined[i.hash] \in D /\ f[i] = mined[i.hash].fee * USD /\ f[i] \in Nat
  <2>1. PICK c \in Chains : FairItem(mined, c, i)
    BY <1>1 DEF Accounted
  <2> DEFINE tx == mined[i.hash]
  <2>2. i.hash \in DOMAIN mined /\ i.at = tx.at /\ tx.hash = i.hash /\ tx.at \in Nat
    BY <2>1 DEF FairItem, LogOK
  <2>3. tx.from = Owner /\ f[i] = tx.fee * USD /\ f[i] \in Nat
    <3>1. PaidFee(i) > 0 /\ i \in items
      BY <1>1
    <3> QED BY <1>3, <2>1, <3>1, Weights
  <2>4. i.at >= (IF clock > PERIOD THEN clock - PERIOD ELSE 0)
    BY DEF InPeriod
  <2>5. tx.at + PERIOD >= clock
    <3> HIDE DEF tx
    <3> QED BY <2>2, <2>4
  <2>6. tx \in ToSet(mined)
    BY <2>2 DEF ToSet
  <2> QED BY <2>2, <2>3, <2>5, <2>6
<1>8. /\ \A i, k \in pos : b[i] = b[k] => i = k
      /\ \A i \in pos : f[i] \in Int /\ g[b[i]] = f[i]
  <2>1. \A i \in pos : b[i] = mined[i.hash]
    OBVIOUS
  <2>2. \A tx \in D : g[tx] = tx.fee * USD
    OBVIOUS
  <2> HIDE DEF b, g, f, D
  <2>3. ASSUME NEW i \in pos, NEW k \in pos, b[i] = b[k] PROVE i = k
    <3>1. i.hash = k.hash
      BY <1>7, <2>1, <2>3
    <3> QED BY <1>1, <3>1 DEF Accounted
  <2>4. ASSUME NEW i \in pos PROVE f[i] \in Int /\ g[b[i]] = f[i]
    BY <1>7, <2>1, <2>2
  <2> QED BY <2>3, <2>4
<1>9. SumFunctionOnSet(g, image) = SumFunctionOnSet(f, pos)
  <2> HIDE DEF f, g, b, pos
  <2> QED BY <1>2, <1>8, SumRenamed
<1>10. SumFunctionOnSet(g, image) <= SumFunctionOnSet(g, D)
  <2>1. image \in SUBSET D
    <3>1. \A i \in pos : b[i] = mined[i.hash]
      OBVIOUS
    <3> HIDE DEF b, D, pos
    <3> QED BY <1>7, <3>1
  <2>2. IsFiniteSet(D)
    <3>1. IsFiniteSet(ToSet(mined)) /\ D \subseteq ToSet(mined)
      BY ListFinite DEF LogOK
    <3> HIDE DEF D
    <3> QED BY <3>1, FS_Subset
  <2>3. ASSUME NEW tx \in D PROVE g[tx] \in Nat
    <3>1. tx.fee \in Nat
      <4>1. PICK k \in DOMAIN mined : tx = mined[k]
        BY DEF ToSet
      <4> QED BY <4>1 DEF LogFair
    <3>2. g[tx] = tx.fee * USD
      OBVIOUS
    <3> HIDE DEF g
    <3> QED BY <3>1, <3>2, Products
  <2> HIDE DEF g, D, image
  <2> QED BY <2>1, <2>2, <2>3, SumMore
<1>11. Owed(ToSet(mined)) = SumFunctionOnSet(g, D)
  <2>1. Owed(ToSet(mined)) = SumFunction(g) /\ DOMAIN g = D
    BY DEF Owed
  <2> HIDE DEF g, D
  <2> QED BY <2>1, Zenon DEF SumFunction
<1>12. SumFunctionOnSet(f, pos) \in Int
  <2>1. \A i \in pos : f[i] \in Int
    BY <1>8
  <2> HIDE DEF f, pos
  <2> QED BY <1>2, <2>1, SumType
<1> HIDE DEF told, f, pos, rest, D, g, image
<1>13. SumPaid(told) <= Owed(ToSet(mined))
  BY <1>4, <1>5, <1>6, <1>9, <1>10, <1>11, <1>12
<1> QED BY <1>13 DEF told

\* A transaction of the owner that is told as it is carries its fee.
LEMMA OldIsPaid ==
  ASSUME USD \in Nat, LogFair(mined), NEW tx \in ToSet(mined), tx.from = Owner,
         NEW items, \A i \in items : Shaped(i) /\ i.fee \in Nat /\ i.usd \in Int,
         \A i \in items : i.fee > 0 => i.usd = USD,
         {i \in Unpriced(items) : i.hash = tx.hash} = {Truth(tx)}
  PROVE  \E i \in items : i.hash = tx.hash /\ PaidFee(i) = tx.fee * USD
<1> DEFINE t == Truth(tx)
<1>1. tx.value \in Nat /\ tx.fee \in Nat /\ Amounts(OwnMoves(tx.moves))
  <2>1. PICK k \in DOMAIN mined : tx = mined[k]
    BY DEF ToSet
  <2>2. Amounts(OwnMoves(tx.moves))
    BY <2>1, SomeAmounts DEF LogFair, OwnMoves
  <2> QED BY <2>1, <2>2 DEF LogFair
<1>2. t = TxToItem(tx, OwnMoves(tx.moves), 0)
  BY DEF Truth, OwnMoves
<1> HIDE DEF t
<1>3. t.hash = tx.hash /\ t.fee = tx.fee /\ t.direction # "in"
  BY <1>1, <1>2, ItemOfTx
<1>4. t \in Unpriced(items)
  BY DEF t
<1>5. PICK i \in items : t = [i EXCEPT !.usd = 0]
  BY <1>4 DEF Unpriced
<1>6. Shaped(i) /\ i.fee \in Nat /\ i.usd \in Int /\ (i.fee > 0 => i.usd = USD)
  OBVIOUS
<1>7. t.hash = i.hash /\ t.fee = i.fee /\ t.direction = i.direction
  <2>1. t = [hash |-> i.hash, at |-> i.at, category |-> i.category, direction |-> i.direction,
             amount |-> i.amount, symbol |-> i.symbol, counterparty |-> i.counterparty,
             fee |-> i.fee, usd |-> 0, status |-> i.status]
    BY <1>5, <1>6 DEF Shaped
  <2> QED BY <2>1
<1>8. PaidFee(i) = i.fee * i.usd
  BY <1>3, <1>7 DEF PaidFee
<1>9. i.fee * i.usd = tx.fee * USD
  <2>1. CASE i.fee > 0
    BY <1>3, <1>6, <1>7, <2>1
  <2>2. CASE i.fee = 0
    <3>1. 0 * USD = 0 /\ 0 * i.usd = 0
      BY <1>6
    <3> QED BY <1>3, <1>7, <2>2, <3>1
  <2> QED BY <1>6, <2>1, <2>2
<1> QED BY <1>3, <1>7, <1>8, <1>9

\* With a price for every fee, all that is old enough is counted.
LEMMA OldIsCounted ==
  ASSUME clock \in Nat, USD \in Nat, PERIOD \in Nat, LogOK(mined, clock), LogFair(mined),
         NEW items, Accounted(mined, items), NEW old, old \subseteq ToSet(mined),
         \A tx \in old : tx.from = Owner =>
            \E i \in items : i.hash = tx.hash /\ PaidFee(i) = tx.fee * USD
  PROVE  Owed(old) <= SumPaid(InPeriod(items, clock, PERIOD))
<1> DEFINE told == InPeriod(items, clock, PERIOD)
           f == Paid(items)
           D == {t \in old : t.from = Owner /\ t.at + PERIOD >= clock}
           g == [tx \in D |-> tx.fee * USD]
           Is(tx, i) == i.hash = tx.hash /\ PaidFee(i) = tx.fee * USD
           b == [tx \in D |-> CHOOSE i \in items : Is(tx, i)]
           image == {b[tx] : tx \in D}
<1>1. told \subseteq items /\ IsFiniteSet(items)
  BY DEF InPeriod, Accounted
<1>2. IsFiniteSet(told) /\ IsFiniteSet(D)
  <2>1. IsFiniteSet(ToSet(mined)) /\ D \subseteq ToSet(mined)
    BY ListFinite DEF LogOK
  <2> HIDE DEF told, D
  <2> QED BY <1>1, <2>1, FS_Subset
<1>3. \A i \in items : PaidFee(i) \in Nat /\ f[i] = PaidFee(i)
  BY Weights DEF Accounted, Paid
<1>4. SumPaid(told) = SumFunctionOnSet(f, told)
  <2> HIDE DEF told
  <2> QED BY <1>1, <1>3, PaidOn
<1>5. ASSUME NEW tx \in D
      PROVE  /\ tx.hash \in DOMAIN mined /\ tx = mined[tx.hash]
             /\ tx.at \in Nat /\ tx.at <= clock /\ tx.fee \in Nat
             /\ tx.from = Owner /\ tx.at + PERIOD >= clock
  <2>1. PICK k \in DOMAIN mined : tx = mined[k]
    BY DEF ToSet
  <2>2. tx.hash = k /\ tx.at \in Nat /\ tx.at <= clock /\ tx.fee \in Nat
    BY <2>1 DEF LogOK, LogFair
  <2> QED BY <2>1, <2>2
<1>6. ASSUME NEW tx \in D PROVE b[tx] \in items /\ Is(tx, b[tx])
  <2>1. \E i \in items : Is(tx, i)
    OBVIOUS
  <2>2. b[tx] = CHOOSE i \in items : Is(tx, i)
    OBVIOUS
  <2> HIDE DEF Is, b
  <2> QED BY <2>1, <2>2
<1>7. ASSUME NEW tx \in D PROVE b[tx] \in told
  <2> DEFINE i == b[tx]
  <2>1. PICK c \in Chains : FairItem(mined, c, i)
    BY <1>6 DEF Accounted
  <2>2. i \in items /\ i.at = tx.at
    BY <1>5, <1>6, <2>1 DEF FairItem
  <2> HIDE DEF i, b
  <2>3. i.at >= (IF clock > PERIOD THEN clock - PERIOD ELSE 0) /\ i.at <= clock + DAY
    <3>1. tx.at \in Nat /\ tx.at <= clock /\ tx.at + PERIOD >= clock
      BY <1>5
    <3> HIDE DEF D
    <3> QED BY <2>2, <3>1 DEF DAY
  <2>4. i \in told
    BY <2>2, <2>3 DEF InPeriod
  <2> QED BY <2>4 DEF i
<1>8. /\ \A x, y \in D : b[x] = b[y] => x = y
      /\ \A x \in D : g[x] \in Int /\ f[b[x]] = g[x]
  <2>1. \A tx \in D : g[tx] = tx.fee * USD
    OBVIOUS
  <2> HIDE DEF b, g, f, D
  <2>2. ASSUME NEW x \in D, NEW y \in D, b[x] = b[y] PROVE x = y
    <3>1. x.hash = y.hash
      BY <1>6, <2>2
    <3> QED BY <1>5, <3>1
  <2>3. ASSUME NEW x \in D PROVE g[x] \in Int /\ f[b[x]] = g[x]
    <3>1. g[x] \in Nat
      BY <1>5, <2>1, Products
    <3>2. f[b[x]] = x.fee * USD
      BY <1>3, <1>6
    <3> QED BY <2>1, <3>1, <3>2
  <2> QED BY <2>2, <2>3
<1>9. SumFunctionOnSet(f, image) = SumFunctionOnSet(g, D)
  <2> HIDE DEF f, g, b, D
  <2> QED BY <1>2, <1>8, SumRenamed
<1>10. SumFunctionOnSet(f, image) <= SumFunctionOnSet(f, told)
  <2>1. image \in SUBSET told
    <3> HIDE DEF b, D, told
    <3> QED BY <1>7
  <2>2. \A i \in told : f[i] \in Nat
    BY <1>1, <1>3
  <2> HIDE DEF f, told, image
  <2> QED BY <1>2, <2>1, <2>2, SumMore
<1>11. Owed(old) = SumFunctionOnSet(g, D)
  <2>1. Owed(old) = SumFunction(g) /\ DOMAIN g = D
    BY DEF Owed
  <2> HIDE DEF g, D
  <2> QED BY <2>1, Zenon DEF SumFunction
<1> HIDE DEF told, f, g, D, image
<1>12. Owed(old) <= SumPaid(told)
  BY <1>4, <1>9, <1>10, <1>11
<1> QED BY <1>12 DEF told

\* What FeesWereOwed says of one answer.
Accounts(j) ==
    LET items == UNION {job[j].items[c] : c \in Chains}
        fees  == AggregateFees(items, clock, PERIOD)
        told  == AggregateSummary(items, clock, PERIOD, [s \in {Native} |-> USD])
        old   == {tx \in ToSet(mined) : /\ tx.chain \in About(j)
                                        /\ OldEnough(j, tx) /\ OnPages(mined, tx)}
    IN  /\ fees.total_fees <= Owed(ToSet(mined))
        /\ told.total_fees = fees.total_fees
        /\ SumFunction(fees.timeline) = fees.total_fees
        /\ told.total_in + told.total_out <= SumFunction(told.by_category)
        /\ (\A i \in items : i.fee > 0 => i.usd = USD) => fees.total_fees >= Owed(old)

LEMMA Owing ==
  ASSUME HistoryInvariant, FairInvariant, NEW j \in Jobs,
         job[j].at = "done", job[j].kind = "analytics"
  PROVE  Accounts(j)
<1>1. PICK items : items = UNION {job[j].items[c] : c \in Chains}
  OBVIOUS
<1>2. PICK fees : fees = AggregateFees(items, clock, PERIOD)
  OBVIOUS
<1>3. PICK told : told = AggregateSummary(items, clock, PERIOD, [s \in {Native} |-> USD])
  OBVIOUS
<1>4. PICK old : old = {tx \in ToSet(mined) : /\ tx.chain \in About(j)
                                               /\ OldEnough(j, tx) /\ OnPages(mined, tx)}
  OBVIOUS
<1> DEFINE these == InPeriod(items, clock, PERIOD)
           price == [s \in {Native} |-> USD]
           timeline == [day \in {DayOf(i) : i \in {k \in these : PaidFee(k) > 0}} |->
                          SumPaid({i \in these : DayOf(i) = day})]
           Going(d) == SumVolume({i \in these : i.direction = d}, price)
           by == [c \in {i.category : i \in these} |->
                    SumVolume({i \in these : i.category = c}, price)]
<1>5. /\ clock \in Nat /\ USD \in Nat /\ PERIOD \in Nat /\ LogOK(mined, clock) /\ LogFair(mined)
      /\ IsList(mined) /\ FairAll(mined, job[j].items)
  BY HistoryAssumption DEF HistoryInvariant, FairInvariant, LogOK, FairJob
<1>6. Accounted(mined, items)
  BY <1>5, <1>1, AllItems
<1>7. /\ IsFiniteSet(these)
      /\ \A i \in these : PaidFee(i) \in Nat /\ Volume(i, price) \in Nat
  <2>1. these \subseteq items /\ IsFiniteSet(items)
    BY <1>6 DEF InPeriod, Accounted
  <2>2. \A i \in items : PaidFee(i) \in Nat /\ Volume(i, price) \in Nat
    BY <1>5, <1>6, Weights DEF Accounted
  <2> HIDE DEF these, price
  <2> QED BY <2>1, <2>2, FS_Subset
<1>8. fees = [total_fees |-> SumPaid(these), timeline |-> timeline]
  BY <1>2, Zenon DEF AggregateFees
<1>9. told = [total_in |-> Going("in"), total_out |-> Going("out"),
              total_fees |-> SumPaid(these), tx_count |-> Cardinality(these), by_category |-> by]
  BY <1>3, Zenon DEF AggregateSummary
<1>10. SumPaid(these) <= Owed(ToSet(mined))
  BY <1>5, <1>6, PaidIsOwed
<1>11. SumFunction(timeline) = SumPaid(these)
  <2> HIDE DEF these
  <2> QED BY <1>7, TimelineAdds
<1>12. Going("in") + Going("out") <= SumFunction(by)
  <2> HIDE DEF these, price
  <2> QED BY <1>7, CategoriesAdd
<1>13. ASSUME \A i \in items : i.fee > 0 => i.usd = USD
      PROVE  Owed(old) <= SumPaid(these)
  <2>1. ASSUME NEW tx \in old, tx.from = Owner
        PROVE  \E i \in items : i.hash = tx.hash /\ PaidFee(i) = tx.fee * USD
    <3> DEFINE c == tx.chain
               part == job[j].items[c]
    <3>1. tx \in ToSet(mined) /\ c \in About(j) /\ tx \in MinedOn(mined, c)
          /\ OldEnough(j, tx) /\ OnPages(mined, tx)
      BY <1>4 DEF MinedOn
    <3>2. {i \in Unpriced(part) : i.hash = tx.hash} = {Truth(tx)}
      BY <3>1, OldAreTold DEF OldTransactionsAreTold
    <3>3. c \in Chains /\ part \subseteq items
      BY <1>1, <3>1 DEF About
    <3>4. \A i \in part : Shaped(i) /\ i.fee \in Nat /\ i.usd \in Int
      <4>1. ASSUME NEW i \in part PROVE Shaped(i) /\ i.fee \in Nat /\ i.usd \in {0, USD}
        <5>1. FairItem(mined, c, i)
          BY <1>5, <3>3 DEF FairAll, Fair
        <5> QED BY <5>1 DEF FairItem
      <4> QED BY <1>5, <4>1
    <3> HIDE DEF c, part
    <3>5. \E i \in part : i.hash = tx.hash /\ PaidFee(i) = tx.fee * USD
      BY <1>5, <1>13, <2>1, <3>1, <3>2, <3>3, <3>4, OldIsPaid
    <3> QED BY <3>3, <3>5
  <2>2. old \subseteq ToSet(mined)
    BY <1>4
  <2> HIDE DEF these
  <2>3. Owed(old) <= SumPaid(InPeriod(items, clock, PERIOD))
    BY <1>5, <1>6, <2>1, <2>2, OldIsCounted
  <2> QED BY <2>3 DEF these
<1>14. SumPaid(these) \in Int
  <2> HIDE DEF these
  <2>1. SumPaid(these) = SumFunctionOnSet(Paid(these), these)
    BY <1>7, PaidOn
  <2>2. \A i \in these : Paid(these)[i] \in Int
    BY <1>7 DEF Paid
  <2> QED BY <1>7, <2>1, <2>2, SumType
<1>15. Owed(old) <= SumPaid(these) => SumPaid(these) >= Owed(old)
  OBVIOUS
<1> HIDE DEF these, price, timeline, Going, by
<1>16. fees.total_fees = SumPaid(these) /\ fees.timeline = timeline
  BY <1>8
<1>17. /\ told.total_in = Going("in") /\ told.total_out = Going("out")
       /\ told.total_fees = SumPaid(these) /\ told.by_category = by
  BY <1>9
<1>18. (\A i \in items : i.fee > 0 => i.usd = USD) => SumPaid(these) >= Owed(old)
  BY <1>13, <1>15, Zenon
<1>19. /\ fees.total_fees <= Owed(ToSet(mined))
       /\ told.total_fees = fees.total_fees
       /\ SumFunction(fees.timeline) = fees.total_fees
       /\ told.total_in + told.total_out <= SumFunction(told.by_category)
       /\ (\A i \in items : i.fee > 0 => i.usd = USD) => fees.total_fees >= Owed(old)
  BY <1>10, <1>11, <1>12, <1>16, <1>17, <1>18, Zenon
<1> QED BY <1>1, <1>2, <1>3, <1>4, <1>19, Zenon DEF Accounts

\* FeesWereOwed: the fees of a period are the owner's, each counted once, and all
\* of them but the youngest, those beyond the first pages and those without a
\* price; timeline and summary agree (aggregate_fees, aggregate_summary,
\* collect_history).
THEOREM FeesOwed == HistorySpec => []FeesWereOwed
<1>1. HistoryInvariant /\ FairInvariant => FeesWereOwed
  <2> SUFFICES ASSUME HistoryInvariant, FairInvariant, NEW j \in Jobs,
                      job[j].at = "done", job[j].kind = "analytics"
               PROVE  Accounts(j)
    BY Zenon DEF FeesWereOwed, Accounts
  <2> QED BY Owing, Zenon
<1> QED BY <1>1, AlwaysFair, AlwaysHistoryInvariant, PTL
=============================================================================
