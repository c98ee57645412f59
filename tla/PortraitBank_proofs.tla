-------------------------- MODULE PortraitBank_proofs --------------------------
(***************************************************************************)
(* The pod with its bank is a pod, and what a patient gateway guarantees of *)
(* the bank's entries, for every capacity and every history.               *)
(***************************************************************************)
EXTENDS PortraitBank, PatientGateway_proofs, FiniteSetTheorems, SequenceTheorems

------------------------------------------------------------------------------
(* The operators of the bank.                                               *)

LEMMA IndexFound ==
    ASSUME NEW store \in Seq(Entry), NEW key, Cached(store, key)
    PROVE  Index(store, key) \in 1..Len(store) /\ store[Index(store, key)].key = key
  BY DEF Cached, Index

\* An entry is removed, and the others move up.
LEMMA RemoveAtElements ==
    ASSUME NEW S, NEW q \in Seq(S), NEW i \in 1..Len(q)
    PROVE  /\ RemoveAt(q, i) \in Seq(S)
           /\ Len(RemoveAt(q, i)) = Len(q) - 1
           /\ \A m \in 1..(Len(q) - 1) :
                RemoveAt(q, i)[m] = IF m < i THEN q[m] ELSE q[m + 1]
<1> DEFINE a == SubSeq(q, 1, i - 1)
           b == SubSeq(q, i + 1, Len(q))
<1>0. Len(q) \in Nat /\ i \in Nat /\ i - 1 \in Nat /\ Len(q) - i \in Nat
  OBVIOUS
<1>1. a \in Seq(S) /\ Len(a) = i - 1 /\ \A m \in 1..(i - 1) : a[m] = q[m]
  OBVIOUS
<1>2. b \in Seq(S) /\ Len(b) = Len(q) - i /\ \A m \in 1..(Len(q) - i) : b[m] = q[m + i]
  OBVIOUS
<1> HIDE DEF a, b
<1>3. a \o b \in Seq(S) /\ Len(a \o b) = Len(q) - 1
  <2>1. a \o b \in Seq(S) /\ Len(a \o b) = Len(a) + Len(b)
    BY <1>1, <1>2, ConcatProperties
  <2> QED BY <1>0, <1>1, <1>2, <2>1
<1>4. \A m \in 1..(Len(q) - 1) : (a \o b)[m] = IF m < i THEN q[m] ELSE q[m + 1]
  BY <1>1, <1>2
<1> QED BY <1>3, <1>4 DEF RemoveAt, a, b

\* `new` has its entries from `old`, and perhaps e at the end; still one per key.
Renews(old, new, e) ==
    /\ new \in Seq(Entry)
    /\ OneEntryPerKey(new)
    /\ \A m \in 1..Len(new) : new[m] = e \/ \E n \in 1..Len(old) : new[m] = old[n]

LEMMA WithoutKey ==
    ASSUME NEW store \in Seq(Entry), OneEntryPerKey(store), NEW i \in 1..Len(store)
    PROVE  \A m \in 1..Len(RemoveAt(store, i)) :
            /\ \E n \in 1..Len(store) : n # i /\ RemoveAt(store, i)[m] = store[n]
            /\ RemoveAt(store, i)[m].key # store[i].key
<1> SUFFICES ASSUME NEW m \in 1..Len(RemoveAt(store, i))
    PROVE  /\ \E n \in 1..Len(store) : n # i /\ RemoveAt(store, i)[m] = store[n]
           /\ RemoveAt(store, i)[m].key # store[i].key
  OBVIOUS
<1> DEFINE n == IF m < i THEN m ELSE m + 1
<1>0. /\ Len(RemoveAt(store, i)) = Len(store) - 1
      /\ \A l \in 1..(Len(store) - 1) :
            RemoveAt(store, i)[l] = IF l < i THEN store[l] ELSE store[l + 1]
  BY RemoveAtElements
<1>1. m \in 1..(Len(store) - 1)
  BY <1>0
<1>2. n \in 1..Len(store) /\ n # i
  BY <1>1
<1>3. RemoveAt(store, i)[m] = store[n]
  BY <1>0, <1>1
<1> HIDE DEF n
<1> QED BY <1>2, <1>3 DEF OneEntryPerKey

LEMMA RemoveAtUnique ==
    ASSUME NEW store \in Seq(Entry), OneEntryPerKey(store), NEW i \in 1..Len(store)
    PROVE  OneEntryPerKey(RemoveAt(store, i))
<1> DEFINE c == RemoveAt(store, i)
<1>0. /\ c \in Seq(Entry) /\ Len(c) = Len(store) - 1
      /\ \A l \in 1..(Len(store) - 1) : c[l] = IF l < i THEN store[l] ELSE store[l + 1]
  BY RemoveAtElements
<1> HIDE DEF c
<1> SUFFICES ASSUME NEW m \in 1..(Len(store) - 1), NEW n \in 1..(Len(store) - 1),
                    c[m].key = c[n].key
    PROVE  m = n
  BY <1>0 DEF OneEntryPerKey, c
<1> DEFINE x == IF m < i THEN m ELSE m + 1
           y == IF n < i THEN n ELSE n + 1
<1>1. c[m] = store[x] /\ c[n] = store[y] /\ x \in 1..Len(store) /\ y \in 1..Len(store)
  BY <1>0
<1> HIDE DEF x, y
<1>2. x = y
  BY <1>1 DEF OneEntryPerKey
<1> QED BY <1>2 DEF x, y

\* An entry is appended to a bank without its key.
LEMMA AppendRenews ==
    ASSUME NEW old, NEW c \in Seq(Entry), OneEntryPerKey(c), NEW e \in Entry,
           \A m \in 1..Len(c) : c[m].key # e.key,
           \A m \in 1..Len(c) : \E n \in 1..Len(old) : c[m] = old[n]
    PROVE  Renews(old, Append(c, e), e)
<1> DEFINE d == Append(c, e)
<1>1. d \in Seq(Entry) /\ Len(d) = Len(c) + 1 /\ d[Len(c) + 1] = e
      /\ \A m \in 1..Len(c) : d[m] = c[m]
  OBVIOUS
<1> HIDE DEF d
<1>2. OneEntryPerKey(d)
  BY <1>1, SMTT(30) DEF OneEntryPerKey
<1>3. \A m \in 1..Len(d) : d[m] = e \/ \E n \in 1..Len(old) : d[m] = old[n]
  BY <1>1
<1> QED BY <1>1, <1>2, <1>3 DEF Renews, d

LEMMA GetRenews ==
    ASSUME NEW store \in Seq(Entry), OneEntryPerKey(store), NEW key, Cached(store, key)
    PROVE  Renews(store, Get(store, key), store[Index(store, key)])
<1> DEFINE i == Index(store, key)
           c == RemoveAt(store, i)
<1>1. i \in 1..Len(store)
  BY IndexFound
<1>2. c \in Seq(Entry) /\ OneEntryPerKey(c)
  BY <1>1, RemoveAtElements, RemoveAtUnique
<1>3. \A m \in 1..Len(c) : c[m].key # store[i].key /\ \E n \in 1..Len(store) : c[m] = store[n]
  BY <1>1, WithoutKey
<1>4. store[i] \in Entry
  BY <1>1
<1> HIDE DEF i, c
<1>5. Renews(store, Append(c, store[i]), store[i])
  BY <1>2, <1>3, <1>4, AppendRenews
<1> QED BY <1>5 DEF Get, c, i

LEMMA WithLastRenews ==
    ASSUME NEW store \in Seq(Entry), OneEntryPerKey(store), NEW e \in Entry
    PROVE  Renews(store, WithLast(store, e), e)
<1>1. CASE Cached(store, e.key)
  <2> DEFINE i == Index(store, e.key)
             c == RemoveAt(store, i)
  <2>1. i \in 1..Len(store) /\ store[i].key = e.key
    BY <1>1, IndexFound
  <2>2. c \in Seq(Entry) /\ OneEntryPerKey(c)
    BY <2>1, RemoveAtElements, RemoveAtUnique
  <2>3. \A m \in 1..Len(c) : c[m].key # e.key /\ \E n \in 1..Len(store) : c[m] = store[n]
    BY <2>1, WithoutKey
  <2> HIDE DEF i, c
  <2>4. Renews(store, Append(c, e), e)
    BY <2>2, <2>3, AppendRenews
  <2> QED BY <1>1, <2>4 DEF WithLast, c, i
<1>2. CASE ~Cached(store, e.key)
  <2>1. \A m \in 1..Len(store) : store[m].key # e.key
    BY <1>2 DEF Cached
  <2>2. Renews(store, Append(store, e), e)
    BY <2>1, AppendRenews
  <2> QED BY <1>2, <2>2 DEF WithLast
<1> QED BY <1>1, <1>2

\* The front of the bank is cut off.
LEMMA TailRenews ==
    ASSUME NEW old, NEW e, NEW all, Renews(old, all, e), NEW n \in Nat \ {0}
    PROVE  Renews(old, SubSeq(all, n, Len(all)), e)
<1> DEFINE c == SubSeq(all, n, Len(all))
<1>1. all \in Seq(Entry)
  BY DEF Renews
<1>2. c \in Seq(Entry) /\ Len(c) = (IF n <= Len(all) THEN Len(all) - n + 1 ELSE 0)
      /\ \A m \in 1..Len(c) : c[m] = all[m + n - 1] /\ m + n - 1 \in 1..Len(all)
  BY <1>1
<1> HIDE DEF c
<1>3. OneEntryPerKey(c)
  <2> SUFFICES ASSUME NEW i \in 1..Len(c), NEW j \in 1..Len(c), c[i].key = c[j].key
      PROVE  i = j
    BY <1>2 DEF OneEntryPerKey
  <2>1. /\ c[i] = all[i + n - 1] /\ i + n - 1 \in 1..Len(all)
        /\ c[j] = all[j + n - 1] /\ j + n - 1 \in 1..Len(all)
    BY <1>2
  <2>2. \A x, y \in 1..Len(all) : all[x].key = all[y].key => x = y
    BY <1>1 DEF Renews, OneEntryPerKey
  <2>3. i + n - 1 = j + n - 1
    BY <2>1, <2>2
  <2> QED BY <1>2, <2>3
<1>4. \A m \in 1..Len(c) : c[m] = e \/ \E i \in 1..Len(old) : c[m] = old[i]
  BY <1>2 DEF Renews
<1> QED BY <1>2, <1>3, <1>4 DEF Renews, c

LEMMA PutRenews ==
    ASSUME NEW store \in Seq(Entry), OneEntryPerKey(store), NEW e \in Entry
    PROVE  Renews(store, Put(store, e), e)
<1> DEFINE all == WithLast(store, e)
           n == Max({1, Len(all) - Capacity + 1})
<1>1. Renews(store, all, e) /\ Len(all) \in Nat
  BY WithLastRenews DEF Renews
<1>2. n \in Nat \ {0}
  <2> DEFINE k == Len(all) - Capacity + 1
  <2>1. k \in Int
    BY <1>1, BankAssumption
  <2> HIDE DEF k
  <2>2. \E x \in {1, k} : \A y \in {1, k} : y <= x
    BY <2>1
  <2>3. Max({1, k}) \in {1, k} /\ Max({1, k}) >= 1
    BY <2>1, <2>2 DEF Max
  <2> QED BY <2>1, <2>3 DEF k
<1> HIDE DEF all, n
<1>3. Renews(store, SubSeq(all, n, Len(all)), e)
  BY <1>1, <1>2, TailRenews
<1> QED BY <1>3 DEF Put, all, n

\* A bank renewed with one of its own entries, or with one of a new key, changes
\* nothing under the keys it keeps.
SameFaces(old, new) ==
    \A i \in DOMAIN old, j \in DOMAIN new : old[i].key = new[j].key => old[i] = new[j]

LEMMA RenewedFaces ==
    ASSUME NEW old \in Seq(Entry), OneEntryPerKey(old), NEW new, NEW e,
           Renews(old, new, e),
           ~Cached(old, e.key) \/ \E n \in 1..Len(old) : e = old[n]
    PROVE  SameFaces(old, new)
<1> SUFFICES ASSUME NEW i \in 1..Len(old), NEW j \in 1..Len(new), old[i].key = new[j].key
    PROVE  old[i] = new[j]
  BY DEF SameFaces, Renews
<1>1. new[j] = e \/ \E n \in 1..Len(old) : new[j] = old[n]
  BY DEF Renews
<1>2. \E n \in 1..Len(old) : new[j] = old[n]
  BY <1>1 DEF Cached
<1> QED BY <1>2 DEF OneEntryPerKey

------------------------------------------------------------------------------
(* The order of the bank.                                                   *)

\* Every session is followed by, or is itself, the last one that used its key.
LastUses(shown) ==
    \A i \in 1..Len(shown) : \E j \in i..Len(shown) :
        shown[j].key = shown[i].key /\ IsLast(shown, j)

\* One more session: it is the last with its key, the others stay what they are.
LEMMA IsLastAfter ==
    ASSUME NEW shown \in Seq(Entry), NEW e \in Entry
    PROVE  /\ IsLast(Append(shown, e), Len(shown) + 1)
           /\ \A i \in 1..Len(shown) :
                IsLast(Append(shown, e), i) <=> IsLast(shown, i) /\ shown[i].key # e.key
<1> DEFINE d == Append(shown, e)
<1>1. d \in Seq(Entry) /\ Len(d) = Len(shown) + 1 /\ d[Len(shown) + 1] = e
      /\ \A m \in 1..Len(shown) : d[m] = shown[m]
  OBVIOUS
<1>2. Len(shown) \in Nat
  OBVIOUS
<1> HIDE DEF d
<1>3. IsLast(d, Len(shown) + 1)
  BY <1>1, <1>2 DEF IsLast
<1>4. ASSUME NEW i \in 1..Len(shown), IsLast(d, i)
      PROVE  IsLast(shown, i) /\ shown[i].key # e.key
  <2>1. \A j \in (i + 1)..(Len(shown) + 1) : d[j].key # d[i].key
    BY <1>1, <1>4 DEF IsLast
  <2>2. d[Len(shown) + 1].key # d[i].key
    BY <1>2, <2>1
  <2>3. \A j \in (i + 1)..Len(shown) : d[j].key # d[i].key /\ d[j] = shown[j]
    BY <1>1, <1>2, <2>1
  <2> QED BY <1>1, <2>2, <2>3 DEF IsLast
<1>5. ASSUME NEW i \in 1..Len(shown), IsLast(shown, i), shown[i].key # e.key
      PROVE  IsLast(d, i)
  <2> SUFFICES ASSUME NEW j \in (i + 1)..(Len(shown) + 1) PROVE d[j].key # d[i].key
    BY <1>1 DEF IsLast
  <2>1. CASE j = Len(shown) + 1
    BY <1>1, <1>5, <2>1
  <2>2. CASE j \in (i + 1)..Len(shown)
    BY <1>1, <1>2, <1>5, <2>2 DEF IsLast
  <2> QED BY <1>2, <2>1, <2>2
<1> QED BY <1>3, <1>4, <1>5 DEF d

LEMMA LastUsesAfter ==
    ASSUME NEW shown \in Seq(Entry), NEW e \in Entry, LastUses(shown)
    PROVE  LastUses(Append(shown, e))
<1> DEFINE d == Append(shown, e)
           n == Len(shown)
<1>1. Len(d) = n + 1 /\ d[n + 1] = e /\ \A m \in 1..n : d[m] = shown[m]
  OBVIOUS
<1>2. n \in Nat
  OBVIOUS
<1>3. IsLast(d, n + 1)
      /\ \A i \in 1..n : IsLast(d, i) <=> IsLast(shown, i) /\ shown[i].key # e.key
  BY IsLastAfter
<1>4. \A i \in 1..n : \E j \in i..n : shown[j].key = shown[i].key /\ IsLast(shown, j)
  BY DEF LastUses
<1> HIDE DEF d, n
<1> SUFFICES ASSUME NEW i \in 1..(n + 1)
    PROVE  \E j \in i..(n + 1) : d[j].key = d[i].key /\ IsLast(d, j)
  BY <1>1 DEF LastUses, d
<1>5. CASE d[i].key = e.key
  BY <1>1, <1>2, <1>3, <1>5
<1>6. CASE d[i].key # e.key
  <2>1. i \in 1..n
    BY <1>1, <1>2, <1>6
  <2>2. PICK j \in i..n : shown[j].key = shown[i].key /\ IsLast(shown, j)
    BY <1>4, <2>1
  <2>3. j \in 1..n /\ j \in i..(n + 1)
    BY <1>2, <2>1, <2>2
  <2>4. d[j] = shown[j] /\ d[i] = shown[i]
    BY <1>1, <2>1, <2>3
  <2> QED BY <1>3, <1>6, <2>2, <2>3, <2>4
<1> QED BY <1>5, <1>6

\* An entry is put behind what the bank has under other keys.
LEMMA PlacesAfter ==
    ASSUME NEW store \in Seq(Entry), NEW shown \in Seq(Entry), NEW e \in Entry,
           NEW pos, Places(pos, store, shown),
           NEW c \in Seq(Entry), Len(c) >= Len(store) - 1,
           NEW f \in [1..Len(c) -> 1..Len(store)],
           \A m \in 1..Len(c) : c[m] = store[f[m]] /\ c[m].key # e.key,
           \A m, k \in 1..Len(c) : m < k => f[m] < f[k],
           \A k \in 1..Len(store) : store[k].key # e.key => \E m \in 1..Len(c) : f[m] = k
    PROVE  \E p : Places(p, Append(c, e), Append(shown, e))
<1> DEFINE a == Append(c, e)
           d == Append(shown, e)
           n == Len(shown)
           l == Len(c)
           k0 == Len(store)
           p == [m \in 1..(l + 1) |-> IF m = l + 1 THEN n + 1 ELSE pos[f[m]]]
<1>1. Len(d) = n + 1 /\ d[n + 1] = e /\ \A m \in 1..n : d[m] = shown[m]
  OBVIOUS
<1>2. Len(a) = l + 1 /\ a[l + 1] = e /\ \A m \in 1..l : a[m] = c[m]
  OBVIOUS
<1>3. n \in Nat /\ l \in Nat /\ k0 \in Nat /\ l >= k0 - 1
  OBVIOUS
<1>4. IsLast(d, n + 1)
      /\ \A i \in 1..n : IsLast(d, i) <=> IsLast(shown, i) /\ shown[i].key # e.key
  BY IsLastAfter
<1>5. /\ pos \in [1..k0 -> 1..n]
      /\ \A m \in 1..k0 : IsLast(shown, pos[m]) /\ store[m] = shown[pos[m]]
      /\ \A m, k \in 1..k0 : m < k => pos[m] < pos[k]
      /\ \A i \in 1..n : IsLast(shown, i) =>
            \/ \E m \in 1..k0 : pos[m] = i
            \/ k0 >= Capacity /\ i < pos[1]
  BY DEF Places
<1>6. /\ f \in [1..l -> 1..k0]
      /\ \A m \in 1..l : c[m] = store[f[m]] /\ c[m].key # e.key
      /\ \A m, k \in 1..l : m < k => f[m] < f[k]
      /\ \A k \in 1..k0 : store[k].key # e.key => \E m \in 1..l : f[m] = k
  OBVIOUS
<1>7. /\ p \in [1..(l + 1) -> 1..(n + 1)]
      /\ p[l + 1] = n + 1
      /\ \A m \in 1..l : p[m] = pos[f[m]] /\ p[m] \in 1..n
  <2>1. \A m \in 1..l : pos[f[m]] \in 1..n
    BY <1>5, <1>6
  <2> QED BY <1>3, <2>1
<1>8. Capacity \in Nat \ {0}
  BY BankAssumption
<1> HIDE DEF a, d, n, l, k0, p
<1>9. \A m \in 1..(l + 1) : IsLast(d, p[m]) /\ a[m] = d[p[m]]
  <2> SUFFICES ASSUME NEW m \in 1..(l + 1) PROVE IsLast(d, p[m]) /\ a[m] = d[p[m]]
    OBVIOUS
  <2>1. CASE m = l + 1
    BY <1>1, <1>2, <1>4, <1>7, <2>1
  <2>2. CASE m # l + 1
    <3>1. m \in 1..l
      BY <1>3, <2>2
    <3>2. /\ p[m] = pos[f[m]] /\ p[m] \in 1..n /\ f[m] \in 1..k0
          /\ c[m] = store[f[m]] /\ c[m].key # e.key
      BY <1>6, <1>7, <3>1
    <3>3. IsLast(shown, p[m]) /\ c[m] = shown[p[m]]
      BY <1>5, <3>2
    <3>4. a[m] = c[m] /\ d[p[m]] = shown[p[m]]
      BY <1>1, <1>2, <3>1, <3>2
    <3> QED BY <1>4, <3>2, <3>3, <3>4
  <2> QED BY <2>1, <2>2
<1>10. \A m, k \in 1..(l + 1) : m < k => p[m] < p[k]
  <2> SUFFICES ASSUME NEW m \in 1..(l + 1), NEW k \in 1..(l + 1), m < k PROVE p[m] < p[k]
    OBVIOUS
  <2>1. m \in 1..l
    BY <1>3
  <2>2. CASE k = l + 1
    BY <1>3, <1>7, <2>1, <2>2
  <2>3. CASE k # l + 1
    <3>1. k \in 1..l
      BY <1>3, <2>3
    <3>2. f[m] < f[k] /\ f[m] \in 1..k0 /\ f[k] \in 1..k0
      BY <1>6, <2>1, <3>1
    <3>3. pos[f[m]] < pos[f[k]]
      BY <1>5, <3>2
    <3> QED BY <1>7, <2>1, <3>1, <3>3
  <2> QED BY <2>2, <2>3
<1>11. ASSUME NEW i \in 1..(n + 1), IsLast(d, i)
       PROVE  (\E m \in 1..(l + 1) : p[m] = i) \/ (l + 1 >= Capacity /\ i < p[1])
  <2>1. CASE i = n + 1
    BY <1>3, <1>7, <2>1
  <2>2. CASE i # n + 1
    <3>1. i \in 1..n
      BY <1>3, <2>2
    <3>2. IsLast(shown, i) /\ shown[i].key # e.key
      BY <1>4, <1>11, <3>1
    <3>3. CASE \E m \in 1..k0 : pos[m] = i
      <4>1. PICK k \in 1..k0 : pos[k] = i
        BY <3>3
      <4>2. store[k].key # e.key
        BY <1>5, <3>2, <4>1
      <4>3. PICK m \in 1..l : f[m] = k
        BY <1>6, <4>2
      <4>4. p[m] = i /\ m \in 1..(l + 1)
        BY <1>3, <1>7, <4>1, <4>3
      <4> QED BY <4>4
    <3>4. CASE k0 >= Capacity /\ i < pos[1]
      <4>1. l + 1 >= Capacity
        BY <1>3, <1>8, <3>4
      <4>2. CASE l = 0
        BY <1>3, <1>7, <3>1, <4>1, <4>2
      <4>3. CASE l > 0
        <5>1. 1 \in 1..l /\ 1 \in 1..k0 /\ f[1] \in 1..k0 /\ p[1] = pos[f[1]]
          BY <1>3, <1>6, <1>7, <1>8, <3>4, <4>3
        <5>2. pos[1] \in 1..n /\ pos[f[1]] \in 1..n
          BY <1>5, <5>1
        <5>3. f[1] = 1 \/ pos[1] < pos[f[1]]
          BY <1>5, <5>1
        <5> QED BY <3>1, <3>4, <4>1, <5>1, <5>2, <5>3
      <4> QED BY <1>3, <4>2, <4>3
    <3> QED BY <1>5, <3>1, <3>2, <3>3, <3>4
  <2> QED BY <2>1, <2>2
<1>12. Places(p, a, d)
  BY <1>1, <1>2, <1>7, <1>9, <1>10, <1>11 DEF Places
<1> QED BY <1>12 DEF a, d

LEMMA MaxOfTwo ==
    ASSUME NEW x \in Int, NEW y \in Int
    PROVE  Max({x, y}) = IF x >= y THEN x ELSE y
<1>1. \E m \in {x, y} : \A z \in {x, y} : z <= m
  OBVIOUS
<1>2. Max({x, y}) \in {x, y} /\ \A z \in {x, y} : z <= Max({x, y})
  BY <1>1 DEF Max
<1> QED BY <1>2

LEMMA MinOfTwo ==
    ASSUME NEW x \in Int, NEW y \in Int
    PROVE  Min({x, y}) = IF x <= y THEN x ELSE y
<1>1. \E m \in {x, y} : \A z \in {x, y} : m <= z
  OBVIOUS
<1>2. Min({x, y}) \in {x, y} /\ \A z \in {x, y} : Min({x, y}) <= z
  BY <1>1 DEF Min
<1> QED BY <1>2

LEMMA TailElements ==
    ASSUME NEW all \in Seq(Entry), NEW i \in Nat \ {0}, i <= Len(all) + 1
    PROVE  LET c == SubSeq(all, i, Len(all))
           IN  /\ c \in Seq(Entry)
               /\ Len(c) = Len(all) - i + 1
               /\ \A m \in 1..Len(c) : c[m] = all[m + i - 1] /\ m + i - 1 \in 1..Len(all)
<1> DEFINE c == SubSeq(all, i, Len(all))
<1>1. c \in Seq(Entry) /\ Len(c) = (IF i <= Len(all) THEN Len(all) - i + 1 ELSE 0)
      /\ \A m \in 1..Len(c) : c[m] = all[m + i - 1] /\ m + i - 1 \in 1..Len(all)
  OBVIOUS
<1>2. Len(all) \in Nat
  OBVIOUS
<1> HIDE DEF c
<1>3. Len(c) = Len(all) - i + 1
  BY <1>1, <1>2
<1> QED BY <1>1, <1>3 DEF c

\* Room is made at the front, where the entries of the longest ago stand.
LEMMA PlacesInRoom ==
    ASSUME NEW all \in Seq(Entry), NEW shown \in Seq(Entry),
           NEW pos, Places(pos, all, shown), NEW i \in Nat \ {0},
           i = Max({1, Len(all) - Capacity + 1})
    PROVE  /\ Len(SubSeq(all, i, Len(all))) <= Capacity
           /\ \E p : Places(p, SubSeq(all, i, Len(all)), shown)
<1> DEFINE c == SubSeq(all, i, Len(all))
           n == Len(shown)
           l == Len(all)
           k0 == Len(c)
           p == [m \in 1..k0 |-> pos[m + i - 1]]
<1>1. n \in Nat /\ l \in Nat /\ Capacity \in Nat \ {0}
  BY BankAssumption
<1>2. i = IF l >= Capacity THEN l - Capacity + 1 ELSE 1
  <2>1. l - Capacity + 1 \in Int
    BY <1>1
  <2>2. i = IF 1 >= l - Capacity + 1 THEN 1 ELSE l - Capacity + 1
    <3> DEFINE y == l - Capacity + 1
    <3>1. y \in Int /\ i = Max({1, y})
      BY <2>1
    <3> HIDE DEF y
    <3>2. i = IF 1 >= y THEN 1 ELSE y
      BY <3>1, MaxOfTwo
    <3> QED BY <3>2 DEF y
  <2> QED BY <1>1, <2>2
<1>3. i \in Nat /\ 1 <= i /\ i <= l + 1
  BY <1>1, <1>2
<1>4. /\ c \in Seq(Entry) /\ k0 = l - i + 1
      /\ \A m \in 1..k0 : c[m] = all[m + i - 1] /\ m + i - 1 \in 1..l
  BY <1>3, TailElements
<1>5. /\ pos \in [1..l -> 1..n]
      /\ \A m \in 1..l : IsLast(shown, pos[m]) /\ all[m] = shown[pos[m]]
      /\ \A m, k \in 1..l : m < k => pos[m] < pos[k]
      /\ \A j \in 1..n : IsLast(shown, j) =>
            \/ \E m \in 1..l : pos[m] = j
            \/ l >= Capacity /\ j < pos[1]
  BY DEF Places
<1>6. k0 = l - i + 1 /\ \A m \in 1..k0 : m + i - 1 \in 1..l
  BY <1>4
<1>7. p \in [1..k0 -> 1..n] /\ \A m \in 1..k0 : p[m] = pos[m + i - 1]
  BY <1>5, <1>6
<1> HIDE DEF c, n, l, k0, p
<1>8. \A m \in 1..k0 : IsLast(shown, p[m]) /\ c[m] = shown[p[m]]
  <2> SUFFICES ASSUME NEW m \in 1..k0 PROVE IsLast(shown, p[m]) /\ c[m] = shown[p[m]]
    OBVIOUS
  <2> DEFINE x == m + i - 1
  <2>1. x \in 1..l /\ c[m] = all[x] /\ p[m] = pos[x]
    BY <1>4, <1>7
  <2> HIDE DEF x
  <2> QED BY <1>5, <2>1
<1>9. \A m, k \in 1..k0 : m < k => p[m] < p[k]
  <2> SUFFICES ASSUME NEW m \in 1..k0, NEW k \in 1..k0, m < k PROVE p[m] < p[k]
    OBVIOUS
  <2> DEFINE x == m + i - 1
             y == k + i - 1
  <2>1. x \in 1..l /\ y \in 1..l /\ p[m] = pos[x] /\ p[k] = pos[y]
    BY <1>4, <1>7
  <2>2. x < y
    BY <1>1, <1>3, <1>6
  <2> HIDE DEF x, y
  <2> QED BY <1>5, <2>1, <2>2
<1>10. ASSUME NEW j \in 1..n, IsLast(shown, j)
       PROVE  (\E m \in 1..k0 : p[m] = j) \/ (k0 >= Capacity /\ j < p[1])
  <2>1. CASE \E m \in 1..l : pos[m] = j
    <3>1. PICK m \in 1..l : pos[m] = j
      BY <2>1
    <3>2. CASE m >= i
      <4>1. m - i + 1 \in 1..k0 /\ (m - i + 1) + i - 1 = m
        BY <1>1, <1>3, <1>6, <3>2, SMTT(30)
      <4>2. p[m - i + 1] = j
        BY <1>7, <3>1, <4>1
      <4> QED BY <4>1, <4>2
    <3>3. CASE m < i
      <4>1. l >= Capacity /\ k0 = Capacity
        BY <1>1, <1>2, <1>6, <3>3
      <4>2. 1 \in 1..k0 /\ i \in 1..l /\ p[1] = pos[i]
        <5>1. 1 \in 1..k0 /\ i \in 1..l /\ 1 + i - 1 = i
          BY <1>1, <1>2, <1>3, <4>1
        <5> QED BY <1>7, <5>1
      <4> QED BY <1>1, <1>5, <3>1, <3>3, <4>1, <4>2
    <3> QED BY <1>3, <3>2, <3>3
  <2>2. CASE l >= Capacity /\ j < pos[1]
    <3>1. k0 = Capacity
      BY <1>1, <1>2, <1>6, <2>2
    <3>2. 1 \in 1..k0 /\ 1 \in 1..l /\ i \in 1..l /\ p[1] = pos[i]
      <4>1. 1 \in 1..k0 /\ 1 \in 1..l /\ i \in 1..l /\ 1 + i - 1 = i
        BY <1>1, <1>2, <1>3, <2>2, <3>1
      <4> QED BY <1>7, <4>1
    <3>3. i = 1 \/ pos[1] < pos[i]
      BY <1>3, <1>5, <3>2
    <3>4. pos[1] \in 1..n /\ pos[i] \in 1..n
      BY <1>5, <3>2
    <3> QED BY <1>1, <2>2, <3>1, <3>2, <3>3, <3>4
  <2> QED BY <1>5, <1>10, <2>1, <2>2
<1>11. Places(p, c, shown)
  BY <1>7, <1>8, <1>9, <1>10 DEF Places, k0, n
<1>12. k0 <= Capacity
  BY <1>1, <1>2, <1>6
<1> QED BY <1>11, <1>12 DEF c, l, k0

\* The bank and its history, typed.
BankInOrder(b) ==
    /\ b.store \in Seq(Entry)
    /\ b.shown \in Seq(Entry)
    /\ OneEntryPerKey(b.store)
    /\ InOrder(b)

LEMMA InOrderMeans ==
    ASSUME NEW b, BankInOrder(b)
    PROVE  /\ Len(b.store) <= Capacity
           /\ LastUses(b.shown)
           /\ \E pos : Places(pos, b.store, b.shown)
  BY DEF BankInOrder, InOrder, LastUses

LEMMA InOrderBy ==
    ASSUME NEW b, b.store \in Seq(Entry), b.shown \in Seq(Entry), OneEntryPerKey(b.store),
           Len(b.store) <= Capacity, LastUses(b.shown),
           \E pos : Places(pos, b.store, b.shown)
    PROVE  BankInOrder(b)
<1>1. \E pos \in [1..Len(b.store) -> 1..Len(b.shown)] : Places(pos, b.store, b.shown)
  BY DEF Places
<1> QED BY <1>1 DEF BankInOrder, InOrder, LastUses

\* What is left of the bank without an entry, and where it was.
LEMMA PlacesAfterRemoval ==
    ASSUME NEW store \in Seq(Entry), NEW shown \in Seq(Entry), OneEntryPerKey(store),
           NEW pos, Places(pos, store, shown), NEW i \in 1..Len(store),
           NEW e \in Entry, e.key = store[i].key
    PROVE  \E p : Places(p, Append(RemoveAt(store, i), e), Append(shown, e))
<1> DEFINE c == RemoveAt(store, i)
           k0 == Len(store)
           f == [m \in 1..(k0 - 1) |-> IF m < i THEN m ELSE m + 1]
<1>0. k0 \in Nat /\ i \in 1..k0
  OBVIOUS
<1>1. /\ c \in Seq(Entry)
      /\ Len(c) = k0 - 1
      /\ \A m \in 1..(k0 - 1) : c[m] = IF m < i THEN store[m] ELSE store[m + 1]
  BY RemoveAtElements
<1>2. f \in [1..(k0 - 1) -> 1..k0] /\ \A m \in 1..(k0 - 1) :
            f[m] # i /\ f[m] = IF m < i THEN m ELSE m + 1
  BY <1>0
<1>3. \A m \in 1..Len(c) : c[m].key # e.key
  BY WithoutKey
<1> HIDE DEF c, k0, f
<1>4. \A m \in 1..Len(c) : c[m] = store[f[m]] /\ c[m].key # e.key
  BY <1>0, <1>1, <1>2, <1>3
<1>5. \A m, k \in 1..Len(c) : m < k => f[m] < f[k]
  <2> SUFFICES ASSUME NEW m \in 1..(k0 - 1), NEW k \in 1..(k0 - 1), m < k
      PROVE  f[m] < f[k]
    BY <1>1
  <2>1. f[m] = (IF m < i THEN m ELSE m + 1) /\ f[k] = (IF k < i THEN k ELSE k + 1)
    BY <1>2
  <2> QED BY <1>0, <2>1
<1>6. \A k \in 1..k0 : store[k].key # e.key => \E m \in 1..Len(c) : f[m] = k
  <2> SUFFICES ASSUME NEW k \in 1..k0, store[k].key # e.key
      PROVE  \E m \in 1..Len(c) : f[m] = k
    OBVIOUS
  <2>1. k # i
    OBVIOUS
  <2>2. CASE k < i
    <3>1. k \in 1..Len(c) /\ f[k] = k
      BY <1>0, <1>1, <1>2, <2>2
    <3> QED BY <3>1
  <2>3. CASE k > i
    <3>1. k - 1 \in 1..Len(c) /\ f[k - 1] = k
      BY <1>0, <1>1, <1>2, <2>3
    <3> QED BY <3>1
  <2> QED BY <1>0, <2>1, <2>2, <2>3
<1>7. Len(c) >= k0 - 1 /\ f \in [1..Len(c) -> 1..k0]
  BY <1>0, <1>1, <1>2
<1>8. \E p : Places(p, Append(c, e), Append(shown, e))
  BY <1>1, <1>4, <1>5, <1>6, <1>7, PlacesAfter DEF k0
<1> QED BY <1>8 DEF c

LEMMA PlacesWithLast ==
    ASSUME NEW store \in Seq(Entry), NEW shown \in Seq(Entry), OneEntryPerKey(store),
           NEW pos, Places(pos, store, shown), NEW e \in Entry
    PROVE  \E p : Places(p, WithLast(store, e), Append(shown, e))
<1>1. CASE Cached(store, e.key)
  <2> DEFINE i == Index(store, e.key)
  <2>1. i \in 1..Len(store) /\ e.key = store[i].key
    BY <1>1, IndexFound
  <2> HIDE DEF i
  <2>2. \E p : Places(p, Append(RemoveAt(store, i), e), Append(shown, e))
    BY <2>1, PlacesAfterRemoval
  <2> QED BY <1>1, <2>2 DEF WithLast, i
<1>2. CASE ~Cached(store, e.key)
  <2> DEFINE f == [m \in 1..Len(store) |-> m]
  <2>1. \A m \in 1..Len(store) : store[m].key # e.key
    BY <1>2 DEF Cached
  <2>2. f \in [1..Len(store) -> 1..Len(store)] /\ \A m \in 1..Len(store) : f[m] = m
    OBVIOUS
  <2>3. Len(store) \in Nat
    OBVIOUS
  <2> HIDE DEF f
  <2>4. \E p : Places(p, Append(store, e), Append(shown, e))
    BY <2>1, <2>2, <2>3, PlacesAfter
  <2> QED BY <1>2, <2>4 DEF WithLast
<1> QED BY <1>1, <1>2

\* A hit keeps the bank in order.
LEMMA HitInOrder ==
    ASSUME NEW b, BankInOrder(b), NEW key, Cached(b.store, key)
    PROVE  BankInOrder(Hit(b, key))
<1> DEFINE i == Index(b.store, key)
           e == b.store[i]
           store == Get(b.store, key)
           shown == Append(b.shown, e)
<1>1. b.store \in Seq(Entry) /\ b.shown \in Seq(Entry) /\ OneEntryPerKey(b.store)
  BY DEF BankInOrder
<1>2. i \in 1..Len(b.store)
  BY <1>1, IndexFound
<1>3. e \in Entry
  BY <1>1, <1>2
<1>4. store \in Seq(Entry) /\ OneEntryPerKey(store)
  BY <1>1, GetRenews DEF Renews
<1>5. store = Append(RemoveAt(b.store, i), e)
  BY DEF Get
<1>6. Len(store) = Len(b.store)
  <2> DEFINE c == RemoveAt(b.store, i)
  <2>1. c \in Seq(Entry) /\ Len(c) = Len(b.store) - 1 /\ Len(b.store) \in Nat
    BY <1>1, <1>2, RemoveAtElements
  <2> HIDE DEF c, e
  <2>2. Len(Append(c, e)) = Len(c) + 1
    BY <2>1
  <2> QED BY <1>5, <2>1, <2>2 DEF c
<1>7. PICK pos : Places(pos, b.store, b.shown)
  BY InOrderMeans
<1>8. \E p : Places(p, Append(RemoveAt(b.store, i), e), shown)
  <2> HIDE DEF i
  <2> QED BY <1>1, <1>2, <1>3, <1>7, PlacesAfterRemoval
<1>9. LastUses(shown) /\ shown \in Seq(Entry)
  BY <1>1, <1>3, LastUsesAfter, InOrderMeans
<1>10. Len(store) <= Capacity
  BY <1>6, InOrderMeans
<1>11. Hit(b, key).store = store /\ Hit(b, key).shown = shown
  BY DEF Hit
<1> HIDE DEF i, e, store, shown
<1> QED BY <1>4, <1>5, <1>8, <1>9, <1>10, <1>11, InOrderBy

\* So does what is encoded and put, whether or not the bank has its key.
LEMMA EncodeInOrder ==
    ASSUME NEW b, BankInOrder(b), NEW e \in Entry
    PROVE  BankInOrder(Encode(b, e))
<1> DEFINE all == WithLast(b.store, e)
           i == Max({1, Len(all) - Capacity + 1})
           store == Put(b.store, e)
           shown == Append(b.shown, e)
<1>1. b.store \in Seq(Entry) /\ b.shown \in Seq(Entry) /\ OneEntryPerKey(b.store)
  BY DEF BankInOrder
<1>2. store \in Seq(Entry) /\ OneEntryPerKey(store)
  BY <1>1, PutRenews DEF Renews
<1>3. all \in Seq(Entry) /\ Len(all) \in Nat
  BY <1>1, WithLastRenews DEF Renews
<1>4. store = SubSeq(all, i, Len(all))
  BY DEF Put
<1>5. i \in Nat \ {0}
  <2> DEFINE y == Len(all) - Capacity + 1
  <2>1. y \in Int
    BY <1>3, BankAssumption
  <2> HIDE DEF y
  <2>2. Max({1, y}) = IF 1 >= y THEN 1 ELSE y
    BY <2>1, MaxOfTwo
  <2> QED BY <2>1, <2>2 DEF y
<1>6. PICK pos : Places(pos, b.store, b.shown)
  BY InOrderMeans
<1>7. PICK p : Places(p, all, shown)
  BY <1>1, <1>6, PlacesWithLast
<1>8. LastUses(shown) /\ shown \in Seq(Entry)
  BY <1>1, LastUsesAfter, InOrderMeans
<1>9. Encode(b, e).store = store /\ Encode(b, e).shown = shown
  BY DEF Encode
<1>10. i = Max({1, Len(all) - Capacity + 1})
  OBVIOUS
<1> HIDE DEF all, i, store, shown
<1>11. Len(store) <= Capacity /\ \E q : Places(q, store, shown)
  BY <1>3, <1>4, <1>5, <1>7, <1>8, <1>10, PlacesInRoom
<1> QED BY <1>2, <1>8, <1>9, <1>11, InOrderBy

------------------------------------------------------------------------------
(* A bank in order holds the keys used last: how many they are.             *)

LEMMA KeysInFinite ==
    ASSUME NEW shown, NEW i \in Nat, NEW j \in Nat
    PROVE  IsFiniteSet(KeysIn(shown, i, j))
<1> DEFINE S == (i + 1)..(j - 1)
           T == KeysIn(shown, i, j)
           f == [m \in S |-> shown[m].key]
<1>1. IsFiniteSet(S)
  BY FS_Interval
<1>2. f \in Surjection(S, T)
  BY DEF Surjection, KeysIn
<1> HIDE DEF S, T, f
<1>3. IsFiniteSet(T)
  BY <1>1, <1>2, FS_Surjection
<1> QED BY <1>3 DEF T

\* The keys of the bank from its m-th entry on.
KeysFrom(store, m) == {store[k].key : k \in m..Len(store)}

\* They are as many as the entries.
LEMMA KeysFromCounted ==
    ASSUME NEW store \in Seq(Entry), OneEntryPerKey(store), NEW m \in 1..(Len(store) + 1)
    PROVE  /\ IsFiniteSet(KeysFrom(store, m))
           /\ Cardinality(KeysFrom(store, m)) = Len(store) - m + 1
<1> DEFINE S == m..Len(store)
           T == KeysFrom(store, m)
           f == [k \in S |-> store[k].key]
<1>1. Len(store) \in Nat
  OBVIOUS
<1>2. IsFiniteSet(S) /\ Cardinality(S) = Len(store) - m + 1
  <2> DEFINE l == Len(store)
  <2>1. l \in Int /\ m \in Int /\ m <= l + 1
    BY <1>1
  <2> HIDE DEF l
  <2>2. IsFiniteSet(m..l) /\ Cardinality(m..l) = IF m > l THEN 0 ELSE l - m + 1
    BY <2>1, FS_Interval
  <2>3. Cardinality(m..l) = l - m + 1
    BY <2>1, <2>2
  <2> QED BY <2>2, <2>3 DEF l
<1>3. f \in Bijection(S, T)
  <2>1. f \in Surjection(S, T)
    BY DEF Surjection, KeysFrom
  <2>2. \A k, l \in S : f[k] = f[l] => k = l
    BY <1>1 DEF OneEntryPerKey
  <2>3. f \in Injection(S, T)
    BY <2>1, <2>2 DEF Injection, IsInjective, Surjection
  <2> QED BY <2>1, <2>3 DEF Bijection
<1> HIDE DEF S, T, f
<1>4. IsFiniteSet(T) /\ Cardinality(T) = Cardinality(S)
  BY <1>2, <1>3, FS_Bijection DEF ExistsBijection
<1> QED BY <1>2, <1>4 DEF T

\* The keys that were used after an entry of the bank stand behind it.
LEMMA LaterKeys ==
    ASSUME NEW b, BankInOrder(b), NEW pos, Places(pos, b.store, b.shown),
           NEW m \in 1..Len(b.store)
    PROVE  KeysIn(b.shown, pos[m], Len(b.shown) + 1) = KeysFrom(b.store, m + 1)
<1> DEFINE n == Len(b.shown)
           l == Len(b.store)
<1>1. n \in Nat /\ l \in Nat
  BY DEF BankInOrder
<1>2. /\ pos \in [1..l -> 1..n]
      /\ \A k \in 1..l : IsLast(b.shown, pos[k]) /\ b.store[k] = b.shown[pos[k]]
      /\ \A j, k \in 1..l : j < k => pos[j] < pos[k]
      /\ \A i \in 1..n : IsLast(b.shown, i) =>
            \/ \E k \in 1..l : pos[k] = i
            \/ l >= Capacity /\ i < pos[1]
  BY DEF Places
<1>3. \A i \in 1..n : \E j \in i..n : b.shown[j].key = b.shown[i].key /\ IsLast(b.shown, j)
  BY InOrderMeans DEF LastUses
<1> HIDE DEF n
<1>4. m \in 1..l /\ 1 \in 1..l /\ pos[m] \in 1..n /\ pos[1] \in 1..n
  BY <1>1, <1>2
<1>5. m = 1 \/ pos[1] < pos[m]
  BY <1>2, <1>4
<1>6. ASSUME NEW x \in (pos[m] + 1)..n
      PROVE  \E k \in (m + 1)..l : b.store[k].key = b.shown[x].key
  <2>1. x \in 1..n
    BY <1>1, <1>4
  <2>2. PICK j \in x..n : b.shown[j].key = b.shown[x].key /\ IsLast(b.shown, j)
    BY <1>3, <2>1
  <2>3. j \in 1..n /\ j > pos[m]
    BY <1>1, <1>4, <2>1, <2>2
  <2>4. ~(j < pos[1])
    BY <1>1, <1>4, <1>5, <2>3
  <2>5. PICK k \in 1..l : pos[k] = j
    BY <1>2, <2>2, <2>3, <2>4
  <2>6. k > m
    <3>1. SUFFICES ASSUME k <= m PROVE FALSE
      BY <1>4, <2>5
    <3>2. k = m \/ pos[k] < pos[m]
      BY <1>2, <1>4, <2>5, <3>1
    <3> QED BY <1>4, <2>3, <2>5, <3>2
  <2>7. k \in (m + 1)..l
    BY <1>1, <1>4, <2>5, <2>6
  <2>8. b.store[k] = b.shown[j]
    BY <1>2, <2>5
  <2> QED BY <2>2, <2>7, <2>8
<1>7. ASSUME NEW k \in (m + 1)..l
      PROVE  \E x \in (pos[m] + 1)..n : b.store[k].key = b.shown[x].key
  <2>1. k \in 1..l /\ m < k
    BY <1>1, <1>4
  <2>2. pos[m] < pos[k] /\ pos[k] \in 1..n /\ b.store[k] = b.shown[pos[k]]
    BY <1>2, <1>4, <2>1
  <2>3. pos[k] \in (pos[m] + 1)..n
    BY <1>1, <1>4, <2>2
  <2> QED BY <2>2, <2>3
<1>8. KeysIn(b.shown, pos[m], n + 1) = {b.shown[x].key : x \in (pos[m] + 1)..n}
  <2>1. (n + 1) - 1 = n
    BY <1>1
  <2> QED BY <2>1 DEF KeysIn
<1>9. KeysFrom(b.store, m + 1) = {b.store[k].key : k \in (m + 1)..l}
  BY DEF KeysFrom
<1> HIDE DEF l
<1>10. {b.shown[x].key : x \in (pos[m] + 1)..n} = {b.store[k].key : k \in (m + 1)..l}
  <2> DEFINE X == (pos[m] + 1)..n
             K == (m + 1)..l
             g(x) == b.shown[x].key
             h(k) == b.store[k].key
  <2>1. \A x \in X : \E k \in K : h(k) = g(x)
    BY <1>6
  <2>2. \A k \in K : \E x \in X : h(k) = g(x)
    BY <1>7
  <2> HIDE DEF X, K, g, h
  <2>3. {g(x) : x \in X} = {h(k) : k \in K}
    BY <2>1, <2>2, Zenon
  <2> QED BY <2>3 DEF X, K, g, h
<1> QED BY <1>8, <1>9, <1>10 DEF n

\* The last use of a key that the bank has lost lies before all that it holds.
LEMMA LostKeys ==
    ASSUME NEW b, BankInOrder(b), NEW pos, Places(pos, b.store, b.shown),
           NEW i \in 0..Len(b.shown), Len(b.store) >= Capacity, i < pos[1]
    PROVE  KeysFrom(b.store, 1) \subseteq KeysIn(b.shown, i, Len(b.shown) + 1)
<1> DEFINE n == Len(b.shown)
           l == Len(b.store)
<1>1. n \in Nat /\ l \in Nat /\ Capacity \in Nat \ {0}
  BY BankAssumption DEF BankInOrder
<1>2. /\ pos \in [1..l -> 1..n]
      /\ \A k \in 1..l : b.store[k] = b.shown[pos[k]]
      /\ \A j, k \in 1..l : j < k => pos[j] < pos[k]
  BY DEF Places
<1> HIDE DEF n, l
<1>3. i \in Nat /\ i < pos[1] /\ l >= Capacity
  BY DEF n, l
<1>4. ASSUME NEW k \in 1..l
      PROVE  \E x \in (i + 1)..((n + 1) - 1) : b.store[k].key = b.shown[x].key
  <2>1. 1 \in 1..l
    BY <1>1, <1>3
  <2>2. pos[1] \in 1..n /\ pos[k] \in 1..n /\ (k = 1 \/ pos[1] < pos[k])
    BY <1>2, <2>1
  <2>3. pos[k] \in (i + 1)..((n + 1) - 1)
    BY <1>1, <1>3, <2>2
  <2> QED BY <1>2, <2>3
<1> QED BY <1>4 DEF KeysFrom, KeysIn, n, l

\* All keys that were used stand in the bank, or it is full of others.
LEMMA AllKeys ==
    ASSUME NEW b, BankInOrder(b)
    PROVE  Len(b.store) =
                Min({Capacity, Cardinality(KeysIn(b.shown, 0, Len(b.shown) + 1))})
<1> DEFINE n == Len(b.shown)
           l == Len(b.store)
           U == KeysIn(b.shown, 0, n + 1)
<1>1. PICK pos : Places(pos, b.store, b.shown)
  BY InOrderMeans
<1>2. n \in Nat /\ l \in Nat /\ Capacity \in Nat \ {0} /\ l <= Capacity
  BY InOrderMeans, BankAssumption DEF BankInOrder
<1>3. IsFiniteSet(U) /\ Cardinality(U) \in Nat
  BY <1>2, KeysInFinite, FS_CardinalityType
<1>4. IsFiniteSet(KeysFrom(b.store, 1)) /\ Cardinality(KeysFrom(b.store, 1)) = l
  <2>1. 1 \in 1..(l + 1)
    BY <1>2
  <2>2. /\ IsFiniteSet(KeysFrom(b.store, 1))
        /\ Cardinality(KeysFrom(b.store, 1)) = l - 1 + 1
    BY <2>1, KeysFromCounted DEF BankInOrder
  <2> QED BY <1>2, <2>2
<1>5. pos \in [1..l -> 1..n] /\ \A k \in 1..l : b.store[k] = b.shown[pos[k]]
  BY <1>1 DEF Places
<1>6. KeysFrom(b.store, 1) \subseteq U
  <2> SUFFICES ASSUME NEW k \in 1..l
      PROVE  \E x \in (0 + 1)..((n + 1) - 1) : b.store[k].key = b.shown[x].key
    BY DEF KeysFrom, KeysIn
  <2>1. pos[k] \in 1..n /\ b.store[k] = b.shown[pos[k]]
    BY <1>5
  <2>2. pos[k] \in (0 + 1)..((n + 1) - 1)
    BY <1>2, <2>1
  <2> QED BY <2>1, <2>2
<1>7. l <= Cardinality(U)
  BY <1>3, <1>4, <1>6, FS_Subset
<1>8. CASE l >= Capacity
  <2>1. Min({Capacity, Cardinality(U)}) = IF Capacity <= Cardinality(U) THEN Capacity ELSE Cardinality(U)
    BY <1>2, <1>3, MinOfTwo
  <2> HIDE DEF n, l, U
  <2>2. l = Min({Capacity, Cardinality(U)})
    BY <1>2, <1>3, <1>7, <1>8, <2>1
  <2> QED BY <2>2 DEF n, l, U
<1>9. CASE l < Capacity
  <2>1. U \subseteq KeysFrom(b.store, 1)
    <3> SUFFICES ASSUME NEW x \in (0 + 1)..((n + 1) - 1)
        PROVE  \E k \in 1..l : b.store[k].key = b.shown[x].key
      BY DEF KeysFrom, KeysIn
    <3>1. x \in 1..n
      BY <1>2
    <3>2. PICK j \in x..n : b.shown[j].key = b.shown[x].key /\ IsLast(b.shown, j)
      BY <3>1, InOrderMeans DEF LastUses
    <3>3. j \in 1..n
      BY <1>2, <3>1, <3>2
    <3>4. \E k \in 1..l : pos[k] = j
      BY <1>1, <1>2, <1>9, <3>2, <3>3 DEF Places
    <3> QED BY <1>5, <3>2, <3>4
  <2>2. U = KeysFrom(b.store, 1)
    BY <1>6, <2>1
  <2>3. Cardinality(U) = l
    BY <1>4, <2>2
  <2>4. Min({Capacity, Cardinality(U)}) = IF Capacity <= Cardinality(U) THEN Capacity ELSE Cardinality(U)
    BY <1>2, <1>3, MinOfTwo
  <2> HIDE DEF n, l, U
  <2>5. l = Min({Capacity, Cardinality(U)})
    BY <1>2, <1>3, <1>9, <2>3, <2>4
  <2> QED BY <2>5 DEF n, l, U
<1> QED BY <1>2, <1>8, <1>9

LEMMA OrderIsRecency == BankInOrder(bank) => BankIsMostRecent
<1> SUFFICES ASSUME BankInOrder(bank) PROVE BankIsMostRecent
  OBVIOUS
<1> DEFINE n == Len(bank.shown)
           l == Len(bank.store)
           Later(i) == KeysIn(bank.shown, i, n + 1)
<1>1. PICK pos : Places(pos, bank.store, bank.shown)
  BY InOrderMeans
<1>2. n \in Nat /\ l \in Nat /\ Capacity \in Nat \ {0} /\ l <= Capacity
  BY InOrderMeans, BankAssumption DEF BankInOrder
<1>3. ASSUME NEW i \in 1..n, bank.shown[i].key \notin Later(i),
             Cardinality(Later(i)) < Capacity
      PROVE  bank.store[l - Cardinality(Later(i))] = bank.shown[i]
  <2>1. IsLast(bank.shown, i)
    <3>1. (n + 1) - 1 = n
      BY <1>2
    <3> QED BY <1>3, <3>1 DEF IsLast, KeysIn
  <2>2. CASE \E m \in 1..l : pos[m] = i
    <3>1. PICK m \in 1..l : pos[m] = i
      BY <2>2
    <3>2. Later(i) = KeysFrom(bank.store, m + 1)
      BY <1>1, <3>1, LaterKeys
    <3>3. m + 1 \in 1..(l + 1)
      BY <1>2, <3>1
    <3>4. Cardinality(KeysFrom(bank.store, m + 1)) = l - (m + 1) + 1
      BY <3>3, KeysFromCounted DEF BankInOrder
    <3>5. l - Cardinality(Later(i)) = m
      BY <1>2, <3>1, <3>2, <3>4
    <3>6. bank.store[m] = bank.shown[i]
      BY <1>1, <3>1 DEF Places
    <3> QED BY <3>5, <3>6
  <2>3. CASE l >= Capacity /\ i < pos[1]
    <3>1. KeysFrom(bank.store, 1) \subseteq Later(i)
      <4>1. i \in 0..Len(bank.shown)
        BY <1>2
      <4> QED BY <1>1, <2>3, <4>1, LostKeys
    <3>2. IsFiniteSet(Later(i)) /\ Cardinality(Later(i)) \in Nat
      BY <1>2, KeysInFinite, FS_CardinalityType
    <3>3. IsFiniteSet(KeysFrom(bank.store, 1)) /\ Cardinality(KeysFrom(bank.store, 1)) = l
      <4>1. 1 \in 1..(l + 1)
        BY <1>2
      <4>2. /\ IsFiniteSet(KeysFrom(bank.store, 1))
            /\ Cardinality(KeysFrom(bank.store, 1)) = l - 1 + 1
        BY <4>1, KeysFromCounted DEF BankInOrder
      <4> QED BY <1>2, <4>2
    <3>4. l <= Cardinality(Later(i))
      BY <3>1, <3>2, <3>3, FS_Subset
    <3> QED BY <1>2, <1>3, <2>3, <3>2, <3>4
  <2> QED BY <1>1, <2>1, <2>2, <2>3 DEF Places
<1>4. l = Min({Capacity, Cardinality(Later(0))})
  BY AllKeys
<1> QED BY <1>3, <1>4 DEF BankIsMostRecent

------------------------------------------------------------------------------
(* A bank in order and the faces that sessions show.                        *)

LEMMA NewFace ==
    ASSUME NEW shown \in Seq(Entry), NEW e \in Entry, SameFace(shown),
           \A i \in 1..Len(shown) :
                /\ shown[i].key = e.key
                /\ Cardinality(KeysIn(shown, i, Len(shown) + 1) \ {e.key}) < Capacity
                => shown[i].portrait = e.portrait
    PROVE  SameFace(Append(shown, e))
<1> DEFINE d == Append(shown, e)
           n == Len(shown)
<1>1. DOMAIN d = 1..(n + 1) /\ d[n + 1] = e /\ \A m \in 1..n : d[m] = shown[m]
  OBVIOUS
<1>2. n \in Nat /\ DOMAIN shown = 1..n
  OBVIOUS
<1>3. \A i \in 1..n : /\ shown[i].key = e.key
                      /\ Cardinality(KeysIn(shown, i, n + 1) \ {e.key}) < Capacity
                      => shown[i].portrait = e.portrait
  OBVIOUS
<1> HIDE DEF d, n
<1> SUFFICES ASSUME NEW i \in 1..(n + 1), NEW j \in 1..(n + 1), i < j, d[i].key = d[j].key,
                    Cardinality(KeysIn(d, i, j) \ {d[i].key}) < Capacity
    PROVE  d[i].portrait = d[j].portrait
  BY <1>1 DEF SameFace, d
<1>4. i \in 1..n /\ d[i] = shown[i]
  BY <1>1, <1>2
<1>5. KeysIn(d, i, j) = KeysIn(shown, i, j)
  <2> DEFINE X == (i + 1)..(j - 1)
  <2>1. \A m \in X : d[m] = shown[m]
    BY <1>1, <1>2
  <2> HIDE DEF X
  <2>2. {d[m].key : m \in X} = {shown[m].key : m \in X}
    BY <2>1
  <2> QED BY <2>2 DEF KeysIn, X
<1>6. CASE j = n + 1
  BY <1>1, <1>3, <1>4, <1>5, <1>6
<1>7. CASE j # n + 1
  <2>1. j \in 1..n /\ d[j] = shown[j]
    BY <1>1, <1>2, <1>7
  <2> QED BY <1>2, <1>4, <1>5, <2>1 DEF SameFace
<1> QED BY <1>6, <1>7

\* A hit shows the face that the last session with the key showed.
LEMMA HitKeepsFaces ==
    ASSUME NEW b, BankInOrder(b), SameFace(b.shown), NEW key, Cached(b.store, key)
    PROVE  SameFace(Hit(b, key).shown)
<1> DEFINE m == Index(b.store, key)
           e == b.store[m]
           shown == b.shown
           n == Len(shown)
<1>1. b.store \in Seq(Entry) /\ shown \in Seq(Entry) /\ n \in Nat
  BY DEF BankInOrder
<1>2. m \in 1..Len(b.store) /\ e.key = key
  BY <1>1, IndexFound
<1>3. e \in Entry
  BY <1>1, <1>2
<1>4. PICK pos : Places(pos, b.store, shown)
  BY InOrderMeans
<1> DEFINE l == pos[m]
<1>5. Hit(b, key).shown = Append(shown, e)
  BY DEF Hit
<1> HIDE DEF m
<1>6. l \in 1..n /\ IsLast(shown, l) /\ e = shown[l]
  BY <1>2, <1>4 DEF Places
<1> HIDE DEF e, n, l
<1>7. ASSUME NEW i \in 1..n, shown[i].key = e.key,
             Cardinality(KeysIn(shown, i, n + 1) \ {e.key}) < Capacity
      PROVE  shown[i].portrait = e.portrait
  <2>1. ~(i > l)
    <3>1. i > l => i \in (l + 1)..Len(shown)
      BY <1>1, <1>6 DEF n
    <3> QED BY <1>6, <1>7, <3>1 DEF IsLast
  <2>2. CASE i = l
    BY <1>6, <2>2
  <2>3. CASE i < l
    <3> DEFINE S == KeysIn(shown, i, n + 1) \ {e.key}
               T == KeysIn(shown, i, l) \ {e.key}
    <3>1. IsFiniteSet(KeysIn(shown, i, n + 1))
      BY <1>1, KeysInFinite
    <3>2. IsFiniteSet(S)
      BY <3>1, FS_Subset
    <3>3. T \subseteq S
      <4>1. (i + 1)..(l - 1) \subseteq (i + 1)..((n + 1) - 1)
        BY <1>1, <1>6
      <4> QED BY <4>1 DEF KeysIn
    <3> HIDE DEF S, T
    <3>4. /\ Cardinality(S) \in Nat /\ Cardinality(T) \in Nat
          /\ Cardinality(T) <= Cardinality(S)
      BY <3>2, <3>3, FS_Subset, FS_CardinalityType
    <3>5. Cardinality(S) < Capacity /\ Capacity \in Nat
      BY <1>7, BankAssumption DEF S
    <3>6. Cardinality(T) < Capacity
      BY <3>4, <3>5
    <3>7. i \in DOMAIN shown /\ l \in DOMAIN shown
      BY <1>1, <1>6 DEF n
    <3>8. shown[i].key = shown[l].key
      BY <1>6, <1>7
    <3>9. Cardinality(KeysIn(shown, i, l) \ {shown[i].key}) < Capacity
      BY <1>7, <3>6 DEF T
    <3> QED BY <1>6, <2>3, <3>7, <3>8, <3>9 DEF SameFace
  <2> QED BY <1>6, <2>1, <2>2, <2>3
<1>8. SameFace(Append(shown, e))
  BY <1>1, <1>3, <1>7, NewFace DEF n
<1> QED BY <1>5, <1>8

\* What the bank has lost was followed by Capacity other keys.
LEMMA EncodeKeepsFaces ==
    ASSUME NEW b, BankInOrder(b), SameFace(b.shown), NEW e \in Entry,
           ~Cached(b.store, e.key)
    PROVE  SameFace(Encode(b, e).shown)
<1> DEFINE shown == b.shown
           n == Len(shown)
           l == Len(b.store)
           F == KeysFrom(b.store, 1)
<1>1. /\ b.store \in Seq(Entry) /\ shown \in Seq(Entry) /\ OneEntryPerKey(b.store)
      /\ n \in Nat /\ l \in Nat /\ Capacity \in Nat \ {0}
  BY BankAssumption DEF BankInOrder
<1>2. \A k \in 1..l : b.store[k].key # e.key
  BY <1>1 DEF Cached
<1>3. PICK pos : Places(pos, b.store, shown)
  BY InOrderMeans
<1>4. IsFiniteSet(F) /\ Cardinality(F) = l
  <2>1. 1 \in 1..(l + 1)
    BY <1>1
  <2>2. IsFiniteSet(F) /\ Cardinality(F) = l - 1 + 1
    BY <1>1, <2>1, KeysFromCounted
  <2> QED BY <1>1, <2>2
<1>5. e.key \notin F
  BY <1>2 DEF KeysFrom
<1>6. ASSUME NEW i \in 1..n, shown[i].key = e.key,
             Cardinality(KeysIn(shown, i, n + 1) \ {e.key}) < Capacity
      PROVE  shown[i].portrait = e.portrait
  <2> DEFINE S == KeysIn(shown, i, n + 1) \ {e.key}
  <2>1. PICK j \in i..n : shown[j].key = shown[i].key /\ IsLast(shown, j)
    BY InOrderMeans DEF LastUses
  <2>2. j \in 1..n /\ i <= j /\ i \in Nat /\ j \in Nat
    BY <1>1, <2>1
  <2>3. ~\E k \in 1..l : pos[k] = j
    BY <1>2, <1>3, <1>6, <2>1 DEF Places
  <2>4. l >= Capacity /\ j < pos[1]
    BY <1>3, <2>1, <2>2, <2>3 DEF Places
  <2>5. pos[1] \in Nat
    <3>1. 1 \in 1..l
      BY <1>1, <2>4
    <3>2. pos[1] \in 1..n
      BY <1>3, <3>1 DEF Places
    <3> QED BY <3>2
  <2>6. i \in 0..n /\ i < pos[1]
    BY <1>1, <2>2, <2>4, <2>5
  <2>7. F \subseteq KeysIn(shown, i, n + 1)
    BY <1>3, <2>4, <2>6, LostKeys
  <2>8. IsFiniteSet(KeysIn(shown, i, n + 1))
    BY <1>1, <2>2, KeysInFinite
  <2>9. F \subseteq S
    BY <1>5, <2>7
  <2>10. IsFiniteSet(S)
    BY <2>8, FS_Subset
  <2> HIDE DEF F, S
  <2>11. Cardinality(F) <= Cardinality(S) /\ Cardinality(S) \in Nat
    BY <2>9, <2>10, FS_Subset, FS_CardinalityType
  <2>12. Cardinality(S) < Capacity
    BY <1>6 DEF S
  <2> QED BY <1>1, <1>4, <2>4, <2>11, <2>12
<1>7. SameFace(Append(shown, e))
  BY <1>1, <1>6, NewFace
<1> QED BY <1>7 DEF Encode

\* BankAssumption is what whole requests, one after the other, make of a new bank:
\* of start()'s lookup and put with no other session between them.
THEOREM RequestsKeepOrder ==
    /\ BankInOrder(EmptyBank) /\ SameFace(EmptyBank.shown)
    /\ \A b, e : e \in Entry /\ BankInOrder(b) /\ SameFace(b.shown) =>
            BankInOrder(Serve(b, e)) /\ SameFace(Serve(b, e).shown)
<1>1. BankInOrder(EmptyBank) /\ SameFace(EmptyBank.shown)
  <2>1. EmptyBank.store = << >> /\ EmptyBank.shown = << >>
    BY DEF EmptyBank
  <2>2. Len(<< >>) = 0 /\ << >> \in Seq(Entry) /\ DOMAIN << >> = {} /\ 1..0 = {}
    OBVIOUS
  <2>3. OneEntryPerKey(<< >>) /\ SameFace(<< >>) /\ LastUses(<< >>)
    BY <2>2 DEF OneEntryPerKey, SameFace, LastUses
  <2>4. Places([m \in {} |-> m], << >>, << >>)
    BY <2>2 DEF Places
  <2>5. Len(<< >>) <= Capacity
    BY <2>2, BankAssumption
  <2> QED BY <2>1, <2>2, <2>3, <2>4, <2>5, InOrderBy
<1>2. ASSUME NEW b, NEW e, e \in Entry, BankInOrder(b), SameFace(b.shown)
      PROVE  BankInOrder(Serve(b, e)) /\ SameFace(Serve(b, e).shown)
  BY <1>2, HitInOrder, EncodeInOrder, HitKeepsFaces, EncodeKeepsFaces DEF Serve
<1> QED BY <1>1, <1>2

------------------------------------------------------------------------------
(* The pod with its bank is a pod.                                          *)

LEMMA BankStepIsStep == [BankNext]_<<vars, bank>> => [Next]_vars
  BY DEF BankNext, Next, IdentityLookup, IdentityEncoded, IdentityStep, vars

\* The bank only decides between steps that SessionManager has: whatever holds of
\* SessionManager's behaviours holds of the pod with its bank.
THEOREM BankedPodIsAPod == BankSpec => Spec
  BY BankStepIsStep, PTL DEF BankSpec, BankInit, Spec

------------------------------------------------------------------------------
(* The recency of the bank, under every gateway.                            *)

LEMMA InitInOrder == BankInit => BankInOrder(bank)
<1> SUFFICES ASSUME BankInit PROVE BankInOrder(bank)
  OBVIOUS
<1>1. /\ bank.store \in Seq(Entry) /\ bank.shown \in Seq(Entry)
      /\ OneEntryPerKey(bank.store) /\ InOrder(bank)
  BY BankAssumption DEF BankInit
<1> QED BY <1>1 DEF BankInOrder

LEMMA NextInOrder ==
    ASSUME BankInOrder(bank), [BankNext]_<<vars, bank>>
    PROVE  BankInOrder(bank')
<1>1. CASE UNCHANGED bank
  BY <1>1
<1>2. ASSUME NEW s \in Sessions, IdentityLookup(s)
      PROVE  BankInOrder(bank')
  <2>1. [key |-> KeyOf[s], portrait |-> Grey] \in Entry
    BY BankAssumption DEF Entry
  <2> QED BY <1>2, <2>1, HitInOrder, EncodeInOrder DEF IdentityLookup
<1>3. ASSUME NEW s \in Sessions, IdentityEncoded(s)
      PROVE  BankInOrder(bank')
  <2>1. [key |-> KeyOf[s], portrait |-> s] \in Entry
    BY BankAssumption DEF Entry
  <2> QED BY <1>3, <2>1, EncodeInOrder DEF IdentityEncoded
<1> QED BY <1>1, <1>2, <1>3 DEF BankNext

\* identity_bank.py:37: whatever the gateway does, the bank is a cache of the keys
\* used last: it holds as many of them as fit, each entry as it was last shown, in
\* the order of their last use.
THEOREM LeastRecentlyUsedGoes == BankSpec => []BankIsMostRecent
<1>1. BankInOrder(bank) /\ [BankNext]_<<vars, bank>> => BankInOrder(bank)'
  BY NextInOrder
<1> QED BY <1>1, InitInOrder, OrderIsRecency, PTL DEF BankSpec

------------------------------------------------------------------------------
(* The entries of the bank under a patient gateway.                         *)

\* A session that waits for its image has not found its key, and nobody can have
\* put it meanwhile.
BankInv ==
    /\ PatientPodInv
    /\ bank.store \in Seq(Entry)
    /\ OneEntryPerKey(bank.store)
    /\ \A s \in Sessions :
            ses[s].start = "load_image" => ~Cached(bank.store, KeyOf[s])

LEMMA InitBankInv == BankInit => BankInv
<1> SUFFICES ASSUME BankInit PROVE BankInv
  OBVIOUS
<1>1. PatientPodInv
  BY InitPatientPod DEF BankInit
<1>2. bank.store \in Seq(Entry) /\ OneEntryPerKey(bank.store)
  BY BankAssumption DEF BankInit
<1>3. \A s \in Sessions : ses[s].start # "load_image"
  BY DEF BankInit, Init, NewSession
<1> QED BY <1>1, <1>2, <1>3 DEF BankInv

\* Nothing but ChannelReady makes a session wait for its image.
LEMMA OtherStepLoadsNothing ==
    ASSUME PodInv, OtherStep, NEW s \in Sessions, ses'[s].start = "load_image"
    PROVE  ses[s].start = "load_image"
<1> DEFINE r == ses[s]
<1>0. ses \in [Sessions -> SessionState] /\ r \in SessionState
  BY DEF PodInv
<1>1. ASSUME NEW t \in Sessions, NEW q, ses' = [ses EXCEPT ![t] = q],
             q.start = "load_image" => ses[t].start = "load_image"
      PROVE  r.start = "load_image"
  BY <1>0, <1>1
<1>2. CASE Load \/ Exit \/ Exited
  BY <1>2 DEF Load, Exit, Exited, vars
<1>3. CASE Shutdown
  <2>1. CASE ses' = ses
    BY <2>1
  <2>2. CASE ses' # ses
    <3>1. active \in Sessions /\ "lifespan" \in Stoppers
          /\ ses' = [ses EXCEPT ![active] = Stop(ses[active], "lifespan")]
      BY <1>3, <2>2 DEF Shutdown, PodInv, Busy, Stoppers
    <3>2. Stop(ses[active], "lifespan").start \in {ses[active].start, "cleanup", "done"}
      BY <1>0, <3>1, StopMoves DEF Moves
    <3> QED BY <1>1, <3>1, <3>2
  <2> QED BY <2>1, <2>2
<1>4. ASSUME NEW t \in Sessions, Create(t) PROVE r.start = "load_image"
  <2>1. [ses[t] EXCEPT !.start = "scheduled"].start = "scheduled"
    BY <1>0 DEF SessionState
  <2> QED BY <1>1, <1>4, <2>1 DEF Create
<1>5. ASSUME NEW t \in Sessions, OtherStartStep(t) PROVE r.start = "load_image"
  <2> DEFINE p == ses[t]
  <2>0. p \in SessionState
    BY <1>0
  <2>1. CASE StartBegins(t)
    <3>1. ConnectOpenAI(p).start = "oai_connect"
      BY <2>0 DEF ConnectOpenAI, SessionState
    <3> QED BY <1>1, <2>1, <3>1 DEF StartBegins, Step
  <2>2. CASE OpenAIConnected(t)
    <3>1. AwaitChannel(p).start = "oai_open"
      BY <2>0 DEF AwaitChannel, SessionState
    <3> QED BY <1>1, <2>2, <3>1 DEF OpenAIConnected, Step
  <2>3. CASE SfuJoined(t)
    <3>1. PublishTracks(p).start = "sfu_publish"
      BY <2>0 DEF PublishTracks, SessionState
    <3> QED BY <1>1, <2>3, <3>1 DEF SfuJoined, Step
  <2>4. CASE TracksPublished(t)
    <3>1. WarmUp(p, t \in SpeakerLoop).start = "first_frame"
      BY <2>0 DEF WarmUp, SessionState
    <3> QED BY <1>1, <2>4, <3>1 DEF TracksPublished, Step
  <2>5. CASE FrameSeen(t)
    <3> DEFINE q == [p EXCEPT !.phase = "ready", !.start = "done"]
    <3>1. q \in SessionState /\ q.start = "done"
      BY <2>0 DEF SessionState, Phases, StartPoints
    <3> HIDE DEF q
    <3>2. Emit(q, "avatar_ready").start = "done"
      BY <3>1, EmitFields
    <3>3. BecomeReady(p).start = "done"
      BY <3>2 DEF BecomeReady, q
    <3> QED BY <1>1, <2>5, <3>3 DEF FrameSeen, Step
  <2>6. CASE StartRaises(t)
    <3>1. StartFails(p).start \in {p.start, "cleanup", "done"}
      BY <2>0, StartFailsMoves, FailedFields DEF Moves
    <3> QED BY <1>1, <2>6, <3>1 DEF StartRaises, Step
  <2> QED BY <1>5, <2>1, <2>2, <2>3, <2>4, <2>5, <2>6 DEF OtherStartStep
<1>6. ASSUME NEW t \in Sessions, NEW k \in Clients, Delete(t, k)
      PROVE  r.start = "load_image"
  <2>1. Stop(ses[t], k).start \in {ses[t].start, "cleanup", "done"}
    BY <1>0, StopMoves DEF Moves, Stoppers
  <2> QED BY <1>1, <1>6, <2>1 DEF Delete, Step
<1>7. ASSUME NEW t \in Sessions, NEW k \in Stoppers, StopStep(t, k)
      PROVE  r.start = "load_image"
  <2>1. StopResumes(ses[t], k).start \in {ses[t].start, "cleanup", "done"}
    BY <1>0, StopResumesMoves DEF Moves
  <2> QED BY <1>1, <1>7, <2>1 DEF StopStep, Step
<1>8. ASSUME NEW t \in Sessions,
             ChannelOpens(t) \/ OpenAIDies(t) \/ SfuDies(t) \/ FirstFrame(t)
                \/ PipelineCrashes(t)
      PROVE  r.start = "load_image"
  <2>1. ses[t] \in SessionState
    BY <1>0
  <2>2. \E q : ses' = [ses EXCEPT ![t] = q] /\ q.start = ses[t].start
    BY <1>8, <2>1 DEF ChannelOpens, OpenAIDies, SfuDies, FirstFrame, PipelineCrashes,
                      Step, SessionState
  <2> QED BY <1>1, <2>2
<1> QED BY <1>2, <1>3, <1>4, <1>5, <1>6, <1>7, <1>8 DEF OtherStep

\* The session that consults the bank is the only one under way.
LEMMA OnlyOneConsults ==
    ASSUME PatientPodInv, NEW s \in Sessions, ses[s].start \in {"oai_open", "load_image"},
           NEW t \in Sessions, ses[t].start = "load_image"
    PROVE  t = s
  BY DEF PatientPodInv, Live, Starting

\* Whatever becomes of the pipeline and the SFU peer, the image is no longer awaited.
LEMMA BuildsAwaitNoImage ==
    ASSUME NEW r \in SessionState, NEW q \in Builds(r)
    PROVE  q.start # "load_image"
<1>1. BuildAndJoin(r).start = "sfu_join"
  BY DEF BuildAndJoin, SessionState
<1>2. ASSUME NEW b \in SessionState PROVE StartFails(b).start # "load_image"
  BY <1>2, StartFailsMoves, FailedFields DEF Moves
<1>3. [r EXCEPT !.pipe = "built"] \in SessionState
  BY DEF SessionState, PipeStates
<1> QED BY <1>1, <1>2, <1>3 DEF Builds

\* What a step leaves in the bank, for a session that consulted it.
LEMMA BankStep ==
    ASSUME BankInv, PatientPodInv', NEW s \in Sessions,
           ses[s].start \in {"oai_open", "load_image"}, ses'[s].start # "load_image",
           NEW r, Step(s, r), NEW e, Renews(bank.store, bank'.store, e),
           ~Cached(bank.store, e.key) \/ \E n \in 1..Len(bank.store) : e = bank.store[n]
    PROVE  BankInv' /\ SameFaces(bank.store, bank'.store)
<1>1. \A t \in Sessions : ses'[t].start # "load_image"
  <2> SUFFICES ASSUME NEW t \in Sessions, ses'[t].start = "load_image" PROVE FALSE
    OBVIOUS
  <2>1. t # s
    OBVIOUS
  <2>2. ses[t].start = "load_image"
    BY <2>1 DEF Step
  <2> QED BY <2>1, <2>2, OnlyOneConsults DEF BankInv
<1>2. SameFaces(bank.store, bank'.store)
  BY RenewedFaces DEF BankInv
<1> QED BY <1>1, <1>2 DEF BankInv, Renews

LEMMA NextBankInv ==
    ASSUME StopsDuring = {}, BankInv, [BankNext]_<<vars, bank>>
    PROVE  BankInv' /\ (bank' = bank \/ SameFaces(bank.store, bank'.store))
<1>0. PatientPodInv' /\ PodInv /\ ses \in [Sessions -> SessionState]
  BY BankStepIsStep, NextPatientPod DEF BankInv, PatientPodInv, PodInv
<1>1. CASE UNCHANGED <<vars, bank>>
  BY <1>0, <1>1 DEF vars, BankInv
<1>2. CASE OtherStep /\ UNCHANGED bank
  BY <1>0, <1>2, OtherStepLoadsNothing DEF BankInv
<1>3. ASSUME NEW s \in Sessions, IdentityLookup(s)
      PROVE  BankInv' /\ (bank' = bank \/ SameFaces(bank.store, bank'.store))
  <2> DEFINE key == KeyOf[s]
  <2>0. ses[s].start = "oai_open" /\ \E r : Step(s, r)
    BY <1>3 DEF IdentityLookup, ChannelReady
  <2>1. CASE Cached(bank.store, key)
    <3>1. ses'[s].start # "load_image" /\ bank'.store = Get(bank.store, key)
      BY <1>3, <2>1 DEF IdentityLookup, Hit
    <3>2. Renews(bank.store, bank'.store, bank.store[Index(bank.store, key)])
      BY <2>1, <3>1, GetRenews DEF BankInv
    <3>3. Index(bank.store, key) \in 1..Len(bank.store)
      BY <2>1, IndexFound DEF BankInv
    <3> QED BY <1>0, <2>0, <3>1, <3>2, <3>3, BankStep
  <2>2. CASE ~Cached(bank.store, key) /\ s \in BringsPortrait
    <3>1. bank' = bank
      BY <1>3, <2>2 DEF IdentityLookup
    <3>2. \A t \in Sessions : ses'[t].start = "load_image" =>
                t = s \/ ses[t].start = "load_image"
      BY <1>0, <2>0 DEF Step
    <3> QED BY <1>0, <2>2, <3>1, <3>2 DEF BankInv
  <2>3. CASE ~Cached(bank.store, key) /\ s \notin BringsPortrait
    <3> DEFINE e == [key |-> key, portrait |-> Grey]
    <3>1. ses'[s].start # "load_image" /\ bank'.store = Put(bank.store, e)
      BY <1>3, <2>3 DEF IdentityLookup, Encode
    <3>2. e \in Entry /\ e.key = key
      BY BankAssumption DEF Entry
    <3> HIDE DEF e
    <3>3. Renews(bank.store, bank'.store, e)
      BY <3>1, <3>2, PutRenews DEF BankInv
    <3> QED BY <1>0, <2>0, <2>3, <3>1, <3>2, <3>3, BankStep
  <2> QED BY <2>1, <2>2, <2>3
<1>4. ASSUME NEW s \in Sessions, IdentityEncoded(s)
      PROVE  BankInv' /\ (bank' = bank \/ SameFaces(bank.store, bank'.store))
  <2> DEFINE e == [key |-> KeyOf[s], portrait |-> s]
  <2>1. ses[s].start = "load_image" /\ bank'.store = Put(bank.store, e)
    BY <1>4 DEF IdentityEncoded, PortraitLoaded, Encode
  <2>2. PICK q \in Builds(ses[s]) : Step(s, q) /\ q.start # "load_image"
    BY <1>0, <1>4, BuildsAwaitNoImage DEF IdentityEncoded, PortraitLoaded
  <2>3. e \in Entry /\ e.key = KeyOf[s]
    BY BankAssumption DEF Entry
  <2> HIDE DEF e
  <2>4. ses'[s].start # "load_image"
    BY <1>0, <2>2 DEF Step
  <2>5. Renews(bank.store, bank'.store, e)
    BY <2>1, <2>3, PutRenews DEF BankInv
  <2>6. ~Cached(bank.store, e.key)
    BY <2>1, <2>3 DEF BankInv
  <2> QED BY <1>0, <2>1, <2>2, <2>4, <2>5, <2>6, BankStep
<1> QED BY <1>1, <1>2, <1>3, <1>4 DEF BankNext

\* With a gateway that lets start() end before it deletes, no entry of the bank is
\* ever replaced by another face: put() never meets a key that is there.
THEOREM TokensStayTheSame ==
    ASSUME StopsDuring = {}
    PROVE  BankSpec => TokensImmutable
<1>1. BankInv /\ [BankNext]_<<vars, bank>> => BankInv'
  BY NextBankInv
<1>2. BankInv /\ [BankNext]_<<vars, bank>> =>
        [\A i \in DOMAIN bank.store, j \in DOMAIN bank'.store :
            bank.store[i].key = bank'.store[j].key => bank.store[i] = bank'.store[j]]_bank
  BY NextBankInv DEF SameFaces
<1> QED BY <1>1, <1>2, InitBankInv, PTL DEF BankSpec, TokensImmutable

\* avatar_session.py:178: with such a gateway sessions of one key show one face, if
\* fewer than Capacity other keys were used between them.
THEOREM FacesAreShared ==
    ASSUME StopsDuring = {}
    PROVE  BankSpec => []FaceShared
<1> DEFINE FacesInv == BankInv /\ BankInOrder(bank) /\ FaceShared
<1>1. BankInit => FacesInv
  BY InitBankInv, InitInOrder, BankAssumption DEF BankInit, FaceShared
<1>2. FacesInv /\ [BankNext]_<<vars, bank>> => FacesInv'
  <2> SUFFICES ASSUME FacesInv, [BankNext]_<<vars, bank>> PROVE FacesInv'
    OBVIOUS
  <2>1. BankInv' /\ BankInOrder(bank')
    BY NextBankInv, NextInOrder
  <2>2. SameFace(bank'.shown)
    <3>0. SameFace(bank.shown) /\ BankInOrder(bank)
      BY DEF FaceShared
    <3>1. CASE UNCHANGED bank
      BY <3>0, <3>1
    <3>2. ASSUME NEW s \in Sessions, IdentityLookup(s) PROVE SameFace(bank'.shown)
      <4> DEFINE e == [key |-> KeyOf[s], portrait |-> Grey]
      <4>1. e \in Entry /\ e.key = KeyOf[s]
        BY BankAssumption DEF Entry
      <4> HIDE DEF e
      <4>2. \/ Cached(bank.store, KeyOf[s]) /\ bank' = Hit(bank, KeyOf[s])
            \/ bank' = bank
            \/ ~Cached(bank.store, KeyOf[s]) /\ bank' = Encode(bank, e)
        BY <3>2 DEF IdentityLookup, e
      <4> QED BY <3>0, <4>1, <4>2, HitKeepsFaces, EncodeKeepsFaces
    <3>3. ASSUME NEW s \in Sessions, IdentityEncoded(s) PROVE SameFace(bank'.shown)
      <4> DEFINE e == [key |-> KeyOf[s], portrait |-> s]
      <4>1. e \in Entry /\ e.key = KeyOf[s]
        BY BankAssumption DEF Entry
      <4>2. ~Cached(bank.store, KeyOf[s]) /\ bank' = Encode(bank, e)
        BY <3>3 DEF IdentityEncoded, PortraitLoaded, BankInv
      <4> HIDE DEF e
      <4> QED BY <3>0, <4>1, <4>2, EncodeKeepsFaces
    <3> QED BY <3>1, <3>2, <3>3 DEF BankNext
  <2> QED BY <2>1, <2>2 DEF FaceShared
<1> HIDE DEF FacesInv
<1>3. FacesInv => FaceShared
  BY DEF FacesInv
<1> QED BY <1>1, <1>2, <1>3, PTL DEF BankSpec
==============================================================================
