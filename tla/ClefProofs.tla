------------------------------ MODULE ClefProofs ------------------------------
(***************************************************************************)
(* A theorem about Clef: the history is one circle and holds no line twice *)
(* among the newest, for rings of any length, any lines and any number of  *)
(* keys, whether the user is careful or not.                               *)
(*                                                                         *)
(* The circle is described by the function s that lists its nodes from the *)
(* newest to the oldest (Lists).  What InsertQueue does to the pointers is *)
(* then to move one node of s to the front.                                *)
(***************************************************************************)
EXTENDS Clef, TLAPS, NaturalsInduction, WellFoundedInduction

Lists(s, r, nx, pv, size) ==
  /\ size \in Nat \ {0}
  /\ s \in [0 .. size - 1 -> 1 .. size]
  /\ \A n \in 1 .. size : \E i \in 0 .. size - 1 : s[i] = n
  /\ \A i, j \in 0 .. size - 1 : s[i] = s[j] => i = j
  /\ s[0] = r
  /\ \A i \in 0 .. size - 1 : /\ nx[s[i]] = s[IF i = 0 THEN size - 1 ELSE i - 1]
                              /\ pv[s[i]] = s[IF i = size - 1 THEN 0 ELSE i + 1]

(* No line is there twice among the newest prev_check. *)
NoneTwice(s, en, size) ==
  \A i, j \in 0 .. size - 1 : i < j /\ j < prev_check => ~ Same(en[s[i]], en[s[j]])

Circle ==
  /\ next = [n \in Node |-> next[n]] /\ prev = [n \in Node |-> prev[n]] /\ entry = [n \in Node |-> entry[n]]
  /\ ring_size \in 0 .. MAXRING
  /\ ring = NULL <=> ring_size = 0
  /\ ring # NULL => \E s : Lists(s, ring, next, prev, ring_size) /\ NoneTwice(s, entry, ring_size)

RingInv == Circle /\ current \in 1 .. ring_size \cup {NULL}
-----------------------------------------------------------------------------
(* Following the pointers. *)

(* Every set of natural numbers has a least one. *)
LEMMA LeastNat ==
  ASSUME NEW T, T \subseteq Nat, T # {}
  PROVE  \E x \in T : \A y \in T : x <= y
<1>1. PICK x \in T : \A y \in T : ~ (<<y, x>> \in OpToRel(<, Nat))
  BY NatLessThanWellFounded, WFMin
<1>2. ASSUME NEW y \in T
      PROVE  x <= y
  <2>1. x \in Nat /\ y \in Nat
    OBVIOUS
  <2>2. ~ (y < x)
    BY <1>1, <2>1 DEF OpToRel
  <2> QED
    BY <2>1, <2>2
<1> QED
  BY <1>2

IsBack(back, n) == back = [i \in 0 .. n |-> IF i = 0 THEN ring ELSE prev[back[i - 1]]]

(* The ring can be followed for any number of steps. *)
LEMMA BackExists ==
  ASSUME NEW m \in Nat
  PROVE  \E back : IsBack(back, m)
<1> DEFINE T == {n \in Nat : ~ \E back : IsBack(back, n)}
<1>1. SUFFICES ASSUME T # {} PROVE FALSE
  OBVIOUS
<1>2. PICK n \in T : \A k \in T : n <= k
  BY <1>1, LeastNat
<1>3. CASE n = 0
  <2>1. IsBack([i \in 0 .. 0 |-> ring], 0)
    BY DEF IsBack
  <2> QED
    BY <1>2, <1>3, <2>1
<1>4. CASE n > 0
  <2>1. n - 1 \in Nat /\ ~ (n <= n - 1) /\ n \in Nat
    BY <1>4
  <2>2. PICK back : IsBack(back, n - 1)
    BY <1>2, <2>1
  <2> DEFINE longer == [i \in 0 .. n |-> IF i = n THEN prev[back[n - 1]] ELSE back[i]]
  <2>3. \A i \in 0 .. n - 1 : back[i] = IF i = 0 THEN ring ELSE prev[back[i - 1]]
    BY <2>2 DEF IsBack
  <2>4. longer[n] = prev[back[n - 1]] /\ \A i \in 0 .. n - 1 : longer[i] = back[i]
    BY <2>1
  <2>5. longer = [i \in 0 .. n |-> longer[i]]
    OBVIOUS
  <2> HIDE DEF longer
  <2>6. ASSUME NEW i \in 0 .. n
        PROVE  longer[i] = IF i = 0 THEN ring ELSE prev[longer[i - 1]]
    <3>1. CASE i = n
      <4>1. n - 1 \in 0 .. n - 1 /\ i # 0
        BY <2>1, <3>1
      <4> QED
        BY <2>4, <3>1, <4>1
    <3>2. CASE i # n
      <4>1. i \in 0 .. n - 1 /\ (i # 0 => i - 1 \in 0 .. n - 1)
        BY <2>1, <3>2
      <4> QED
        BY <2>3, <2>4, <4>1
    <3> QED
      BY <3>1, <3>2
  <2>7. IsBack(longer, n)
    BY <2>5, <2>6 DEF IsBack
  <2> QED
    BY <1>2, <2>7
<1> QED
  BY <1>3, <1>4

LEMMA OlderUnfolds ==
  /\ Older(0) = ring
  /\ \A i \in 1 .. prev_check + MAXRING : Older(i) = prev[Older(i - 1)]
<1> DEFINE N == prev_check + MAXRING
           back == CHOOSE b : IsBack(b, N)
<1>1. N \in Nat
  BY SizeAssumption
<1>2. IsBack(back, N)
  BY <1>1, BackExists
<1>3. \A n : Older(n) = back[n]
  BY DEF Older, IsBack
<1> HIDE DEF N, back
<1>4. \A i \in 0 .. N : back[i] = IF i = 0 THEN ring ELSE prev[back[i - 1]]
  BY <1>2 DEF IsBack
<1> QED
  BY <1>1, <1>3, <1>4 DEF N

(* Older(i) is the i-th node listed, and when i is too large one of those. *)
LEMMA OlderListed ==
  ASSUME NEW s, Lists(s, ring, next, prev, ring_size), NEW i \in 0 .. prev_check + MAXRING
  PROVE  /\ i < ring_size => Older(i) = s[i]
         /\ \E j \in 0 .. ring_size - 1 : j <= i /\ Older(i) = s[j]
<1> DEFINE size == ring_size
           Found(n) == /\ n < size => Older(n) = s[n]
                       /\ \E j \in 0 .. size - 1 : j <= n /\ Older(n) = s[j]
           T == {n \in 0 .. prev_check + MAXRING : ~ Found(n)}
<1>1. size \in Nat \ {0} /\ prev_check + MAXRING \in Nat
  BY SizeAssumption DEF Lists
<1>2. SUFFICES ASSUME T # {} PROVE FALSE
  <2>1. ~ (i \in T) => Found(i)
    OBVIOUS
  <2> QED
    BY <2>1
<1>3. PICK n \in T : \A k \in T : n <= k
  <2>1. T \subseteq Nat
    BY <1>1
  <2> HIDE DEF T
  <2> QED
    BY <1>2, <2>1, LeastNat
<1>4. n \in 0 .. prev_check + MAXRING /\ ~ Found(n)
  BY <1>3
<1>5. n # 0
  <2>1. s[0] = ring /\ 0 \in 0 .. size - 1
    BY <1>1 DEF Lists
  <2> QED
    BY <1>4, <2>1, OlderUnfolds
<1>6. n - 1 \in 0 .. prev_check + MAXRING /\ ~ (n <= n - 1) /\ n \in 1 .. prev_check + MAXRING
  BY <1>1, <1>4, <1>5
<1>7. Found(n - 1)
  BY <1>3, <1>6
<1>8. Older(n) = prev[Older(n - 1)]
  BY <1>6, OlderUnfolds
<1>9. PICK j \in 0 .. size - 1 : j <= n - 1 /\ Older(n - 1) = s[j] /\ (n - 1 < size => j = n - 1)
  <2>1. CASE n - 1 < size
    BY <1>1, <1>6, <1>7, <2>1
  <2>2. CASE ~ (n - 1 < size)
    BY <1>7, <2>2
  <2> QED
    BY <2>1, <2>2
<1>10. Older(n) = s[IF j = size - 1 THEN 0 ELSE j + 1]
  BY <1>8, <1>9 DEF Lists
<1>11. CASE j = size - 1
  BY <1>1, <1>4, <1>6, <1>9, <1>10, <1>11
<1>12. CASE j # size - 1
  BY <1>1, <1>4, <1>6, <1>9, <1>10, <1>12
<1> QED
  BY <1>11, <1>12
-----------------------------------------------------------------------------
(* What InsertQueue does to the pointers. *)

LEMMA ListsNode ==
  ASSUME NEW s, NEW r, NEW nx, NEW pv, NEW size \in 1 .. MAXRING, Lists(s, r, nx, pv, size), NEW i \in 0 .. size - 1
  PROVE  s[i] \in Node /\ s[i] \in 1 .. size
BY SizeAssumption DEF Lists, Node

LEMMA FirstNodeListed ==
  ASSUME next = [n \in Node |-> next[n]], prev = [n \in Node |-> prev[n]],
         NEW nx, NEW pv, nx = [next EXCEPT ![1] = 1], pv = [prev EXCEPT ![1] = 1]
  PROVE  Lists([i \in 0 .. 0 |-> 1], 1, nx, pv, 1)
<1> DEFINE s == [i \in 0 .. 0 |-> 1]
<1>1. 1 \in Node
  BY SizeAssumption DEF Node
<1>2. nx[1] = 1 /\ pv[1] = 1
  BY <1>1
<1>3. 0 .. 0 = {0} /\ 1 .. 1 = {1} /\ s[0] = 1
  OBVIOUS
<1>4. s \in [0 .. 1 - 1 -> 1 .. 1]
  BY <1>3
<1> HIDE DEF s
<1>5. Lists(s, 1, nx, pv, 1)
  BY <1>2, <1>3, <1>4 DEF Lists
<1> QED
  BY <1>5 DEF s

LEMMA NewNodeListed ==
  ASSUME next = [n \in Node |-> next[n]], prev = [n \in Node |-> prev[n]],
         NEW s, ring_size \in 1 .. MAXRING - 1, Lists(s, ring, next, prev, ring_size),
         NEW nx, NEW pv,
         nx = [next EXCEPT ![ring_size + 1] = next[ring], ![ring] = ring_size + 1],
         pv = [prev EXCEPT ![ring_size + 1] = ring, ![next[ring]] = ring_size + 1]
  PROVE  Lists([i \in 0 .. ring_size |-> IF i = 0 THEN ring_size + 1 ELSE s[i - 1]], ring_size + 1, nx, pv, ring_size + 1)
<1> DEFINE size == ring_size
           new == size + 1
           z == [i \in 0 .. size |-> IF i = 0 THEN new ELSE s[i - 1]]
<1>1. /\ size \in Nat \ {0} /\ s \in [0 .. size - 1 -> 1 .. size]
      /\ \A n \in 1 .. size : \E i \in 0 .. size - 1 : s[i] = n
      /\ \A i, j \in 0 .. size - 1 : s[i] = s[j] => i = j
      /\ s[0] = ring
      /\ \A i \in 0 .. size - 1 : /\ next[s[i]] = s[IF i = 0 THEN size - 1 ELSE i - 1]
                                  /\ prev[s[i]] = s[IF i = size - 1 THEN 0 ELSE i + 1]
  BY DEF Lists
<1>2. new \in Node /\ new \in Nat \ {0} /\ new - 1 = size /\ 0 \in 0 .. size - 1 /\ size - 1 \in 0 .. size - 1
  BY <1>1, SizeAssumption DEF Node
<1>3. \A i \in 0 .. size - 1 : s[i] \in 1 .. size /\ s[i] \in Node /\ s[i] # new
  BY <1>1, SizeAssumption DEF Node
<1>4. next[ring] = s[size - 1] /\ ring = s[0]
  BY <1>1, <1>2
<1>5. nx[new] = s[size - 1] /\ nx[s[0]] = new /\ \A i \in 1 .. size - 1 : nx[s[i]] = s[i - 1]
  <2>1. nx[new] = s[size - 1] /\ nx[s[0]] = new
    BY <1>2, <1>3, <1>4
  <2>2. ASSUME NEW i \in 1 .. size - 1 PROVE nx[s[i]] = s[i - 1]
    <3>1. i \in 0 .. size - 1 /\ i # 0
      OBVIOUS
    <3>2. s[i] # s[0] /\ s[i] # new /\ s[i] \in Node
      BY <1>1, <1>2, <1>3, <3>1
    <3>3. nx[s[i]] = next[s[i]]
      BY <1>4, <3>2
    <3> QED
      BY <1>1, <3>1, <3>3
  <2> QED
    BY <2>1, <2>2
<1>6. pv[new] = s[0] /\ pv[s[size - 1]] = new /\ \A i \in 0 .. size - 2 : pv[s[i]] = s[i + 1]
  <2>1. pv[new] = s[0] /\ pv[s[size - 1]] = new
    BY <1>2, <1>3, <1>4
  <2>2. ASSUME NEW i \in 0 .. size - 2 PROVE pv[s[i]] = s[i + 1]
    <3>1. i \in 0 .. size - 1 /\ i # size - 1
      BY <1>1
    <3>2. s[i] # s[size - 1] /\ s[i] # new /\ s[i] \in Node
      BY <1>1, <1>2, <1>3, <3>1
    <3>3. pv[s[i]] = prev[s[i]]
      BY <1>4, <3>2
    <3> QED
      BY <1>1, <3>1, <3>3
  <2> QED
    BY <2>1, <2>2
<1>7. z[0] = new /\ (\A i \in 1 .. size : z[i] = s[i - 1]) /\ z = [i \in 0 .. size |-> z[i]]
  BY <1>1
<1>8. size \in Nat \ {0} /\ new = size + 1
  BY <1>1
<1> HIDE DEF z, size, new
<1>20. \A i \in 0 .. size : i = 0 \/ (i \in 1 .. size /\ i - 1 \in 0 .. size - 1)
  BY <1>8
<1>21. \A i, j \in 0 .. size - 1 : s[i] = s[j] => i = j
  BY <1>1
<1>22. \A n \in 1 .. size : \E i \in 0 .. size - 1 : s[i] = n
  BY <1>1
<1>9. z \in [0 .. new - 1 -> 1 .. new]
  <2>1. ASSUME NEW i \in 0 .. size PROVE z[i] \in 1 .. new
    <3>1. CASE i = 0
      BY <1>7, <1>8, <3>1
    <3>2. CASE i \in 1 .. size /\ i - 1 \in 0 .. size - 1
      <4>1. s[i - 1] \in 1 .. size
        BY <1>3, <3>2
      <4>2. z[i] = s[i - 1]
        BY <1>7, <3>2
      <4>3. 1 .. size \subseteq 1 .. new
        BY <1>8
      <4> QED
        BY <4>1, <4>2, <4>3
    <3> QED
      BY <1>20, <3>1, <3>2
  <2> QED
    BY <1>2, <1>7, <2>1
<1>10. ASSUME NEW n \in 1 .. new PROVE \E i \in 0 .. new - 1 : z[i] = n
  <2>1. CASE n = new
    <3>1. 0 \in 0 .. new - 1
      BY <1>8
    <3> QED
      BY <1>7, <2>1, <3>1
  <2>2. CASE n # new
    <3>1. n \in 1 .. size
      BY <1>8, <2>2
    <3>2. PICK i \in 0 .. size - 1 : s[i] = n
      BY <1>22, <3>1
    <3>3. i + 1 \in 1 .. size /\ (i + 1) - 1 = i /\ i + 1 \in 0 .. new - 1
      BY <1>8
    <3>4. z[i + 1] = s[i]
      BY <1>7, <3>3
    <3> QED
      BY <3>2, <3>3, <3>4
  <2> QED
    BY <2>1, <2>2
<1>11. ASSUME NEW i \in 0 .. new - 1, NEW j \in 0 .. new - 1, z[i] = z[j] PROVE i = j
  <2>1. i \in 0 .. size /\ j \in 0 .. size /\ i \in Int /\ j \in Int
    BY <1>8
  <2>2. \A k \in 0 .. size : k # 0 => k \in 1 .. size /\ k - 1 \in 0 .. size - 1 /\ z[k] = s[k - 1] /\ s[k - 1] # new
    BY <1>3, <1>7, <1>20
  <2>3. i = 0 <=> j = 0
    BY <1>7, <1>11, <2>1, <2>2
  <2>4. CASE i # 0
    <3>1. s[i - 1] = s[j - 1] /\ i - 1 \in 0 .. size - 1 /\ j - 1 \in 0 .. size - 1
      BY <1>11, <2>1, <2>2, <2>3, <2>4
    <3>2. i - 1 = j - 1
      BY <1>21, <3>1
    <3> QED
      BY <2>1, <3>2
  <2> QED
    BY <2>3, <2>4
<1>12. ASSUME NEW i \in 0 .. new - 1
       PROVE  /\ nx[z[i]] = z[IF i = 0 THEN new - 1 ELSE i - 1]
              /\ pv[z[i]] = z[IF i = new - 1 THEN 0 ELSE i + 1]
  <2>1. CASE i = 0
    <3>1. z[i] = new /\ z[size] = s[size - 1] /\ z[1] = s[0] /\ size # 0 /\ new - 1 = size
      <4>1. size \in 1 .. size /\ 1 \in 1 .. size /\ 1 - 1 = 0 /\ new - 1 = size /\ size # 0
        BY <1>8
      <4>2. z[size] = s[size - 1] /\ z[1] = s[1 - 1]
        BY <1>7, <4>1
      <4> QED
        BY <1>7, <2>1, <4>1, <4>2
    <3> QED
      BY <1>5, <1>6, <2>1, <3>1
  <2>2. CASE i # 0
    <3>1. i \in 1 .. size /\ i - 1 \in 0 .. size - 1 /\ z[i] = s[i - 1] /\ new - 1 = size
      <4>1. i \in 1 .. size /\ i - 1 \in 0 .. size - 1 /\ new - 1 = size
        BY <1>8, <2>2
      <4> QED
        BY <1>7, <4>1
    <3>2. nx[z[i]] = z[i - 1]
      <4>1. CASE i = 1
        BY <1>5, <1>7, <3>1, <4>1
      <4>2. CASE i # 1
        <5>1. i - 1 \in 1 .. size - 1 /\ i - 1 \in 1 .. size
          BY <1>8, <3>1, <4>2
        <5>2. nx[s[i - 1]] = s[i - 1 - 1] /\ z[i - 1] = s[i - 1 - 1]
          BY <1>5, <1>7, <5>1
        <5> QED
          BY <3>1, <5>2
      <4> QED
        BY <4>1, <4>2
    <3>3. pv[z[i]] = z[IF i = new - 1 THEN 0 ELSE i + 1]
      <4>1. CASE i = size
        BY <1>6, <1>7, <3>1, <4>1
      <4>2. CASE i # size
        <5>1. i - 1 \in 0 .. size - 2 /\ i + 1 \in 1 .. size /\ (i + 1) - 1 = i /\ (i - 1) + 1 = i
          BY <1>8, <3>1, <4>2
        <5>2. pv[s[i - 1]] = s[i] /\ z[i + 1] = s[i]
          BY <1>6, <1>7, <5>1
        <5> QED
          BY <3>1, <4>2, <5>2
      <4> QED
        BY <4>1, <4>2
    <3> QED
      BY <2>2, <3>2, <3>3
  <2> QED
    BY <2>1, <2>2
<1>13. Lists(z, new, nx, pv, new)
  BY <1>2, <1>7, <1>9, <1>10, <1>11, <1>12 DEF Lists
<1> QED
  BY <1>13 DEF z, new, size

(* The list s with its k-th node moved to the front. *)
From(k, i) == IF i = 0 THEN k ELSE IF i <= k THEN i - 1 ELSE i
Fronted(s, k, size) == [i \in 0 .. size - 1 |-> s[From(k, i)]]

IsFront(z, s, k, size) ==
  /\ z \in [0 .. size - 1 -> 1 .. size]
  /\ \A n \in 1 .. size : \E i \in 0 .. size - 1 : z[i] = n
  /\ \A i, j \in 0 .. size - 1 : z[i] = z[j] => i = j
  /\ \A i \in 0 .. size - 1 : From(k, i) \in 0 .. size - 1 /\ z[i] = s[From(k, i)]

LEMMA FrontFacts ==
  ASSUME NEW s, NEW r, NEW nx, NEW pv, NEW size, Lists(s, r, nx, pv, size), NEW k \in 0 .. size - 1
  PROVE  IsFront(Fronted(s, k, size), s, k, size)
<1>1. /\ size \in Nat \ {0} /\ s \in [0 .. size - 1 -> 1 .. size]
      /\ \A n \in 1 .. size : \E i \in 0 .. size - 1 : s[i] = n
      /\ \A i, j \in 0 .. size - 1 : s[i] = s[j] => i = j
  BY DEF Lists
<1> DEFINE z == Fronted(s, k, size)
           To(j) == IF j = k THEN 0 ELSE IF j < k THEN j + 1 ELSE j
<1>2. \A i \in 0 .. size - 1 : From(k, i) \in 0 .. size - 1 /\ To(i) \in 0 .. size - 1 /\ From(k, To(i)) = i
  BY <1>1 DEF From
<1>3. \A i, j \in 0 .. size - 1 : From(k, i) = From(k, j) => i = j
  BY <1>1 DEF From
<1>4. /\ \A i \in 0 .. size - 1 : z[i] = s[From(k, i)]
      /\ z = [i \in 0 .. size - 1 |-> s[From(k, i)]]
  BY DEF Fronted
<1> HIDE DEF z, To
<1>5. \A i \in 0 .. size - 1 : s[From(k, i)] \in 1 .. size
  BY <1>1, <1>2
<1>6. z \in [0 .. size - 1 -> 1 .. size]
  BY <1>4, <1>5
<1>7. ASSUME NEW n \in 1 .. size PROVE \E i \in 0 .. size - 1 : z[i] = n
  <2>1. PICK j \in 0 .. size - 1 : s[j] = n
    BY <1>1
  <2>2. To(j) \in 0 .. size - 1 /\ From(k, To(j)) = j
    BY <1>2
  <2> QED
    BY <1>4, <2>1, <2>2
<1>8. ASSUME NEW i \in 0 .. size - 1, NEW j \in 0 .. size - 1, z[i] = z[j] PROVE i = j
  <2>1. s[From(k, i)] = s[From(k, j)]
    BY <1>4, <1>8
  <2>2. From(k, i) = From(k, j)
    BY <1>1, <1>2, <2>1
  <2> QED
    BY <1>3, <2>2
<1>9. \A i \in 0 .. size - 1 : From(k, i) \in 0 .. size - 1 /\ z[i] = s[From(k, i)]
  BY <1>2, <1>4
<1> QED
  BY <1>6, <1>7, <1>8, <1>9 DEF z, IsFront

LEMMA RecycledListed ==
  ASSUME NEW s, Lists(s, ring, next, prev, ring_size)
  PROVE  /\ next[ring] = s[ring_size - 1]
         /\ Lists(Fronted(s, ring_size - 1, ring_size), next[ring], next, prev, ring_size)
<1> DEFINE size == ring_size
           z == Fronted(s, size - 1, size)
<1>1. size \in Nat \ {0} /\ 0 \in 0 .. size - 1 /\ size - 1 \in 0 .. size - 1
  BY DEF Lists
<1>2. next[ring] = s[size - 1]
  BY <1>1 DEF Lists
<1>3. /\ z \in [0 .. size - 1 -> 1 .. size]
      /\ \A n \in 1 .. size : \E i \in 0 .. size - 1 : z[i] = n
      /\ \A i, j \in 0 .. size - 1 : z[i] = z[j] => i = j
      /\ \A i \in 0 .. size - 1 : From(size - 1, i) \in 0 .. size - 1 /\ z[i] = s[From(size - 1, i)]
  <2>1. IsFront(z, s, size - 1, size)
    BY <1>1, FrontFacts
  <2> HIDE DEF z
  <2> QED
    BY <2>1 DEF IsFront
<1>4. /\ \A i \in 0 .. size - 1 : next[s[i]] = s[IF i = 0 THEN size - 1 ELSE i - 1]
      /\ \A i \in 0 .. size - 1 : prev[s[i]] = s[IF i = size - 1 THEN 0 ELSE i + 1]
  BY DEF Lists
<1> HIDE DEF z, size
<1>5. z[0] = s[size - 1] /\ \A i \in 1 .. size - 1 : z[i] = s[i - 1]
  <2>1. \A i \in 0 .. size - 1 : From(size - 1, i) = IF i = 0 THEN size - 1 ELSE i - 1
    BY <1>1 DEF From
  <2>2. \A i \in 1 .. size - 1 : i \in 0 .. size - 1 /\ i # 0
    BY <1>1
  <2> QED
    BY <1>1, <1>3, <2>1, <2>2
<1>6. ASSUME NEW i \in 0 .. size - 1
      PROVE  /\ next[z[i]] = z[IF i = 0 THEN size - 1 ELSE i - 1]
             /\ prev[z[i]] = z[IF i = size - 1 THEN 0 ELSE i + 1]
  <2>1. CASE i = 0
    <3>1. CASE size = 1
      BY <1>1, <1>4, <1>5, <2>1, <3>1
    <3>2. CASE size # 1
      <4>1. size - 1 \in 1 .. size - 1 /\ 1 \in 1 .. size - 1 /\ size - 1 # 0 /\ 1 - 1 = 0
        BY <1>1, <3>2
      <4>2. next[s[size - 1]] = s[size - 1 - 1] /\ prev[s[size - 1]] = s[0]
        BY <1>1, <1>4, <4>1
      <4>3. z[size - 1] = s[size - 1 - 1] /\ z[1] = s[0]
        BY <1>5, <4>1
      <4> QED
        BY <1>5, <2>1, <4>1, <4>2, <4>3
    <3> QED
      BY <3>1, <3>2
  <2>2. CASE i # 0
    <3>1. i \in 1 .. size - 1 /\ i - 1 \in 0 .. size - 1 /\ i - 1 # size - 1 /\ (i - 1) + 1 = i
      BY <1>1, <2>2
    <3>2. z[i] = s[i - 1] /\ prev[s[i - 1]] = s[i] /\ next[s[i - 1]] = s[IF i - 1 = 0 THEN size - 1 ELSE i - 1 - 1]
      BY <1>4, <1>5, <3>1
    <3>3. z[i - 1] = s[IF i - 1 = 0 THEN size - 1 ELSE i - 1 - 1]
      <4>1. CASE i = 1
        BY <1>5, <4>1
      <4>2. CASE i # 1
        <5>1. i - 1 \in 1 .. size - 1 /\ i - 1 # 0
          BY <1>1, <3>1, <4>2
        <5> QED
          BY <1>5, <5>1
      <4> QED
        BY <4>1, <4>2
    <3>4. z[IF i = size - 1 THEN 0 ELSE i + 1] = s[i]
      <4>1. CASE i = size - 1
        BY <1>5, <4>1
      <4>2. CASE i # size - 1
        <5>1. i + 1 \in 1 .. size - 1 /\ (i + 1) - 1 = i
          BY <1>1, <3>1, <4>2
        <5> QED
          BY <1>5, <4>2, <5>1
      <4> QED
        BY <4>1, <4>2
    <3> QED
      BY <2>2, <3>2, <3>3, <3>4
  <2> QED
    BY <2>1, <2>2
<1>7. Lists(z, s[size - 1], next, prev, size)
  BY <1>1, <1>3, <1>5, <1>6 DEF Lists
<1> QED
  BY <1>2, <1>7 DEF z, size

LEMMA MovedListed ==
  ASSUME next = [n \in Node |-> next[n]], prev = [n \in Node |-> prev[n]], ring_size \in 1 .. MAXRING,
         NEW s, Lists(s, ring, next, prev, ring_size), NEW k \in 1 .. ring_size - 1, MoveToFront(s[k])
  PROVE  /\ Lists(Fronted(s, k, ring_size), s[k], next', prev', ring_size)
         /\ next' = [n \in Node |-> next'[n]] /\ prev' = [n \in Node |-> prev'[n]]
<1> DEFINE size == ring_size
           t == s[k]
           z == Fronted(s, k, size)
           before == s[k - 1]
           after == s[IF k = size - 1 THEN 0 ELSE k + 1]
           oldest == IF k = size - 1 THEN before ELSE s[size - 1]
<1>1. size \in Nat \ {0} /\ 0 \in 0 .. size - 1 /\ size - 1 \in 0 .. size - 1 /\ k \in 0 .. size - 1 /\ k # 0
      /\ k - 1 \in 0 .. size - 1 /\ (k # size - 1 => k + 1 \in 0 .. size - 1) /\ k \in Nat
  BY DEF Lists
<1>2. /\ z \in [0 .. size - 1 -> 1 .. size]
      /\ \A n \in 1 .. size : \E i \in 0 .. size - 1 : z[i] = n
      /\ \A i, j \in 0 .. size - 1 : z[i] = z[j] => i = j
      /\ \A i \in 0 .. size - 1 : z[i] = s[From(k, i)]
  <2>1. IsFront(z, s, k, size)
    BY <1>1, FrontFacts
  <2> HIDE DEF z
  <2> QED
    BY <2>1 DEF IsFront
<1>3. /\ \A i \in 0 .. size - 1 : next[s[i]] = s[IF i = 0 THEN size - 1 ELSE i - 1]
      /\ \A i \in 0 .. size - 1 : prev[s[i]] = s[IF i = size - 1 THEN 0 ELSE i + 1]
      /\ \A i, j \in 0 .. size - 1 : s[i] = s[j] => i = j
      /\ s[0] = ring
  BY DEF Lists
<1>4. \A i \in 0 .. size - 1 : s[i] \in Node
  <2>1. s \in [0 .. size - 1 -> 1 .. size] /\ 1 .. size \subseteq Node
    BY SizeAssumption DEF Lists, Node
  <2> QED
    BY <2>1
<1>5. prev[t] = after /\ next[t] = before /\ ring = s[0] /\ next[ring] = s[size - 1] /\ t # ring
  BY <1>1, <1>3
<1>6. after \in Node /\ before \in Node /\ ring \in Node /\ t \in Node /\ after # t /\ before # t
  BY <1>1, <1>3, <1>4
<1>7. ring = after <=> k = size - 1
  BY <1>1, <1>3
<1> DEFINE next1 == [next EXCEPT ![after] = before]
           next2 == [next1 EXCEPT ![t] = next1[ring], ![ring] = t]
           prev1 == [prev EXCEPT ![before] = after]
<1>8. next' = next2 /\ prev' = [prev1 EXCEPT ![t] = ring, ![next2[t]] = t]
  BY <1>5 DEF MoveToFront
<1>9. next1[ring] = oldest
  BY <1>5, <1>6, <1>7
<1>10. /\ next' = [n \in Node |-> next'[n]] /\ prev' = [n \in Node |-> prev'[n]]
       /\ next2[t] = oldest
  BY <1>5, <1>6, <1>8, <1>9
<1>11. /\ next'[ring] = t /\ next'[t] = oldest
       /\ after # ring => next'[after] = before
       /\ \A n \in Node : n \notin {ring, t, after} => next'[n] = next[n]
  BY <1>5, <1>6, <1>8, <1>10
<1>12. oldest \in Node /\ oldest # t
  BY <1>1, <1>3, <1>4, <1>6
<1>13. /\ prev'[t] = ring /\ prev'[oldest] = t
       /\ before # oldest => prev'[before] = after
       /\ \A n \in Node : n \notin {oldest, t, before} => prev'[n] = prev[n]
  BY <1>5, <1>6, <1>8, <1>10, <1>12
<1> HIDE DEF z, size, t, before, after, oldest, next1, next2, prev1
<1>14. /\ z[0] = t
       /\ \A i \in 1 .. k : z[i] = s[i - 1]
       /\ \A i \in k + 1 .. size - 1 : z[i] = s[i]
  <2>1. From(k, 0) = k
    BY DEF From
  <2>2. \A i \in 1 .. k : From(k, i) = i - 1 /\ i \in 0 .. size - 1
    BY <1>1 DEF From
  <2>3. \A i \in k + 1 .. size - 1 : From(k, i) = i /\ i \in 0 .. size - 1
    BY <1>1 DEF From
  <2> QED
    BY <1>1, <1>2, <2>1, <2>2, <2>3 DEF t
<1>15. z[size - 1] = oldest
  <2>1. CASE k = size - 1
    <3>1. size - 1 \in 1 .. k /\ size - 1 - 1 = k - 1
      BY <1>1, <2>1
    <3> QED
      BY <1>14, <2>1, <3>1 DEF oldest, before
  <2>2. CASE k # size - 1
    <3>1. size - 1 \in k + 1 .. size - 1
      BY <1>1, <2>2
    <3> QED
      BY <1>14, <2>2, <3>1 DEF oldest
  <2> QED
    BY <2>1, <2>2
<1>16. ASSUME NEW i \in 0 .. size - 1
       PROVE  next'[z[i]] = z[IF i = 0 THEN size - 1 ELSE i - 1]
  <2>1. CASE i = 0
    BY <1>11, <1>14, <1>15, <2>1
  <2>2. CASE i = 1
    <3>1. 1 \in 1 .. k /\ 1 - 1 = 0
      BY <1>1
    <3>2. z[1] = ring
      BY <1>5, <1>14, <3>1
    <3> QED
      BY <1>11, <1>14, <2>2, <3>1, <3>2
  <2>3. CASE i \in 2 .. k
    <3>1. i \in 1 .. k /\ i - 1 \in 1 .. k /\ i - 1 \in 0 .. size - 1 /\ i - 1 # 0 /\ i - 1 # k /\ i # 0
      BY <1>1, <2>3
    <3>2. i - 1 # (IF k = size - 1 THEN 0 ELSE k + 1)
      BY <1>1, <3>1, <2>3
    <3>3. s[i - 1] \notin {ring, t, after}
      BY <1>1, <1>3, <3>1, <3>2 DEF t, after
    <3>4. next'[s[i - 1]] = s[i - 1 - 1]
      BY <1>3, <1>4, <1>11, <3>1, <3>3
    <3> QED
      BY <1>14, <3>1, <3>4
  <2>4. CASE i = k + 1
    <3>1. k # size - 1 /\ i \in k + 1 .. size - 1 /\ i # 0 /\ i - 1 = k /\ k \in 1 .. k
      BY <1>1, <2>4
    <3>2. z[i] = after /\ after # ring /\ z[i - 1] = before
      BY <1>7, <1>14, <2>4, <3>1 DEF after, before
    <3> QED
      BY <1>11, <3>1, <3>2
  <2>5. CASE i \in k + 2 .. size - 1
    <3>1. /\ i \in k + 1 .. size - 1 /\ i - 1 \in k + 1 .. size - 1 /\ i # 0 /\ i # k /\ i # k + 1 /\ k # size - 1
          /\ k + 1 \in 0 .. size - 1
      BY <1>1, <2>5
    <3>2. s[i] \notin {ring, t, after}
      BY <1>1, <1>3, <3>1 DEF t, after
    <3>3. next'[s[i]] = s[i - 1]
      BY <1>3, <1>4, <1>11, <3>1, <3>2
    <3> QED
      BY <1>14, <3>1, <3>3
  <2>6. i = 0 \/ i = 1 \/ i \in 2 .. k \/ i = k + 1 \/ i \in k + 2 .. size - 1
    BY <1>1
  <2> QED
    BY <2>1, <2>2, <2>3, <2>4, <2>5, <2>6
<1>17. ASSUME NEW i \in 0 .. size - 1
       PROVE  prev'[z[i]] = z[IF i = size - 1 THEN 0 ELSE i + 1]
  <2>1. CASE i = 0
    <3>1. i # size - 1 /\ 1 \in 1 .. k /\ 1 - 1 = 0
      BY <1>1, <2>1
    <3> QED
      BY <1>5, <1>13, <1>14, <2>1, <3>1
  <2>2. CASE i = size - 1
    BY <1>13, <1>14, <1>15, <2>2
  <2>3. CASE i = k /\ i # size - 1
    <3>1. k \in 1 .. k /\ k + 1 \in k + 1 .. size - 1
      BY <1>1, <2>3
    <3>2. z[i] = before /\ z[i + 1] = after
      BY <1>14, <2>3, <3>1 DEF before, after
    <3>3. before # oldest
      BY <1>1, <1>3, <2>3 DEF before, oldest
    <3> QED
      BY <1>13, <2>3, <3>2, <3>3
  <2>4. CASE i \in 1 .. k - 1
    <3>1. /\ i \in 1 .. k /\ i + 1 \in 1 .. k /\ i # size - 1 /\ i - 1 \in 0 .. size - 1
          /\ i - 1 # k /\ i - 1 # k - 1 /\ i - 1 # size - 1 /\ (i - 1) + 1 = i /\ (i + 1) - 1 = i
      BY <1>1, <2>4
    <3>2. s[i - 1] \notin {oldest, t, before}
      BY <1>1, <1>3, <3>1 DEF oldest, t, before
    <3>3. prev'[s[i - 1]] = s[i]
      BY <1>3, <1>4, <1>13, <3>1, <3>2
    <3> QED
      BY <1>14, <3>1, <3>3
  <2>5. CASE i \in k + 1 .. size - 2
    <3>1. i \in k + 1 .. size - 1 /\ i + 1 \in k + 1 .. size - 1 /\ i # size - 1 /\ i # k /\ i # k - 1
      BY <1>1, <2>5
    <3>2. s[i] \notin {oldest, t, before}
      BY <1>1, <1>3, <3>1 DEF oldest, t, before
    <3>3. prev'[s[i]] = s[i + 1]
      BY <1>3, <1>4, <1>13, <3>1, <3>2
    <3> QED
      BY <1>14, <3>1, <3>3
  <2>6. i = 0 \/ i = size - 1 \/ (i = k /\ i # size - 1) \/ i \in 1 .. k - 1 \/ i \in k + 1 .. size - 2
    BY <1>1
  <2> QED
    BY <2>1, <2>2, <2>3, <2>4, <2>5, <2>6
<1>18. Lists(z, t, next', prev', size)
  BY <1>1, <1>2, <1>14, <1>16, <1>17 DEF Lists
<1> QED
  BY <1>10, <1>18 DEF z, size, t
-----------------------------------------------------------------------------
(* Which lines are compared. *)

LEMMA SameFacts ==
  /\ \A a, b : Same(a, b) => Same(b, a)
  /\ \A a, b, c : Same(a, b) /\ Same(b, c) => Same(a, c)
BY DEF Same

(* A line put in front, of a new node or of the oldest, is not there among the next. *)
LEMMA PutInFront ==
  ASSUME NEW size \in Nat \ {0}, NEW z, NEW en, NEW line,
         en[z[0]] = line,
         \A i, j \in 1 .. size - 1 : i < j /\ j < prev_check => ~ Same(en[z[i]], en[z[j]]),
         \A i \in 1 .. size - 1 : i < prev_check => ~ Same(en[z[i]], line)
  PROVE  NoneTwice(z, en, size)
<1> SUFFICES ASSUME NEW i \in 0 .. size - 1, NEW j \in 0 .. size - 1, i < j, j < prev_check
             PROVE  ~ Same(en[z[i]], en[z[j]])
  BY DEF NoneTwice
<1>1. j \in 1 .. size - 1 /\ (i = 0 \/ i \in 1 .. size - 1)
  OBVIOUS
<1>2. CASE i = 0
  BY <1>1, <1>2, SameFacts
<1>3. CASE i # 0
  BY <1>1, <1>3
<1> QED
  BY <1>2, <1>3

(* A line that is moved to the front was the only one of its kind among the newest. *)
LEMMA MovedTwice ==
  ASSUME NEW s, NEW r, NEW nx, NEW pv, NEW size, NEW en, Lists(s, r, nx, pv, size), NoneTwice(s, en, size),
         NEW k \in 0 .. size - 1, k < prev_check
  PROVE  NoneTwice(Fronted(s, k, size), en, size)
<1> DEFINE z == Fronted(s, k, size)
<1>1. IsFront(z, s, k, size)
  BY FrontFacts
<1>2. size \in Nat \ {0} /\ prev_check \in Nat
  BY SizeAssumption DEF Lists
<1> HIDE DEF z
<1>3. \A i \in 0 .. size - 1 : From(k, i) \in 0 .. size - 1 /\ z[i] = s[From(k, i)]
  BY <1>1 DEF IsFront
<1> SUFFICES ASSUME NEW i \in 0 .. size - 1, NEW j \in 0 .. size - 1, i < j, j < prev_check
             PROVE  ~ Same(en[z[i]], en[z[j]])
  BY DEF NoneTwice, z
<1>4. /\ From(k, i) < prev_check /\ From(k, j) < prev_check
      /\ From(k, i) < From(k, j) \/ From(k, j) < From(k, i)
  BY <1>2 DEF From
<1>5. ~ Same(en[s[From(k, i)]], en[s[From(k, j)]])
  BY <1>3, <1>4, SameFacts DEF NoneTwice
<1> QED
  BY <1>3, <1>5

(* The compared lines of the ring are its prev_check - 1 newest. *)
LEMMA Compared ==
  ASSUME NEW s, Lists(s, ring, next, prev, ring_size), NEW line,
         ~ \E i \in 0 .. prev_check - 2 : Same(entry[Older(i)], line)
  PROVE  \A i \in 0 .. ring_size - 1 : i < prev_check - 1 => ~ Same(entry[s[i]], line)
<1> SUFFICES ASSUME NEW i \in 0 .. ring_size - 1, i < prev_check - 1
             PROVE  ~ Same(entry[s[i]], line)
  OBVIOUS
<1>1. i \in 0 .. prev_check - 2 /\ i \in 0 .. prev_check + MAXRING /\ i < ring_size
  BY SizeAssumption DEF Lists
<1>2. Older(i) = s[i]
  BY <1>1, OlderListed
<1> QED
  BY <1>1, <1>2

-----------------------------------------------------------------------------
(* The operations on the history keep it one circle. *)

LEMMA ListsRing ==
  ASSUME NEW s, NEW r, NEW nx, NEW pv, NEW size, Lists(s, r, nx, pv, size)
  PROVE  r \in 1 .. size /\ r # NULL /\ size # 0
<1>1. 0 \in 0 .. size - 1 /\ s[0] = r /\ s \in [0 .. size - 1 -> 1 .. size] /\ size \in Nat \ {0}
  BY DEF Lists
<1>2. s[0] \in 1 .. size
  BY <1>1
<1> QED
  BY <1>1, <1>2 DEF NULL

LEMMA AddedCircle ==
  ASSUME Circle, NEW line, ring_size < MAXRING, AddNode(line),
         ~ \E i \in 0 .. prev_check - 2 : ring # NULL /\ Same(entry[Older(i)], line)
  PROVE  Circle'
<1>1. ring_size \in Nat /\ MAXRING \in Nat /\ ring_size' = ring_size + 1 /\ ring' = ring_size + 1
      /\ ring_size' \in 1 .. MAXRING /\ ring' # NULL /\ ring' \in Node
  BY SizeAssumption DEF Circle, AddNode, NULL, Node
<1>2. entry' = [n \in Node |-> entry'[n]] /\ entry'[ring'] = line /\ \A n \in Node \ {ring'} : entry'[n] = entry[n]
  BY <1>1 DEF Circle, AddNode
<1>3. next' = [n \in Node |-> next'[n]] /\ prev' = [n \in Node |-> prev'[n]]
  <2>1. CASE ring_size = 0
    BY <2>1 DEF AddNode, Circle
  <2>2. CASE ring_size # 0
    BY <2>2 DEF AddNode, Circle
  <2> QED
    BY <2>1, <2>2
<1>4. \E s : Lists(s, ring', next', prev', ring_size') /\ NoneTwice(s, entry', ring_size')
  <2>1. CASE ring_size = 0
    <3> DEFINE z == [i \in 0 .. 0 |-> 1]
    <3>1. next' = [next EXCEPT ![1] = 1] /\ prev' = [prev EXCEPT ![1] = 1] /\ ring' = 1 /\ ring_size' = 1
      BY <1>1, <2>1 DEF AddNode
    <3>2. Lists(z, 1, next', prev', 1)
      BY <3>1, FirstNodeListed DEF Circle
    <3>3. NoneTwice(z, entry', 1)
      BY DEF NoneTwice
    <3> QED
      BY <3>1, <3>2, <3>3
  <2>2. CASE ring_size # 0
    <3>1. PICK s : Lists(s, ring, next, prev, ring_size) /\ NoneTwice(s, entry, ring_size)
      BY <2>2 DEF Circle
    <3>2. ring # NULL /\ ring_size \in 1 .. MAXRING - 1
      BY <1>1, <2>2 DEF Circle
    <3> DEFINE size == ring_size + 1
               z == [i \in 0 .. ring_size |-> IF i = 0 THEN ring_size + 1 ELSE s[i - 1]]
    <3>3. Lists(z, size, next', prev', size)
      <4>1. /\ next' = [next EXCEPT ![ring_size + 1] = next[ring], ![ring] = ring_size + 1]
            /\ prev' = [prev EXCEPT ![ring_size + 1] = ring, ![next[ring]] = ring_size + 1]
        BY <2>2 DEF AddNode
      <4> QED
        BY <3>1, <3>2, <4>1, NewNodeListed DEF Circle
    <3>4. \A i \in 0 .. ring_size - 1 : s[i] \in Node \ {ring'}
      <4>1. s \in [0 .. ring_size - 1 -> 1 .. ring_size]
        BY <3>1 DEF Lists
      <4>2. 1 .. ring_size \subseteq Node \ {ring'}
        BY <1>1, SizeAssumption DEF Node
      <4> QED
        BY <4>1, <4>2
    <3>5. z[0] = ring' /\ \A i \in 1 .. size - 1 : i - 1 \in 0 .. ring_size - 1 /\ z[i] = s[i - 1]
      BY <1>1
    <3>6. size \in Nat \ {0} /\ size = ring_size + 1 /\ prev_check \in Nat
      BY <1>1, SizeAssumption
    <3> HIDE DEF z, size
    <3>7. \A i \in 1 .. size - 1 : entry'[z[i]] = entry[s[i - 1]]
      BY <1>2, <3>4, <3>5
    <3>8. entry'[z[0]] = line
      BY <1>2, <3>5
    <3>9. ASSUME NEW i \in 1 .. size - 1, NEW j \in 1 .. size - 1, i < j, j < prev_check
          PROVE  ~ Same(entry'[z[i]], entry'[z[j]])
      <4>1. i - 1 < j - 1 /\ j - 1 < prev_check /\ i - 1 \in 0 .. ring_size - 1 /\ j - 1 \in 0 .. ring_size - 1
        BY <3>5, <3>6, <3>9
      <4> QED
        BY <3>1, <3>7, <4>1 DEF NoneTwice
    <3>10. ASSUME NEW i \in 1 .. size - 1, i < prev_check
           PROVE  ~ Same(entry'[z[i]], line)
      <4>1. i - 1 \in 0 .. ring_size - 1 /\ i - 1 < prev_check - 1
        BY <3>5, <3>6, <3>10
      <4> QED
        BY <3>1, <3>2, <3>7, <4>1, Compared
    <3>11. NoneTwice(z, entry', size)
      BY <3>6, <3>8, <3>9, <3>10, PutInFront
    <3> QED
      BY <1>1, <3>3, <3>6, <3>11
  <2> QED
    BY <2>1, <2>2
<1> QED
  BY <1>1, <1>2, <1>3, <1>4 DEF Circle

LEMMA RecycledCircle ==
  ASSUME Circle, NEW line, ~ (ring_size < MAXRING), Recycle(line),
         ~ \E i \in 0 .. prev_check - 2 : ring # NULL /\ Same(entry[Older(i)], line)
  PROVE  Circle'
<1>1. ring_size \in 1 .. MAXRING /\ ring_size # 0 /\ ring # NULL /\ UNCHANGED <<next, prev, ring_size>> /\ prev_check \in Nat
  BY SizeAssumption DEF Circle, Recycle
<1>2. PICK s : Lists(s, ring, next, prev, ring_size) /\ NoneTwice(s, entry, ring_size)
  BY <1>1 DEF Circle
<1> DEFINE size == ring_size
           z == Fronted(s, size - 1, size)
<1>3. next[ring] = s[size - 1] /\ Lists(z, next[ring], next, prev, size)
  BY <1>2, RecycledListed
<1>4. size - 1 \in 0 .. size - 1
  BY <1>1
<1>5. IsFront(z, s, size - 1, size)
  BY <1>2, <1>4, FrontFacts
<1>6. /\ s \in [0 .. size - 1 -> 1 .. size]
      /\ \A i, j \in 0 .. size - 1 : s[i] = s[j] => i = j
  BY <1>2 DEF Lists
<1>7. 1 .. size \subseteq Node
  BY <1>1, SizeAssumption DEF Node
<1>8. ring' = s[size - 1] /\ entry' = [entry EXCEPT ![s[size - 1]] = line]
  BY <1>3 DEF Recycle
<1> HIDE DEF z, size
<1>9. s[size - 1] \in Node /\ \A i \in 0 .. size - 2 : s[i] \in Node /\ s[i] # s[size - 1]
  <2>1. \A i \in 0 .. size - 2 : i \in 0 .. size - 1 /\ i # size - 1
    BY <1>1 DEF size
  <2> QED
    BY <1>4, <1>6, <1>7, <2>1
<1>10. /\ entry' = [n \in Node |-> entry'[n]] /\ entry'[s[size - 1]] = line
       /\ \A i \in 0 .. size - 2 : entry'[s[i]] = entry[s[i]]
  BY <1>8, <1>9 DEF Circle
<1>11. /\ z[0] = s[size - 1]
       /\ \A i \in 1 .. size - 1 : i - 1 \in 0 .. size - 2 /\ i - 1 \in 0 .. size - 1 /\ z[i] = s[i - 1]
  <2>1. \A i \in 0 .. size - 1 : From(size - 1, i) = IF i = 0 THEN size - 1 ELSE i - 1
    BY <1>1 DEF From, size
  <2>2. 0 \in 0 .. size - 1 /\ \A i \in 1 .. size - 1 : i \in 0 .. size - 1 /\ i # 0 /\ i - 1 \in 0 .. size - 2 /\ i - 1 \in 0 .. size - 1
    BY <1>1 DEF size
  <2>3. \A i \in 0 .. size - 1 : z[i] = s[From(size - 1, i)]
    BY <1>5 DEF IsFront
  <2> QED
    BY <2>1, <2>2, <2>3
<1>12. entry'[z[0]] = line /\ \A i \in 1 .. size - 1 : entry'[z[i]] = entry[s[i - 1]]
  BY <1>10, <1>11
<1>13. ASSUME NEW i \in 1 .. size - 1, NEW j \in 1 .. size - 1, i < j, j < prev_check
       PROVE  ~ Same(entry'[z[i]], entry'[z[j]])
  <2>1. i - 1 < j - 1 /\ j - 1 < prev_check /\ i - 1 \in 0 .. size - 1 /\ j - 1 \in 0 .. size - 1
    BY <1>1, <1>11, <1>13
  <2> QED
    BY <1>2, <1>12, <2>1 DEF NoneTwice, size
<1>14. ASSUME NEW i \in 1 .. size - 1, i < prev_check
       PROVE  ~ Same(entry'[z[i]], line)
  <2>1. i - 1 \in 0 .. size - 1 /\ i - 1 < prev_check - 1
    BY <1>1, <1>11, <1>14
  <2> QED
    BY <1>1, <1>2, <1>12, <2>1, Compared DEF size
<1>15. size \in Nat \ {0}
  BY <1>1 DEF size
<1>16. NoneTwice(z, entry', size)
  BY <1>12, <1>13, <1>14, <1>15, PutInFront
<1>17. Lists(z, ring', next', prev', ring_size')
  BY <1>1, <1>3, <1>8 DEF size
<1>18. ring' # NULL
  BY <1>17, ListsRing
<1> QED
  BY <1>1, <1>10, <1>16, <1>17, <1>18 DEF Circle, size

LEMMA MovedCircle ==
  ASSUME Circle, ring # NULL, NEW k \in 0 .. prev_check - 2, NEW line,
         Same(entry[Older(k)], line), ~ Same(entry[ring], line),
         \A j \in 0 .. prev_check - 2 : Same(entry[Older(j)], line) => k <= j,
         MoveToFront(Older(k))
  PROVE  Circle'
<1>1. PICK s : Lists(s, ring, next, prev, ring_size) /\ NoneTwice(s, entry, ring_size)
  BY DEF Circle
<1>2. k \in 0 .. prev_check + MAXRING /\ k \in Nat /\ prev_check \in Nat /\ k < prev_check
  BY SizeAssumption
<1>3. PICK j \in 0 .. ring_size - 1 : j <= k /\ Older(k) = s[j]
  BY <1>1, <1>2, OlderListed
<1>4. ring_size \in 1 .. MAXRING /\ ring_size \in Nat
  BY SizeAssumption DEF Circle
<1>5. j \in 0 .. prev_check - 2 /\ j \in 0 .. prev_check + MAXRING /\ j < ring_size
  BY <1>2, <1>3, <1>4, SizeAssumption
<1>6. Older(j) = s[j]
  BY <1>1, <1>5, OlderListed
<1>7. j = k
  BY <1>2, <1>3, <1>5, <1>6
<1>8. k # 0
  BY OlderUnfolds
<1>9. k \in 1 .. ring_size - 1 /\ k \in 0 .. ring_size - 1
  BY <1>3, <1>4, <1>7, <1>8
<1>10. MoveToFront(s[k])
  BY <1>3, <1>7
<1>11. /\ Lists(Fronted(s, k, ring_size), s[k], next', prev', ring_size)
       /\ next' = [n \in Node |-> next'[n]] /\ prev' = [n \in Node |-> prev'[n]]
  BY <1>1, <1>4, <1>9, <1>10, MovedListed DEF Circle
<1>12. NoneTwice(Fronted(s, k, ring_size), entry, ring_size)
  BY <1>1, <1>2, <1>9, MovedTwice
<1>13. ring' = s[k] /\ UNCHANGED <<entry, ring_size>>
  BY <1>10 DEF MoveToFront
<1>14. ring' # NULL
  BY <1>11, <1>13, ListsRing
<1> QED
  BY <1>4, <1>11, <1>12, <1>13, <1>14 DEF Circle

LEMMA InsertQueueCircle ==
  ASSUME Circle, NEW line, InsertQueue(line)
  PROVE  Circle'
<1> DEFINE same == {i \in 0 .. prev_check - 2 : ring # NULL /\ Same(entry[Older(i)], line)}
<1>1. CASE line = <<>> \/ (ring # NULL /\ Same(entry[ring], line))
  BY <1>1 DEF InsertQueue, ringVars, Circle
<1>2. CASE ~ (line = <<>> \/ (ring # NULL /\ Same(entry[ring], line)))
  <2>1. CASE same # {}
    <3> DEFINE k == CHOOSE i \in same : \A j \in same : i <= j
    <3>1. MoveToFront(Older(k))
      BY <1>2, <2>1 DEF InsertQueue
    <3>2. \E i \in same : \A j \in same : i <= j
      <4>1. same \subseteq Nat
        BY SizeAssumption
      <4> HIDE DEF same
      <4> QED
        BY <2>1, <4>1, LeastNat
    <3>3. k \in same /\ \A j \in same : k <= j
      BY <3>2
    <3> HIDE DEF k
    <3>4. /\ ring # NULL /\ k \in 0 .. prev_check - 2 /\ Same(entry[Older(k)], line) /\ ~ Same(entry[ring], line)
          /\ \A j \in 0 .. prev_check - 2 : Same(entry[Older(j)], line) => k <= j
      BY <1>2, <3>3
    <3> QED
      BY <3>1, <3>4, MovedCircle
  <2>2. CASE same = {}
    <3>1. ~ \E i \in 0 .. prev_check - 2 : ring # NULL /\ Same(entry[Older(i)], line)
      BY <2>2
    <3>2. IF ring_size < MAXRING THEN AddNode(line) ELSE Recycle(line)
      BY <1>2, <2>2 DEF InsertQueue
    <3> QED
      BY <3>1, <3>2, AddedCircle, RecycledCircle
  <2> QED
    BY <2>1, <2>2
<1> QED
  BY <1>1, <1>2

-----------------------------------------------------------------------------
(* The steps. *)

LEMMA RingInvInit ==
  ASSUME Init
  PROVE  RingInv
BY SizeAssumption DEF Init, RingInv, Circle, NULL

LEMMA SameRing ==
  ASSUME RingInv, UNCHANGED ringVars, UNCHANGED current
  PROVE  RingInv'
BY DEF RingInv, Circle, ringVars

LEMMA SentRing ==
  ASSUME RingInv, NEW b, NEW bp, NEW bytes, SendLine(b, bp, bytes)
  PROVE  RingInv'
<1>1. Circle'
  BY InsertQueueCircle DEF RingInv, SendLine
<1>2. current' = NULL
  BY DEF SendLine
<1> QED
  BY <1>1, <1>2 DEF RingInv

(* The pointers of a listed node lead to listed nodes. *)
LEMMA PointersListed ==
  ASSUME NEW s, NEW r, NEW nx, NEW pv, NEW size, Lists(s, r, nx, pv, size), NEW n \in 1 .. size
  PROVE  nx[n] \in 1 .. size /\ pv[n] \in 1 .. size /\ nx[pv[n]] = n /\ pv[nx[n]] = n
<1>1. /\ size \in Nat \ {0} /\ s \in [0 .. size - 1 -> 1 .. size]
      /\ \A i \in 0 .. size - 1 : /\ nx[s[i]] = s[IF i = 0 THEN size - 1 ELSE i - 1]
                                  /\ pv[s[i]] = s[IF i = size - 1 THEN 0 ELSE i + 1]
  BY DEF Lists
<1>2. PICK i \in 0 .. size - 1 : s[i] = n
  BY DEF Lists
<1> DEFINE b == IF i = 0 THEN size - 1 ELSE i - 1
           f == IF i = size - 1 THEN 0 ELSE i + 1
<1>3. /\ b \in 0 .. size - 1 /\ f \in 0 .. size - 1
      /\ (IF b = size - 1 THEN 0 ELSE b + 1) = i
      /\ (IF f = 0 THEN size - 1 ELSE f - 1) = i
  BY <1>1
<1>4. nx[n] = s[b] /\ pv[n] = s[f]
  BY <1>1, <1>2
<1> HIDE DEF b, f
<1>5. s[b] \in 1 .. size /\ s[f] \in 1 .. size
  BY <1>1, <1>3
<1>6. pv[s[b]] = s[i] /\ nx[s[f]] = s[i]
  BY <1>1, <1>3
<1> QED
  BY <1>2, <1>4, <1>5, <1>6

LEMMA ArrowRing ==
  ASSUME RingInv, PrevBuff \/ NextBuff
  PROVE  RingInv'
<1>1. UNCHANGED ringVars
  BY DEF PrevBuff, NextBuff, ArrowKey
<1>2. CASE ring = NULL
  <2>1. UNCHANGED current
    BY <1>2 DEF PrevBuff, NextBuff, ArrowKey
  <2> QED
    BY <1>1, <2>1, SameRing
<1>3. CASE ring # NULL
  <2>1. PICK s : Lists(s, ring, next, prev, ring_size)
    BY <1>3 DEF RingInv, Circle
  <2>2. ring \in 1 .. ring_size
    BY <2>1, ListsRing
  <2>3. current # NULL => current \in 1 .. ring_size
    BY DEF RingInv
  <2>4. current' \in {ring, next[ring], prev[current], next[current]} /\ (current = NULL => current' \in {ring, next[ring]})
    BY <1>3 DEF PrevBuff, NextBuff, ArrowKey, SwitchToBuff
  <2>5. current' \in 1 .. ring_size
    BY <2>1, <2>2, <2>3, <2>4, PointersListed
  <2> QED
    BY <1>1, <2>5 DEF RingInv, Circle, ringVars
<1> QED
  BY <1>2, <1>3

LEMMA KeyRing ==
  ASSUME RingInv, KeyStep
  PROVE  RingInv'
<1>1. CASE DeleteKey \/ Del \/ BackOver
  BY <1>1, SameRing DEF DeleteKey, Del, BackOver, Quiet
<1>2. CASE MoveEnd \/ MoveHome \/ MoveAhead \/ MoveBack \/ MoveForeWord \/ MoveBackWord
  <2>1. UNCHANGED ringVars /\ UNCHANGED current
    BY <1>2 DEF MoveEnd, MoveHome, MoveAhead, MoveBack, MoveForeWord, MoveBackWord, MoveTo, Quiet
  <2> QED
    BY <2>1, SameRing
<1>3. CASE DeleteToEndOfLine \/ DeleteLine \/ InsertToggle
  BY <1>3, SameRing DEF DeleteToEndOfLine, DeleteLine, InsertToggle, Quiet
<1>4. CASE TypePrinting \/ TypeControl \/ TypeEof \/ TypeEscM \/ TypeUnknown \/ Interrupt
  BY <1>4, SameRing DEF TypePrinting, TypeControl, TypeEof, TypeEscM, TypeUnknown, Interrupt, Quiet
<1>5. CASE SendLineToChild
  BY <1>5, SentRing DEF SendLineToChild
<1>6. CASE HandleDelayed
  BY <1>6, SameRing DEF HandleDelayed
<1>7. CASE HandleImmediate
  BY <1>7, SentRing DEF HandleImmediate
<1>8. CASE PrevBuff \/ NextBuff
  BY <1>8, ArrowRing
<1>9. CASE CompleteWord
  BY <1>9, SameRing DEF CompleteWord
<1> QED
  BY <1>1, <1>2, <1>3, <1>4, <1>5, <1>6, <1>7, <1>8, <1>9 DEF KeyStep

LEMMA RingInvStep ==
  ASSUME RingInv, [Next]_vars
  PROVE  RingInv'
<1>1. CASE UNCHANGED vars
  BY <1>1, SameRing DEF vars, ringVars
<1>2. CASE KeyStep
  BY <1>2, KeyRing
<1>3. CASE Read \/ ReceiveInputLine \/ FileChanges
  BY <1>3, SameRing DEF Read, ReceiveInputLine, FileChanges
<1>4. CASE ChildEchoes \/ ChildPrints \/ ChildPrompts
  BY <1>4, SameRing DEF ChildEchoes, ChildPrints, ChildPrompts, Output
<1> QED
  BY <1>1, <1>2, <1>3, <1>4 DEF Next

LEMMA RingInvSound ==
  ASSUME RingInv
  PROVE  RingSound
<1> SUFFICES ASSUME ring # NULL
             PROVE  /\ {Older(i) : i \in 0 .. ring_size - 1} = 1 .. ring_size
                    /\ \A n \in 1 .. ring_size : next[prev[n]] = n /\ prev[next[n]] = n
                    /\ \A i \in 1 .. ring_size - 1 : i < prev_check - 1 => ~ Same(entry[Older(i)], entry[ring])
  BY DEF RingSound, RingInv
<1>1. PICK s : Lists(s, ring, next, prev, ring_size) /\ NoneTwice(s, entry, ring_size)
  BY DEF RingInv, Circle
<1>2. \A i \in 0 .. ring_size - 1 : Older(i) = s[i]
  <2>1. \A i \in 0 .. ring_size - 1 : i \in 0 .. prev_check + MAXRING /\ i < ring_size
    BY SizeAssumption DEF RingInv, Circle
  <2> QED
    BY <1>1, <2>1, OlderListed
<1>3. /\ \A i \in 0 .. ring_size - 1 : s[i] \in 1 .. ring_size
      /\ \A n \in 1 .. ring_size : \E i \in 0 .. ring_size - 1 : s[i] = n
      /\ s[0] = ring
  BY <1>1 DEF Lists
<1>4. {Older(i) : i \in 0 .. ring_size - 1} = 1 .. ring_size
  BY <1>2, <1>3
<1>5. \A n \in 1 .. ring_size : next[prev[n]] = n /\ prev[next[n]] = n
  BY <1>1, PointersListed
<1>6. ASSUME NEW i \in 1 .. ring_size - 1, i < prev_check - 1
      PROVE  ~ Same(entry[Older(i)], entry[ring])
  <2>1. 0 \in 0 .. ring_size - 1 /\ i \in 0 .. ring_size - 1 /\ 0 < i /\ i < prev_check
    BY <1>6, SizeAssumption DEF RingInv, Circle
  <2>2. ~ Same(entry[s[0]], entry[s[i]])
    BY <1>1, <2>1 DEF NoneTwice
  <2> QED
    BY <1>2, <1>3, <2>1, <2>2, SameFacts
<1> QED
  BY <1>4, <1>5, <1>6

-----------------------------------------------------------------------------
(* The history of clef, which relinks a line that is given again and       *)
(* overwrites the oldest when it is full, stays one circle through all     *)
(* lines, its pointers inverse, and no line is there twice among the last  *)
(* prev_check - 1; current points into it.                                 *)
THEOREM RingStaysSound == Spec => []RingSound
<1>1. Init => RingInv
  BY RingInvInit
<1>2. RingInv /\ [Next]_vars => RingInv'
  BY RingInvStep
<1>3. RingInv => RingSound
  BY RingInvSound
<1> QED
  BY <1>1, <1>2, <1>3, PTL DEF Spec
=============================================================================
