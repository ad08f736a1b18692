------------------------ MODULE TunnelTrafficProofs -------------------------
(***************************************************************************)
(* Proofs about TunnelTraffic, for any numbers of sessions, names and      *)
(* addresses and any session limit: the tunnel with its packets implements *)
(* the tunnel of HevTunnel, so that what is proved of that holds here; the *)
(* mapped DNS keeps its answers; the session limit evicts the right one.   *)
(*                                                                         *)
(* Both lists keep their elements distinct and in the order of their last  *)
(* use, which the histories witness: whatever stands behind an element has *)
(* been used since (SessionsInOrder, NamesInOrder).                        *)
(***************************************************************************)
EXTENDS TunnelTraffic, HevTunnelProofs, SequenceTheorems, FiniteSetTheorems

Elements(list) == {list[i] : i \in 1 .. Len(list)}

Distinct(list) == \A i, j \in 1 .. Len(list) : list[i] = list[j] => i = j

-----------------------------------------------------------------------------
(* Lists.                                                                    *)
LEMMA PlaceInList ==
    ASSUME NEW S, NEW list \in Seq(S), NEW x \in Elements(list)
    PROVE  PlaceIn(list, x) \in 1 .. Len(list) /\ list[PlaceIn(list, x)] = x
<1>1. DOMAIN list = 1 .. Len(list)
  BY LenProperties
<1>2. \E i \in DOMAIN list : list[i] = x
  BY <1>1 DEF Elements
<1> QED
  BY <1>1, <1>2 DEF PlaceIn

(* An element that is moved to the tail: those behind it move up.            *)
LEMMA Moved ==
    ASSUME NEW S, NEW list \in Seq(S), NEW x \in Elements(list), Distinct(list)
    PROVE  /\ MovedToTail(list, x) \in Seq(S)
           /\ Len(MovedToTail(list, x)) = Len(list)
           /\ Len(list) \in Nat \ {0}
           /\ MovedToTail(list, x)[Len(list)] = x
           /\ \E k \in 1 .. Len(list) :
                 /\ list[k] = x
                 /\ \A i \in 1 .. Len(list) - 1 :
                       /\ MovedToTail(list, x)[i] = list[IF i < k THEN i ELSE i + 1]
                       /\ MovedToTail(list, x)[i] # x
<1>1. Len(list) \in Nat /\ DOMAIN list = 1 .. Len(list) /\ x \in S
  BY LenProperties DEF Elements
<1>2. PICK k \in 1 .. Len(list) : k = PlaceIn(list, x) /\ list[k] = x
  BY PlaceInList
<1>3. \A i \in 1 .. Len(list) : list[i] \in S
  BY ElementOfSeq
<1>4. MovedToTail(list, x) =
         [i \in 1 .. Len(list) |->
             IF i < k THEN list[i] ELSE IF i < Len(list) THEN list[i + 1] ELSE x]
  BY <1>1, <1>2 DEF MovedToTail
<1>5. MovedToTail(list, x) \in [1 .. Len(list) -> S]
  BY <1>1, <1>3, <1>4
<1>6. MovedToTail(list, x) \in Seq(S) /\ Len(MovedToTail(list, x)) = Len(list)
  BY <1>1, <1>5
<1>7. MovedToTail(list, x)[Len(list)] = x
  BY <1>1, <1>2, <1>4
<1>8. ASSUME NEW i \in 1 .. Len(list) - 1
      PROVE  /\ MovedToTail(list, x)[i] = list[IF i < k THEN i ELSE i + 1]
             /\ MovedToTail(list, x)[i] # x
  <2>1. MovedToTail(list, x)[i] = list[IF i < k THEN i ELSE i + 1]
    BY <1>1, <1>4
  <2>2. PICK j \in 1 .. Len(list) : j = (IF i < k THEN i ELSE i + 1) /\ j # k
    BY <1>1
  <2> QED
    BY <1>2, <2>1, <2>2 DEF Distinct
<1> QED
  BY <1>1, <1>2, <1>6, <1>7, <1>8

(* It is the same list in another order.                                     *)
LEMMA MovedKeeps ==
    ASSUME NEW S, NEW list \in Seq(S), NEW x \in Elements(list), Distinct(list)
    PROVE  /\ Distinct(MovedToTail(list, x))
           /\ Elements(MovedToTail(list, x)) = Elements(list)
<1>1. PICK new \in Seq(S), n \in Nat \ {0}, k \in Nat :
         /\ k \in 1 .. n
         /\ new = MovedToTail(list, x) /\ n = Len(list) /\ Len(new) = n
         /\ new[n] = x /\ list[k] = x
         /\ \A i \in 1 .. n - 1 : new[i] = list[IF i < k THEN i ELSE i + 1] /\ new[i] # x
  <2>1. PICK k \in 1 .. Len(list) :
           /\ list[k] = x
           /\ \A i \in 1 .. Len(list) - 1 :
                 /\ MovedToTail(list, x)[i] = list[IF i < k THEN i ELSE i + 1]
                 /\ MovedToTail(list, x)[i] # x
    BY Moved
  <2>2. /\ MovedToTail(list, x) \in Seq(S)
        /\ Len(MovedToTail(list, x)) = Len(list)
        /\ Len(list) \in Nat \ {0}
        /\ MovedToTail(list, x)[Len(list)] = x
    BY Moved
  <2> QED
    BY <2>1, <2>2
<1>2. Distinct(new)
  <2> SUFFICES ASSUME NEW i \in 1 .. n, NEW j \in 1 .. n, new[i] = new[j] PROVE i = j
    BY <1>1, SMTT(30) DEF Distinct
  <2>1. CASE i < n /\ j < n
    <3>1. i \in 1 .. n - 1 /\ j \in 1 .. n - 1
      BY <2>1
    <3>2. list[IF i < k THEN i ELSE i + 1] = list[IF j < k THEN j ELSE j + 1]
      BY <1>1, <3>1
    <3>3. (IF i < k THEN i ELSE i + 1) = IF j < k THEN j ELSE j + 1
      <4>1. PICK a \in 1 .. n, b \in 1 .. n :
               a = (IF i < k THEN i ELSE i + 1) /\ b = IF j < k THEN j ELSE j + 1
        BY <3>1
      <4> QED
        BY <1>1, <3>2, <4>1 DEF Distinct
    <3> QED
      BY <3>1, <3>3
  <2>2. CASE i = n \/ j = n
    <3>1. i # n => i \in 1 .. n - 1
      OBVIOUS
    <3>2. j # n => j \in 1 .. n - 1
      OBVIOUS
    <3> QED
      BY <1>1, <2>2, <3>1, <3>2
  <2> QED
    BY <2>1, <2>2
<1>3. Elements(new) \subseteq Elements(list)
  <2> SUFFICES ASSUME NEW i \in 1 .. n PROVE new[i] \in Elements(list)
    BY <1>1 DEF Elements
  <2>1. CASE i = n
    BY <1>1, <2>1
  <2>2. CASE i # n
    <3>1. i \in 1 .. n - 1
      BY <2>2
    <3>2. PICK a \in 1 .. n : a = (IF i < k THEN i ELSE i + 1) /\ new[i] = list[a]
      BY <1>1, <3>1
    <3>3. list[a] \in Elements(list)
      BY <1>1, <3>2, Zenon DEF Elements
    <3> QED
      BY <3>2, <3>3
  <2> QED
    BY <2>1, <2>2
<1>4. Elements(list) \subseteq Elements(new)
  <2> SUFFICES ASSUME NEW i \in 1 .. n PROVE list[i] \in Elements(new)
    BY <1>1 DEF Elements
  <2>1. CASE i = k
    BY <1>1, <2>1 DEF Elements
  <2>2. CASE i # k
    <3>1. PICK a \in 1 .. n - 1 : i = (IF a < k THEN a ELSE a + 1)
      <4>1. CASE i < k
        <5>1. i \in 1 .. n - 1
          BY <1>1, <4>1
        <5> QED
          BY <4>1, <5>1
      <4>2. CASE i > k
        <5>1. PICK a \in 1 .. n - 1 : i = a + 1 /\ ~(a < k)
          <6>1. i - 1 \in 1 .. n - 1 /\ i = (i - 1) + 1 /\ ~(i - 1 < k)
            BY <1>1, <4>2
          <6> QED
            BY <6>1
        <5> QED
          BY <5>1
      <4> QED
        BY <1>1, <2>2, <4>1, <4>2
    <3>2. new[a] = list[i] /\ a \in 1 .. n
      BY <1>1, <3>1
    <3> QED
      BY <1>1, <3>2 DEF Elements
  <2> QED
    BY <2>1, <2>2
<1> QED
  BY <1>1, <1>2, <1>3, <1>4

(* Where the elements of new come in the order they have in list, but for x, *)
(* which comes last.                                                         *)
SameOrder(new, list, x) ==
    \A i, j \in 1 .. Len(new) : i < j =>
        /\ new[i] # x
        /\ \/ new[j] = x
           \/ \E a, b \in 1 .. Len(list) :
                 a < b /\ new[i] = list[a] /\ new[j] = list[b] /\ new[j] # x

LEMMA MovedInOrder ==
    ASSUME NEW S, NEW list \in Seq(S), NEW x \in Elements(list), Distinct(list)
    PROVE  SameOrder(MovedToTail(list, x), list, x)
<1>1. PICK new \in Seq(S), n \in Nat \ {0}, k \in Nat :
         /\ k \in 1 .. n
         /\ new = MovedToTail(list, x) /\ n = Len(list) /\ Len(new) = n
         /\ new[n] = x /\ list[k] = x
         /\ \A i \in 1 .. n - 1 : new[i] = list[IF i < k THEN i ELSE i + 1] /\ new[i] # x
  <2>1. PICK k \in 1 .. Len(list) :
           /\ list[k] = x
           /\ \A i \in 1 .. Len(list) - 1 :
                 /\ MovedToTail(list, x)[i] = list[IF i < k THEN i ELSE i + 1]
                 /\ MovedToTail(list, x)[i] # x
    BY Moved
  <2>2. /\ MovedToTail(list, x) \in Seq(S)
        /\ Len(MovedToTail(list, x)) = Len(list)
        /\ Len(list) \in Nat \ {0}
        /\ MovedToTail(list, x)[Len(list)] = x
    BY Moved
  <2> QED
    BY <2>1, <2>2
<1>2. ASSUME NEW i \in 1 .. n, NEW j \in 1 .. n, i < j
      PROVE  /\ new[i] # x
             /\ \/ new[j] = x
                \/ \E a, b \in 1 .. n :
                      a < b /\ new[i] = list[a] /\ new[j] = list[b] /\ new[j] # x
  <2>1. i \in 1 .. n - 1
    BY <1>2
  <2>2. CASE j = n
    BY <1>1, <2>1, <2>2
  <2>3. CASE j # n
    <3>1. j \in 1 .. n - 1
      BY <2>3
    <3>2. PICK a \in 1 .. n, b \in 1 .. n :
             a = (IF i < k THEN i ELSE i + 1) /\ b = (IF j < k THEN j ELSE j + 1)
      BY <2>1, <3>1
    <3>3. a < b
      BY <1>1, <1>2, <3>2
    <3> QED
      BY <1>1, <2>1, <3>1, <3>2, <3>3
  <2> QED
    BY <2>2, <2>3
<1> QED
  BY <1>1, <1>2 DEF SameOrder

LEMMA Appended ==
    ASSUME NEW S, NEW list \in Seq(S), NEW x \in S, x \notin Elements(list), Distinct(list)
    PROVE  /\ Append(list, x) \in Seq(S)
           /\ Len(Append(list, x)) = Len(list) + 1
           /\ Distinct(Append(list, x))
           /\ Elements(Append(list, x)) = Elements(list) \cup {x}
           /\ SameOrder(Append(list, x), list, x)
<1>1. PICK n \in Nat : n = Len(list)
  BY LenProperties
<1>2. PICK new \in Seq(S) :
         /\ new = Append(list, x)
         /\ Len(new) = n + 1
         /\ \A i \in 1 .. n : new[i] = list[i]
         /\ new[n + 1] = x
  BY <1>1, AppendProperties
<1>3. \A i \in 1 .. n : new[i] # x
  BY <1>1, <1>2 DEF Elements
<1>4. \A i \in 1 .. n + 1 : i \in 1 .. n \/ i = n + 1
  OBVIOUS
<1>5. Distinct(new)
  <2> SUFFICES ASSUME NEW i \in 1 .. n + 1, NEW j \in 1 .. n + 1, new[i] = new[j] PROVE i = j
    BY <1>2 DEF Distinct
  <2> QED
    BY <1>1, <1>2, <1>3, <1>4 DEF Distinct
<1>6. Elements(new) = Elements(list) \cup {x}
  <2>1. Elements(new) \subseteq Elements(list) \cup {x}
    BY <1>1, <1>2, <1>4 DEF Elements
  <2>2. x \in Elements(new)
    <3>1. n + 1 \in 1 .. n + 1
      OBVIOUS
    <3> QED
      BY <1>2, <3>1 DEF Elements
  <2>3. Elements(list) \subseteq Elements(new)
    <3>1. \A i \in 1 .. n : i \in 1 .. n + 1
      OBVIOUS
    <3> QED
      BY <1>1, <1>2, <3>1 DEF Elements
  <2> QED
    BY <2>1, <2>2, <2>3
<1>7. SameOrder(new, list, x)
  <2> SUFFICES ASSUME NEW i \in 1 .. n + 1, NEW j \in 1 .. n + 1, i < j
               PROVE  /\ new[i] # x
                      /\ \/ new[j] = x
                         \/ \E a, b \in 1 .. n :
                               a < b /\ new[i] = list[a] /\ new[j] = list[b] /\ new[j] # x
    BY <1>1, <1>2 DEF SameOrder
  <2>1. i \in 1 .. n
    OBVIOUS
  <2> QED
    BY <1>2, <1>3, <1>4, <2>1
<1> QED
  BY <1>1, <1>2, <1>5, <1>6, <1>7

(* A list without its k-th element, in which the others keep their order.    *)
Without(list, k) == SubSeq(list, 1, k - 1) \o SubSeq(list, k + 1, Len(list))

KeepsOrder(new, list, k) ==
    \A i, j \in 1 .. Len(new) : i < j =>
        \E a, b \in 1 .. Len(list) :
            a < b /\ new[i] = list[a] /\ new[j] = list[b] /\ a # k /\ b # k

LEMMA Removed ==
    ASSUME NEW S, NEW list \in Seq(S), NEW k \in 1 .. Len(list), Distinct(list)
    PROVE  /\ Without(list, k) \in Seq(S)
           /\ Len(Without(list, k)) = Len(list) - 1
           /\ Distinct(Without(list, k))
           /\ Elements(Without(list, k)) = Elements(list) \ {list[k]}
           /\ KeepsOrder(Without(list, k), list, k)
<1> DEFINE front == SubSeq(list, 1, k - 1)
           rest == SubSeq(list, k + 1, Len(list))
           new == front \o rest
<1>1. PICK n \in Nat : n = Len(list) /\ k \in 1 .. n
  BY LenProperties
<1>2. \A i \in 1 .. n : list[i] \in S
  BY <1>1, ElementOfSeq
<1>3. /\ front \in Seq(S) /\ Len(front) = k - 1
      /\ \A i \in 1 .. k - 1 : front[i] = list[i]
  <2>1. PICK lo \in Int, hi \in Int : lo = 1 /\ hi = k - 1 /\ lo .. hi \subseteq 1 .. n
    BY <1>1
  <2>2. \A i \in lo .. hi : list[i] \in S
    BY <1>2, <2>1
  <2>3. /\ SubSeq(list, lo, hi) \in Seq(S)
        /\ Len(SubSeq(list, lo, hi)) = (IF lo <= hi THEN hi - lo + 1 ELSE 0)
        /\ \A i \in 1 .. hi - lo + 1 : SubSeq(list, lo, hi)[i] = list[lo + i - 1]
    BY <2>2, SubSeqProperties
  <2>4. front = SubSeq(list, lo, hi)
    BY <2>1
  <2> QED
    BY <1>1, <2>1, <2>3, <2>4
<1>4. /\ rest \in Seq(S) /\ Len(rest) = n - k
      /\ \A i \in 1 .. n - k : rest[i] = list[k + i]
  <2>1. PICK lo \in Int, hi \in Int : lo = k + 1 /\ hi = n /\ lo .. hi \subseteq 1 .. n
    BY <1>1
  <2>2. \A i \in lo .. hi : list[i] \in S
    BY <1>2, <2>1
  <2>3. /\ SubSeq(list, lo, hi) \in Seq(S)
        /\ Len(SubSeq(list, lo, hi)) = (IF lo <= hi THEN hi - lo + 1 ELSE 0)
        /\ \A i \in 1 .. hi - lo + 1 : SubSeq(list, lo, hi)[i] = list[lo + i - 1]
    BY <2>2, SubSeqProperties
  <2>4. rest = SubSeq(list, lo, hi)
    BY <1>1, <2>1
  <2>5. Len(rest) = n - k
    BY <1>1, <2>1, <2>3, <2>4
  <2>6. ASSUME NEW i \in 1 .. n - k PROVE rest[i] = list[k + i]
    <3>1. i \in 1 .. hi - lo + 1 /\ lo + i - 1 = k + i
      BY <1>1, <2>1
    <3> QED
      BY <2>3, <2>4, <3>1
  <2> QED
    BY <2>3, <2>4, <2>5, <2>6
<1> HIDE DEF front, rest
<1>5. /\ new \in Seq(S) /\ Len(new) = Len(front) + Len(rest)
      /\ \A i \in 1 .. Len(front) + Len(rest) :
            new[i] = IF i <= Len(front) THEN front[i] ELSE rest[i - Len(front)]
  BY <1>3, <1>4, ConcatProperties, Zenon
<1> HIDE DEF new
<1>6. Len(new) = n - 1
  BY <1>1, <1>3, <1>4, <1>5
<1>7. ASSUME NEW i \in 1 .. n - 1
      PROVE  new[i] = list[IF i < k THEN i ELSE i + 1]
  <2>1. i \in 1 .. Len(front) + Len(rest)
    BY <1>1, <1>3, <1>4
  <2>2. CASE i < k
    BY <1>1, <1>3, <1>5, <2>1, <2>2
  <2>3. CASE i >= k
    <3>1. PICK j \in 1 .. n - k : j = i - (k - 1) /\ k + j = i + 1 /\ ~(i < k)
      BY <1>1, <2>3
    <3>2. new[i] = rest[j]
      BY <1>1, <1>3, <1>5, <2>1, <2>3, <3>1
    <3>3. rest[j] = list[k + j]
      BY <1>4
    <3> QED
      BY <3>1, <3>2, <3>3
  <2> QED
    BY <1>1, <2>2, <2>3
<1>8. ASSUME NEW i \in 1 .. n - 1
      PROVE  \E a \in 1 .. n : a = (IF i < k THEN i ELSE i + 1) /\ a # k /\ new[i] = list[a]
  BY <1>1, <1>7
<1>9. Distinct(new)
  <2> SUFFICES ASSUME NEW i \in 1 .. n - 1, NEW j \in 1 .. n - 1, new[i] = new[j] PROVE i = j
    BY <1>6 DEF Distinct
  <2>1. PICK a \in 1 .. n : a = (IF i < k THEN i ELSE i + 1) /\ new[i] = list[a]
    BY <1>8
  <2>2. PICK b \in 1 .. n : b = (IF j < k THEN j ELSE j + 1) /\ new[j] = list[b]
    BY <1>8
  <2>3. a = b
    BY <1>1, <2>1, <2>2 DEF Distinct
  <2> QED
    BY <1>1, <2>1, <2>2, <2>3
<1>10. Elements(new) = Elements(list) \ {list[k]}
  <2>1. Elements(new) \subseteq Elements(list) \ {list[k]}
    <3> SUFFICES ASSUME NEW i \in 1 .. n - 1
                 PROVE  new[i] \in Elements(list) /\ new[i] # list[k]
      BY <1>6 DEF Elements
    <3>1. PICK a \in 1 .. n : a # k /\ new[i] = list[a]
      BY <1>8
    <3> QED
      BY <1>1, <3>1 DEF Elements, Distinct
  <2>2. ASSUME NEW a \in 1 .. n, list[a] # list[k]
        PROVE  list[a] \in Elements(new)
    <3>1. PICK i \in 1 .. n - 1 : a = (IF i < k THEN i ELSE i + 1)
      <4>1. CASE a < k
        <5>1. a \in 1 .. n - 1
          BY <1>1, <4>1
        <5> QED
          BY <4>1, <5>1
      <4>2. CASE a > k
        <5>1. PICK i \in 1 .. n - 1 : a = i + 1 /\ ~(i < k)
          <6>1. a - 1 \in 1 .. n - 1 /\ a = (a - 1) + 1 /\ ~(a - 1 < k)
            BY <1>1, <4>2
          <6> QED
            BY <6>1
        <5> QED
          BY <5>1
      <4> QED
        BY <1>1, <2>2, <4>1, <4>2
    <3> QED
      BY <1>6, <1>7, <3>1 DEF Elements
  <2> QED
    BY <1>1, <2>1, <2>2 DEF Elements
<1>11. ASSUME NEW i \in 1 .. n - 1, NEW j \in 1 .. n - 1, i < j
       PROVE  \E a, b \in 1 .. n :
                 a < b /\ new[i] = list[a] /\ new[j] = list[b] /\ a # k /\ b # k
  <2>1. PICK a \in 1 .. n : a = (IF i < k THEN i ELSE i + 1) /\ a # k /\ new[i] = list[a]
    BY <1>8
  <2>2. PICK b \in 1 .. n : b = (IF j < k THEN j ELSE j + 1) /\ b # k /\ new[j] = list[b]
    BY <1>8
  <2>3. a < b
    BY <1>1, <1>11, <2>1, <2>2
  <2> QED
    BY <2>1, <2>2, <2>3
<1>12. ASSUME NEW i \in 1 .. Len(new), NEW j \in 1 .. Len(new), i < j
       PROVE  \E a, b \in 1 .. Len(list) :
                 a < b /\ new[i] = list[a] /\ new[j] = list[b] /\ a # k /\ b # k
  <2>1. i \in 1 .. n - 1 /\ j \in 1 .. n - 1
    BY <1>6
  <2>2. \E a, b \in 1 .. n :
           a < b /\ new[i] = list[a] /\ new[j] = list[b] /\ a # k /\ b # k
    BY <1>11, <1>12, <2>1, Zenon
  <2> QED
    BY <1>1, <2>2, Zenon
<1>13. new \in Seq(S) /\ Len(new) = Len(list) - 1
  BY <1>1, <1>5, <1>6
<1>14. KeepsOrder(new, list, k)
  BY <1>12, Zenon DEF KeepsOrder
<1>15. Without(list, k) = new
  BY DEF Without, new, front, rest
<1> QED
  BY <1>9, <1>10, <1>13, <1>14, <1>15, Zenon

(* Distinct elements are as many as the list is long.                        *)
LEMMA ElementsCounted ==
    ASSUME NEW S, NEW list \in Seq(S), Distinct(list)
    PROVE  IsFiniteSet(Elements(list)) /\ Cardinality(Elements(list)) = Len(list)
<1>1. Len(list) \in Nat /\ list \in [1 .. Len(list) -> S]
  BY LenProperties
<1>2. list \in [1 .. Len(list) -> Elements(list)]
  BY <1>1 DEF Elements
<1>3. list \in Bijection(1 .. Len(list), Elements(list))
  BY <1>2 DEF Bijection, Injection, Surjection, IsInjective, Distinct, Elements
<1>4. ExistsBijection(1 .. Len(list), Elements(list))
  BY <1>3 DEF ExistsBijection
<1> QED
  BY <1>1, <1>4, FS_CountingElements, FS_NatBijection

-----------------------------------------------------------------------------
(* The mapped DNS.                                                           *)
DnsTypes ==
    /\ records \in Seq(Names) /\ Distinct(records) /\ Len(records) <= MaxNames
    /\ recency \in Seq(Names) /\ Distinct(recency) /\ Elements(recency) = Elements(records)
    /\ told \in [Names -> 0 .. MaxNames]
    /\ since \in [Names -> SUBSET Names]
    /\ \A n \in Names : IsFiniteSet(since[n])

NamesInOrder ==
    \A i, j \in 1 .. Len(recency) :
        i < j /\ told[recency[i]] # 0 => recency[j] \in since[recency[i]]

DnsInv == DnsTypes /\ AnswerHolds /\ NamesInOrder

LEMMA Remembers ==
    ASSUME DnsTypes, NEW n \in Names, NEW a \in 0 .. MaxNames, Remember(n, a)
    PROVE  /\ told' \in [Names -> 0 .. MaxNames]
           /\ since' \in [Names -> SUBSET Names]
           /\ \A m \in Names : IsFiniteSet(since'[m])
           /\ told'[n] = IF a = 0 THEN told[n] ELSE a
           /\ \A m \in Names : m # n /\ told'[m] # 0 =>
                 /\ told'[m] = told[m]
                 /\ since'[m] = since[m] \cup {n}
                 /\ Cardinality(since[m] \cup {n}) < MaxNames
<1> DEFINE seen(m) == IF told[m] = 0 THEN {} ELSE since[m] \cup {n}
           good(m) == Cardinality(seen(m)) < MaxNames
<1>1. told' = [m \in Names |-> IF m = n THEN IF a = 0 THEN told[n] ELSE a
                               ELSE IF good(m) THEN told[m] ELSE 0]
  BY DEF Remember
<1>2. since' = [m \in Names |-> IF m # n /\ good(m) THEN seen(m) ELSE {}]
  BY DEF Remember
<1>3. \A m \in Names : seen(m) \in SUBSET Names /\ IsFiniteSet(seen(m))
  BY FS_EmptySet, FS_AddElement, ZenonT(30) DEF DnsTypes
<1>4. \A m \in Names : told[m] # 0 => seen(m) = since[m] \cup {n}
  OBVIOUS
<1>5. told \in [Names -> 0 .. MaxNames] /\ 0 \in 0 .. MaxNames
  BY MaxNamesAssumption DEF DnsTypes
<1> HIDE DEF seen
<1>6. told' \in [Names -> 0 .. MaxNames]
  <2>1. \A m \in Names : (IF m = n THEN IF a = 0 THEN told[n] ELSE a
                          ELSE IF good(m) THEN told[m] ELSE 0) \in 0 .. MaxNames
    BY <1>5
  <2> QED
    BY <1>1, <2>1
<1>7. since' \in [Names -> SUBSET Names] /\ \A m \in Names : IsFiniteSet(since'[m])
  BY <1>2, <1>3, FS_EmptySet
<1>8. told'[n] = IF a = 0 THEN told[n] ELSE a
  BY <1>1
<1>9. ASSUME NEW m \in Names, m # n, told'[m] # 0
      PROVE  /\ told'[m] = told[m]
             /\ since'[m] = since[m] \cup {n}
             /\ Cardinality(since[m] \cup {n}) < MaxNames
  <2>1. good(m) /\ told'[m] = told[m]
    BY <1>1, <1>9
  <2>2. since'[m] = seen(m) /\ seen(m) = since[m] \cup {n}
    BY <1>2, <1>4, <1>9, <2>1
  <2> QED
    BY <2>1, <2>2
<1> QED
  BY <1>6, <1>7, <1>8, <1>9

(* A name that is used now goes behind the others.                           *)
LEMMA NamesStayInOrder ==
    ASSUME DnsTypes, NamesInOrder, NEW n \in Names, NEW a \in 0 .. MaxNames, Remember(n, a),
           recency' \in Seq(Names), SameOrder(recency', recency, n)
    PROVE  NamesInOrder'
<1> SUFFICES ASSUME NEW i \in 1 .. Len(recency'), NEW j \in 1 .. Len(recency'),
                    i < j, told'[recency'[i]] # 0
             PROVE  recency'[j] \in since'[recency'[i]]
  BY DEF NamesInOrder
<1>1. recency'[i] \in Names /\ recency'[i] # n
  BY ElementOfSeq DEF SameOrder
<1>2. /\ told'[recency'[i]] = told[recency'[i]]
      /\ since'[recency'[i]] = since[recency'[i]] \cup {n}
  BY <1>1, Remembers
<1>3. CASE recency'[j] = n
  BY <1>2, <1>3
<1>4. CASE recency'[j] # n
  <2>1. PICK b \in 1 .. Len(recency), c \in 1 .. Len(recency) :
           b < c /\ recency'[i] = recency[b] /\ recency'[j] = recency[c]
    BY <1>4 DEF SameOrder
  <2>2. recency[c] \in since[recency[b]]
    BY <1>2, <2>1 DEF NamesInOrder
  <2> QED
    BY <1>2, <2>1, <2>2
<1> QED
  BY <1>3, <1>4

(* The name that gives its address to a new one has long been superseded:    *)
(* all other names of the list, and now the new one, have been used since.   *)
LEMMA HeadIsForgotten ==
    ASSUME DnsInv, NEW n \in Names, n \notin Elements(records), NEW a \in 0 .. MaxNames,
           Remember(n, a), Len(records) >= MaxNames
    PROVE  /\ recency # <<>> /\ Head(recency) \in Elements(records)
           /\ told'[Head(recency)] = 0
<1>1. /\ records \in Seq(Names) /\ recency \in Seq(Names)
      /\ Distinct(records) /\ Distinct(recency) /\ Elements(recency) = Elements(records)
      /\ Len(records) = MaxNames
  BY LenProperties, MaxNamesAssumption DEF DnsInv, DnsTypes
<1>2. /\ IsFiniteSet(Elements(recency)) /\ Cardinality(Elements(recency)) = MaxNames
      /\ Len(recency) = MaxNames
  BY <1>1, ElementsCounted
<1>3. recency # <<>> /\ Head(recency) = recency[1] /\ 1 \in 1 .. Len(recency)
  BY <1>1, <1>2, MaxNamesAssumption
<1> DEFINE m == recency[1]
<1>4. m \in Elements(recency) /\ m \in Names /\ m # n
  BY <1>1, <1>3, ElementOfSeq DEF Elements
<1>5. ASSUME told[m] # 0
      PROVE  Elements(recency) \ {m} \subseteq since[m]
  <2> SUFFICES ASSUME NEW j \in 1 .. Len(recency), recency[j] # m
               PROVE  recency[j] \in since[m]
    BY DEF Elements
  <2>1. 1 < j
    BY <1>2
  <2> QED
    BY <1>3, <1>5, <2>1 DEF DnsInv, NamesInOrder
<1> DEFINE T == (Elements(recency) \ {m}) \cup {n}
<1>6. IsFiniteSet(T) /\ Cardinality(T) = MaxNames
  <2>1. /\ IsFiniteSet(Elements(recency) \ {m})
        /\ Cardinality(Elements(recency) \ {m}) = MaxNames - 1
    BY <1>2, <1>4, FS_RemoveElement
  <2>2. n \notin Elements(recency) \ {m}
    BY <1>1
  <2>3. IsFiniteSet(T) /\ Cardinality(T) = Cardinality(Elements(recency) \ {m}) + 1
    BY <2>1, <2>2, FS_AddElement
  <2> QED
    BY <2>1, <2>3, MaxNamesAssumption
<1>7. ASSUME told'[m] # 0 PROVE FALSE
  <2>1. told[m] # 0 /\ Cardinality(since[m] \cup {n}) < MaxNames
    BY <1>4, <1>7, Remembers DEF DnsInv
  <2>2. T \subseteq since[m] \cup {n}
    BY <1>5, <2>1
  <2>3. IsFiniteSet(since[m] \cup {n})
    BY <1>4, FS_AddElement DEF DnsInv, DnsTypes
  <2>4. Cardinality(T) <= Cardinality(since[m] \cup {n})
    BY <2>2, <2>3, FS_Subset
  <2>5. Cardinality(since[m] \cup {n}) \in Nat
    BY <2>3, FS_CardinalityType
  <2> QED
    BY <1>6, <2>1, <2>4, <2>5, MaxNamesAssumption
<1> QED
  BY <1>1, <1>3, <1>4, <1>7

LEMMA AnswersStayGood ==
    ASSUME DnsTypes, NEW n \in Names, NEW a \in 0 .. MaxNames, Remember(n, a),
           a # 0 => a \in DOMAIN records' /\ records'[a] = n,
           told[n] # 0 => told[n] \in DOMAIN records' /\ records'[told[n]] = n,
           \A m \in Names : m # n /\ told[m] # 0 /\ told'[m] # 0 =>
              told[m] \in DOMAIN records' /\ records'[told[m]] = m
    PROVE  AnswerHolds'
<1> SUFFICES ASSUME NEW m \in Names, told'[m] # 0
             PROVE  told'[m] \in DOMAIN records' /\ records'[told'[m]] = m
  BY DEF AnswerHolds
<1>1. CASE m = n
  <2>1. told'[n] = IF a = 0 THEN told[n] ELSE a
    BY Remembers
  <2> QED
    BY <1>1, <2>1
<1>2. CASE m # n
  <2>1. told'[m] = told[m]
    BY <1>2, Remembers, ZenonT(30)
  <2> QED
    BY <1>2, <2>1
<1> QED
  BY <1>1, <1>2

(* The use of a name that is in the list: a repeated query, or a connection. *)
LEMMA UseStep ==
    ASSUME DnsInv, NEW n \in Elements(records), records' = records,
           recency' = MovedToTail(recency, n),
           NEW a \in 0 .. MaxNames, a # 0 => a = PlaceIn(records, n), Remember(n, a)
    PROVE  DnsInv'
<1>1. /\ DnsTypes /\ records \in Seq(Names) /\ recency \in Seq(Names)
      /\ Distinct(recency) /\ n \in Elements(recency) /\ n \in Names
  BY ElementOfSeq DEF DnsInv, DnsTypes, Elements
<1>2. PlaceIn(records, n) \in 1 .. Len(records) /\ records[PlaceIn(records, n)] = n
  BY <1>1, PlaceInList
<1>3. /\ recency' \in Seq(Names) /\ Distinct(recency')
      /\ Elements(recency') = Elements(recency) /\ SameOrder(recency', recency, n)
  BY <1>1, Moved, MovedKeeps, MovedInOrder
<1>4. DnsTypes'
  BY <1>1, <1>3, Remembers DEF DnsTypes
<1>5. NamesInOrder'
  BY <1>1, <1>3, NamesStayInOrder DEF DnsInv
<1>6. DOMAIN records = 1 .. Len(records)
  BY <1>1, LenProperties
<1>7. AnswerHolds'
  <2>1. a # 0 => a \in DOMAIN records' /\ records'[a] = n
    BY <1>2, <1>6
  <2>2. \A m \in Names : told[m] # 0 => told[m] \in DOMAIN records' /\ records'[told[m]] = m
    BY DEF DnsInv, AnswerHolds
  <2> QED
    BY <1>1, <2>1, <2>2, AnswersStayGood
<1> QED
  BY <1>4, <1>5, <1>7 DEF DnsInv

LEMMA LookUpStep ==
    ASSUME DnsInv, NEW i, LookUp(i)
    PROVE  DnsInv'
<1>1. records \in Seq(Names) /\ DOMAIN records = 1 .. Len(records)
  BY LenProperties DEF DnsInv, DnsTypes
<1>2. records[i] \in Elements(records)
  BY <1>1 DEF LookUp, Elements
<1>3. 0 \in 0 .. MaxNames
  BY MaxNamesAssumption
<1> QED
  BY <1>2, <1>3, UseStep DEF LookUp

(* A new name with an address of its own.                                    *)
LEMMA NewNameStep ==
    ASSUME DnsInv, NEW n \in Names, n \notin Elements(records), Len(records) < MaxNames,
           records' = Append(records, n), recency' = Append(recency, n),
           NEW a \in 0 .. MaxNames, a # 0 => a = PlaceIn(records', n), Remember(n, a)
    PROVE  DnsInv'
<1>1. /\ DnsTypes /\ records \in Seq(Names) /\ Distinct(records) /\ Len(records) \in Nat
      /\ recency \in Seq(Names) /\ Distinct(recency) /\ Elements(recency) = Elements(records)
      /\ n \notin Elements(recency)
  BY LenProperties DEF DnsInv, DnsTypes
<1>2. /\ records' \in Seq(Names) /\ Len(records') = Len(records) + 1 /\ Distinct(records')
      /\ Elements(records') = Elements(records) \cup {n}
  BY <1>1, Appended
<1>3. /\ recency' \in Seq(Names) /\ Distinct(recency')
      /\ Elements(recency') = Elements(recency) \cup {n} /\ SameOrder(recency', recency, n)
  BY <1>1, Appended
<1>4. DnsTypes'
  BY <1>1, <1>2, <1>3, Remembers, MaxNamesAssumption DEF DnsTypes
<1>5. NamesInOrder'
  BY <1>1, <1>3, NamesStayInOrder DEF DnsInv
<1>6. PlaceIn(records', n) \in DOMAIN records' /\ records'[PlaceIn(records', n)] = n
  BY <1>2, PlaceInList, LenProperties
<1>7. \A m \in Names : told[m] # 0 => told[m] \in DOMAIN records' /\ records'[told[m]] = m
  <2> SUFFICES ASSUME NEW m \in Names, told[m] # 0
               PROVE  told[m] \in DOMAIN records' /\ records'[told[m]] = m
    OBVIOUS
  <2>1. told[m] \in 1 .. Len(records) /\ records[told[m]] = m
    BY <1>1, LenProperties DEF DnsInv, AnswerHolds
  <2>2. DOMAIN records' = 1 .. Len(records) + 1
    BY <1>2, LenProperties
  <2>3. records'[told[m]] = records[told[m]]
    BY <1>1, <2>1, AppendProperties
  <2> QED
    BY <1>1, <2>1, <2>2, <2>3
<1>8. AnswerHolds'
  BY <1>1, <1>6, <1>7, AnswersStayGood
<1> QED
  BY <1>4, <1>5, <1>8 DEF DnsInv

LEMMA TailKeeps ==
    ASSUME NEW S, NEW list \in Seq(S), list # <<>>, Distinct(list)
    PROVE  /\ Tail(list) \in Seq(S) /\ Distinct(Tail(list))
           /\ Elements(Tail(list)) = Elements(list) \ {Head(list)}
           /\ Len(Tail(list)) = Len(list) - 1
           /\ \A i \in 1 .. Len(Tail(list)) : Tail(list)[i] = list[i + 1]
<1>1. PICK n \in Nat \ {0} : n = Len(list)
  BY EmptySeq
<1>2. PICK t \in Seq(S) :
         /\ t = Tail(list) /\ Len(t) = n - 1 /\ Head(list) = list[1]
         /\ \A i \in 1 .. n - 1 : t[i] = list[i + 1]
  <2>1. /\ Tail(list) \in Seq(S) /\ Len(Tail(list)) = Len(list) - 1
        /\ \A i \in 1 .. Len(Tail(list)) : Tail(list)[i] = list[i + 1]
    BY HeadTailProperties
  <2>2. Head(list) = list[1]
    OBVIOUS
  <2> QED
    BY <1>1, <2>1, <2>2
<1>3. \A i \in 1 .. n - 1 : i + 1 \in 1 .. n /\ i + 1 # 1
  BY <1>1
<1>4. Distinct(t)
  BY <1>1, <1>2, <1>3 DEF Distinct
<1>5. Elements(t) \subseteq Elements(list) \ {list[1]}
  <2>1. 1 \in 1 .. n
    BY <1>1
  <2> QED
    BY <1>1, <1>2, <1>3, <2>1 DEF Distinct, Elements
<1>6. Elements(list) \ {list[1]} \subseteq Elements(t)
  <2> SUFFICES ASSUME NEW j \in 1 .. n, list[j] # list[1]
               PROVE  list[j] \in Elements(t)
    BY <1>1 DEF Elements
  <2>1. PICK i \in 1 .. n - 1 : j = i + 1
    <3>1. j - 1 \in 1 .. n - 1 /\ j = (j - 1) + 1
      BY <1>1
    <3> QED
      BY <3>1
  <2> QED
    BY <1>2, <2>1 DEF Elements
<1> QED
  BY <1>1, <1>2, <1>4, <1>5, <1>6

(* A new name in place of the one used longest ago.                          *)
LEMMA EvictionStep ==
    ASSUME DnsInv, NEW n \in Names, n \notin Elements(records), Len(records) >= MaxNames,
           records' = [records EXCEPT ![PlaceIn(records, Head(recency))] = n],
           recency' = Append(Tail(recency), n),
           NEW a \in 0 .. MaxNames, a # 0 => a = PlaceIn(records', n), Remember(n, a)
    PROVE  DnsInv'
<1>1. /\ DnsTypes /\ records \in Seq(Names) /\ Distinct(records) /\ Len(records) \in Nat
      /\ recency \in Seq(Names) /\ Distinct(recency) /\ Elements(recency) = Elements(records)
  BY LenProperties DEF DnsInv, DnsTypes
<1>2. /\ recency # <<>> /\ Head(recency) \in Elements(records)
      /\ told'[Head(recency)] = 0
  BY HeadIsForgotten
<1>3. PICK k \in 1 .. Len(records) :
         k = PlaceIn(records, Head(recency)) /\ records[k] = Head(recency)
  BY <1>1, <1>2, PlaceInList
<1>4. /\ records' \in Seq(Names) /\ Len(records') = Len(records)
      /\ \A i \in 1 .. Len(records) : records'[i] = IF i = k THEN n ELSE records[i]
  BY <1>1, <1>3, ExceptSeq
<1>5. \A i \in 1 .. Len(records) : records[i] # n
  BY DEF Elements
<1>6. Distinct(records')
  BY <1>1, <1>4, <1>5 DEF Distinct
<1>7. Elements(records') = (Elements(records) \ {Head(recency)}) \cup {n}
  <2>1. Elements(records') \subseteq (Elements(records) \ {Head(recency)}) \cup {n}
    <3> SUFFICES ASSUME NEW i \in 1 .. Len(records), i # k
                 PROVE  records[i] \in Elements(records) /\ records[i] # Head(recency)
      BY <1>4 DEF Elements
    <3> QED
      BY <1>1, <1>3 DEF Elements, Distinct
  <2>2. (Elements(records) \ {Head(recency)}) \cup {n} \subseteq Elements(records')
    BY <1>3, <1>4 DEF Elements
  <2> QED
    BY <2>1, <2>2
<1>8. PICK t \in Seq(Names) :
         /\ t = Tail(recency) /\ Distinct(t)
         /\ Elements(t) = Elements(recency) \ {Head(recency)}
         /\ Len(t) = Len(recency) - 1
         /\ \A i \in 1 .. Len(t) : t[i] = recency[i + 1]
  <2>1. /\ Tail(recency) \in Seq(Names) /\ Distinct(Tail(recency))
        /\ Elements(Tail(recency)) = Elements(recency) \ {Head(recency)}
        /\ Len(Tail(recency)) = Len(recency) - 1
        /\ \A i \in 1 .. Len(Tail(recency)) : Tail(recency)[i] = recency[i + 1]
    BY <1>1, <1>2, TailKeeps
  <2> QED
    BY <2>1
<1>9. /\ recency' \in Seq(Names) /\ Distinct(recency')
      /\ Elements(recency') = Elements(t) \cup {n}
      /\ SameOrder(recency', t, n)
  <2>1. n \notin Elements(t)
    BY <1>1, <1>8
  <2>2. /\ Append(t, n) \in Seq(Names) /\ Distinct(Append(t, n))
        /\ Elements(Append(t, n)) = Elements(t) \cup {n} /\ SameOrder(Append(t, n), t, n)
    <3>1. Distinct(t)
      BY <1>8
    <3> QED
      BY <2>1, <3>1, Appended
  <2>3. recency' = Append(t, n)
    BY <1>8
  <2> QED
    BY <2>2, <2>3
<1>10. SameOrder(recency', recency, n)
  <2>1. \A i \in 1 .. Len(t) : i + 1 \in 1 .. Len(recency)
    BY <1>1, <1>8, LenProperties
  <2> SUFFICES ASSUME NEW i \in 1 .. Len(recency'), NEW j \in 1 .. Len(recency'), i < j
               PROVE  /\ recency'[i] # n
                      /\ \/ recency'[j] = n
                         \/ \E b, c \in 1 .. Len(recency) :
                               /\ b < c /\ recency'[i] = recency[b] /\ recency'[j] = recency[c]
                               /\ recency'[j] # n
    BY DEF SameOrder
  <2>2. recency'[i] # n
    BY <1>9 DEF SameOrder
  <2>3. CASE recency'[j] # n
    <3>1. PICK b \in 1 .. Len(t), c \in 1 .. Len(t) :
             b < c /\ recency'[i] = t[b] /\ recency'[j] = t[c]
      BY <1>9, <2>3 DEF SameOrder
    <3>2. /\ b + 1 \in 1 .. Len(recency) /\ c + 1 \in 1 .. Len(recency) /\ b + 1 < c + 1
          /\ recency'[i] = recency[b + 1] /\ recency'[j] = recency[c + 1]
      <4>1. t[b] = recency[b + 1] /\ t[c] = recency[c + 1]
        BY <1>8
      <4>2. b + 1 < c + 1
        BY <3>1
      <4> QED
        BY <2>1, <3>1, <4>1, <4>2
    <3> QED
      BY <2>2, <2>3, <3>2
  <2> QED
    BY <2>2, <2>3
<1>11. DnsTypes'
  BY <1>1, <1>4, <1>6, <1>7, <1>8, <1>9, Remembers DEF DnsTypes
<1>12. NamesInOrder'
  BY <1>1, <1>9, <1>10, NamesStayInOrder DEF DnsInv
<1>13. AnswerHolds'
  <2>1. PlaceIn(records', n) \in DOMAIN records' /\ records'[PlaceIn(records', n)] = n
    BY <1>4, <1>7, PlaceInList, LenProperties
  <2>2. \A m \in Names : told[m] # 0 => told[m] \in 1 .. Len(records) /\ records[told[m]] = m
    BY <1>1, LenProperties DEF DnsInv, AnswerHolds
  <2>3. told[n] = 0
    BY <1>5, <2>2
  <2>4. ASSUME NEW m \in Names, told[m] # 0, told'[m] # 0
        PROVE  told[m] \in DOMAIN records' /\ records'[told[m]] = m
    <3>1. told[m] # k
      BY <1>2, <1>3, <2>2, <2>4
    <3> QED
      BY <1>4, <2>2, <2>4, <3>1, LenProperties
  <2> QED
    BY <1>1, <2>1, <2>3, <2>4, AnswersStayGood
<1> QED
  BY <1>11, <1>12, <1>13 DEF DnsInv

LEMMA FindStep ==
    ASSUME DnsInv, NEW n \in Names, Find(n)
    PROVE  DnsInv'
<1>1. PICK answered \in BOOLEAN : Remember(n, IF answered THEN PlaceIn(records', n) ELSE 0)
  BY DEF Find
<1>2. records \in Seq(Names) /\ DOMAIN records = 1 .. Len(records) /\ Len(records) \in Nat
      /\ Distinct(records) /\ Len(records) <= MaxNames
  BY LenProperties DEF DnsInv, DnsTypes
<1>3. Known(n) <=> n \in Elements(records)
  BY <1>2 DEF Known, Elements
<1> DEFINE a == IF answered THEN PlaceIn(records', n) ELSE 0
<1>4. Remember(n, a) /\ (a # 0 => a = PlaceIn(records', n))
  BY <1>1
<1>5. PlaceIn(records', n) \in 1 .. MaxNames => a \in 0 .. MaxNames
  BY MaxNamesAssumption
<1> HIDE DEF a
<1>6. CASE Known(n) /\ records' = records /\ recency' = MovedToTail(recency, n)
  <2>1. PlaceIn(records', n) \in 1 .. Len(records)
    BY <1>2, <1>3, <1>6, PlaceInList
  <2>2. a \in 0 .. MaxNames
    BY <1>2, <1>5, <2>1, MaxNamesAssumption
  <2> QED
    BY <1>3, <1>4, <1>6, <2>2, UseStep
<1>7. CASE /\ ~Known(n) /\ Len(records) < MaxNames
           /\ records' = Append(records, n) /\ recency' = Append(recency, n)
  <2>1. /\ records' \in Seq(Names) /\ Len(records') = Len(records) + 1
        /\ n \in Elements(records')
    BY <1>2, <1>3, <1>7, Appended
  <2>2. PlaceIn(records', n) \in 1 .. Len(records')
    BY <2>1, PlaceInList
  <2>3. a \in 0 .. MaxNames
    BY <1>2, <1>5, <1>7, <2>1, <2>2, MaxNamesAssumption
  <2> QED
    BY <1>3, <1>4, <1>7, <2>3, NewNameStep
<1>8. CASE /\ ~Known(n) /\ Len(records) >= MaxNames
           /\ records' = [records EXCEPT ![PlaceIn(records, Head(recency))] = n]
           /\ recency' = Append(Tail(recency), n)
  <2>1. /\ recency \in Seq(Names) /\ Distinct(recency) /\ Elements(recency) = Elements(records)
    BY DEF DnsInv, DnsTypes
  <2>2. Head(recency) \in Elements(records)
    <3>1. Len(recency) = Len(records)
      BY <1>2, <2>1, ElementsCounted
    <3>2. 1 \in 1 .. Len(recency) /\ Head(recency) = recency[1]
      BY <1>2, <1>8, <2>1, <3>1, MaxNamesAssumption
    <3> QED
      BY <2>1, <3>2 DEF Elements
  <2>3. PICK k \in 1 .. Len(records) : k = PlaceIn(records, Head(recency))
    BY <1>2, <2>2, PlaceInList
  <2>4. /\ records' \in Seq(Names) /\ Len(records') = Len(records) /\ records'[k] = n
    BY <1>2, <1>8, <2>3, ExceptSeq
  <2>5. PlaceIn(records', n) \in 1 .. Len(records)
    <3>1. n \in Elements(records')
      BY <2>4 DEF Elements
    <3> QED
      BY <2>4, <3>1, PlaceInList
  <2>6. a \in 0 .. MaxNames
    BY <1>2, <1>5, <2>5, MaxNamesAssumption
  <2> QED
    BY <1>3, <1>4, <1>8, <2>6, EvictionStep
<1> QED
  BY <1>6, <1>7, <1>8 DEF Find

LEMMA EmptyDns ==
    ASSUME DnsInit
    PROVE  DnsInv
<1>1. /\ records \in Seq(Names) /\ recency \in Seq(Names)
      /\ Len(records) = 0 /\ Len(recency) = 0
  BY DEF DnsInit
<1>2. Distinct(records) /\ Distinct(recency) /\ Elements(recency) = Elements(records)
  BY <1>1 DEF Distinct, Elements
<1>3. told \in [Names -> 0 .. MaxNames] /\ since \in [Names -> SUBSET Names]
  BY MaxNamesAssumption DEF DnsInit
<1>4. DnsTypes
  BY <1>1, <1>2, <1>3, MaxNamesAssumption, FS_EmptySet DEF DnsInit, DnsTypes
<1>5. AnswerHolds /\ NamesInOrder
  BY <1>1 DEF DnsInit, AnswerHolds, NamesInOrder
<1> QED
  BY <1>4, <1>5 DEF DnsInv

LEMMA ResetStep ==
    ASSUME DnsReset
    PROVE  DnsInv'
<1>1. /\ records' \in Seq(Names) /\ recency' \in Seq(Names)
      /\ Len(records') = 0 /\ Len(recency') = 0
  BY DEF DnsReset
<1>2. Distinct(records') /\ Distinct(recency') /\ Elements(recency') = Elements(records')
  BY <1>1 DEF Distinct, Elements
<1>3. told' \in [Names -> 0 .. MaxNames] /\ since' \in [Names -> SUBSET Names]
  BY MaxNamesAssumption DEF DnsReset
<1>4. DnsTypes'
  BY <1>1, <1>2, <1>3, MaxNamesAssumption, FS_EmptySet DEF DnsReset, DnsTypes
<1>5. AnswerHolds' /\ NamesInOrder'
  BY <1>1 DEF DnsReset, AnswerHolds, NamesInOrder
<1> QED
  BY <1>4, <1>5 DEF DnsInv

-----------------------------------------------------------------------------
(* The list of the sessions.                                                 *)
SessionsInOrder ==
    \A i, j \in 1 .. Len(order) : i < j => order[j] \in newer[order[i]]

ListInv ==
    /\ order \in Seq(Sessions) /\ Distinct(order) /\ Elements(order) = sessions
    /\ count = Len(order)
    /\ newer \in [Sessions -> SUBSET Sessions]
    /\ SessionsInOrder

LEMMA OpensStep ==
    ASSUME ListInv, NEW s \in Sessions, NEW i, PacketOpens(s, i)
    PROVE  ListInv'
<1>1. /\ order' = Append(order, s) /\ count' = count + 1
      /\ sessions' = sessions \cup {s} /\ s \notin sessions
      /\ newer' = [r \in Sessions |-> IF r \in sessions THEN newer[r] \cup {s} ELSE {}]
  BY DEF PacketOpens, IoOpens
<1>2. /\ order' \in Seq(Sessions) /\ Distinct(order') /\ Len(order') = Len(order) + 1
      /\ Elements(order') = sessions' /\ SameOrder(order', order, s)
  BY <1>1, Appended DEF ListInv
<1>3. newer' \in [Sessions -> SUBSET Sessions]
  BY <1>1 DEF ListInv
<1>4. SessionsInOrder'
  <2> SUFFICES ASSUME NEW a \in 1 .. Len(order'), NEW b \in 1 .. Len(order'), a < b
               PROVE  order'[b] \in newer'[order'[a]]
    BY DEF SessionsInOrder
  <2>1. order'[a] \in sessions /\ order'[a] \in Sessions
    <3>1. order'[a] # s /\ order'[a] \in Elements(order')
      BY <1>2 DEF SameOrder, Elements
    <3> QED
      BY <1>1, <1>2, <3>1, ElementOfSeq
  <2>2. newer'[order'[a]] = newer[order'[a]] \cup {s}
    BY <1>1, <2>1
  <2>3. CASE order'[b] # s
    <3>1. PICK c \in 1 .. Len(order), d \in 1 .. Len(order) :
             c < d /\ order'[a] = order[c] /\ order'[b] = order[d]
      BY <1>2, <2>3 DEF SameOrder
    <3> QED
      BY <2>2, <3>1 DEF ListInv, SessionsInOrder
  <2> QED
    BY <2>2, <2>3
<1> QED
  BY <1>1, <1>2, <1>3, <1>4 DEF ListInv

LEMMA UpdatesStep ==
    ASSUME ListInv, NEW s \in Sessions, Updates(s)
    PROVE  ListInv'
<1>1. /\ order' = MovedToTail(order, s) /\ count' = count /\ sessions' = sessions
      /\ s \in Elements(order)
      /\ newer' = [r \in Sessions |-> IF r \in sessions \ {s} THEN newer[r] \cup {s} ELSE {}]
  BY DEF Updates, ListInv, tunnelVars, taskVars
<1>2. order \in Seq(Sessions) /\ Distinct(order)
  BY DEF ListInv
<1>3. /\ order' \in Seq(Sessions) /\ Distinct(order') /\ Len(order') = Len(order)
      /\ Elements(order') = sessions' /\ SameOrder(order', order, s)
  BY <1>1, <1>2, Moved, MovedKeeps, MovedInOrder DEF ListInv
<1>4. newer' \in [Sessions -> SUBSET Sessions]
  BY <1>1 DEF ListInv
<1>5. SessionsInOrder'
  <2> SUFFICES ASSUME NEW a \in 1 .. Len(order'), NEW b \in 1 .. Len(order'), a < b
               PROVE  order'[b] \in newer'[order'[a]]
    BY DEF SessionsInOrder
  <2>1. order'[a] \in sessions \ {s} /\ order'[a] \in Sessions
    <3>1. order'[a] # s /\ order'[a] \in Elements(order')
      BY <1>3 DEF SameOrder, Elements
    <3> QED
      BY <1>1, <1>3, <3>1, ElementOfSeq
  <2>2. newer'[order'[a]] = newer[order'[a]] \cup {s}
    BY <1>1, <2>1
  <2>3. CASE order'[b] # s
    <3>1. PICK c \in 1 .. Len(order), d \in 1 .. Len(order) :
             c < d /\ order'[a] = order[c] /\ order'[b] = order[d]
      BY <1>3, <2>3 DEF SameOrder
    <3> QED
      BY <2>2, <3>1 DEF ListInv, SessionsInOrder
  <2> QED
    BY <2>2, <2>3
<1> QED
  BY <1>1, <1>3, <1>4, <1>5 DEF ListInv

LEMMA DeletesStep ==
    ASSUME ListInv, NEW s \in Sessions, Deletes(s)
    PROVE  ListInv'
<1>1. /\ count' = count - 1 /\ sessions' = sessions \ {s}
      /\ s \in Elements(order) /\ order \in Seq(Sessions) /\ Distinct(order)
      /\ newer' = [r \in Sessions |-> IF r = s THEN {} ELSE newer[r] \ {s}]
  BY DEF Deletes, DeleteCounts, SessionEnds, ListInv
<1>2. PICK k \in 1 .. Len(order) :
         /\ order[k] = s
         /\ order' = SubSeq(order, 1, k - 1) \o SubSeq(order, k + 1, Len(order))
  BY <1>1, PlaceInList DEF Deletes
<1>3. /\ order' \in Seq(Sessions) /\ Len(order') = Len(order) - 1
      /\ Distinct(order') /\ Elements(order') = Elements(order) \ {s}
      /\ KeepsOrder(order', order, k)
  <2>1. /\ Without(order, k) \in Seq(Sessions)
        /\ Len(Without(order, k)) = Len(order) - 1
        /\ Distinct(Without(order, k))
        /\ Elements(Without(order, k)) = Elements(order) \ {order[k]}
        /\ KeepsOrder(Without(order, k), order, k)
    BY <1>1, Removed, Zenon
  <2>2. order' = Without(order, k) /\ order[k] = s
    BY <1>2 DEF Without
  <2> QED
    BY <2>1, <2>2, Zenon
<1>4. newer' \in [Sessions -> SUBSET Sessions]
  BY <1>1 DEF ListInv
<1>5. SessionsInOrder'
  <2> SUFFICES ASSUME NEW a \in 1 .. Len(order'), NEW b \in 1 .. Len(order'), a < b
               PROVE  order'[b] \in newer'[order'[a]]
    BY DEF SessionsInOrder
  <2>1. PICK c \in 1 .. Len(order), d \in 1 .. Len(order) :
           c < d /\ order'[a] = order[c] /\ order'[b] = order[d] /\ c # k /\ d # k
    <3>1. KeepsOrder(order', order, k)
      BY <1>3
    <3>2. a < b
      OBVIOUS
    <3> QED
      BY <3>1, <3>2 DEF KeepsOrder
  <2>2. order[c] # s /\ order[d] # s /\ order[c] \in Sessions
    BY <1>1, <1>2, <2>1, ElementOfSeq DEF Distinct
  <2>3. newer'[order[c]] = newer[order[c]] \ {s}
    BY <1>1, <2>2
  <2> QED
    BY <2>1, <2>2, <2>3 DEF ListInv, SessionsInOrder
<1> QED
  BY <1>1, <1>3, <1>4, <1>5 DEF ListInv

-----------------------------------------------------------------------------
TrafficInv == DnsInv /\ ListInv

LEMMA TrafficInitInv == TrafficInit => TrafficInv
<1> SUFFICES ASSUME TrafficInit PROVE TrafficInv
  OBVIOUS
<1>1. DnsInv
  BY EmptyDns DEF TrafficInit
<1>2. order \in Seq(Sessions) /\ Len(order) = 0 /\ count = 0 /\ sessions = {}
  BY DEF TrafficInit, TunnelInit
<1>3. newer \in [Sessions -> SUBSET Sessions]
  BY DEF TrafficInit
<1>4. Distinct(order) /\ Elements(order) = {} /\ SessionsInOrder
  BY <1>2 DEF Distinct, Elements, SessionsInOrder
<1> QED
  BY <1>1, <1>2, <1>3, <1>4 DEF TrafficInv, ListInv

(* All that the rest of the tunnel leaves alone.                             *)
LEMMA OtherStepKeeps ==
    OtherStep => /\ sessions' = sessions
                 /\ event' = "joinIo" \/ terminated' = terminated
  BY DEF OtherStep, MainEnter, MainStep, MainFails, InitEventFds, InitFails, InitDone,
     RunConsumesStop, RunStarts, SystemRunReturns, FiniTry, Teardown, OtherTaskStep, EventRead,
     EventClear, EventJoinsIo, EventJoinsTimer, PacketArrives, IoHandles, IoWaits, IoBreaks,
     IoRetries, IoEnds, TimerStep, TimerExpires, StopCall, StopStep, StopAcquire, StopSignal,
     StopWrite, StopSetStop, StopRelease, mainVars, taskVars, tunnelVars

LEMMA ListKept ==
    ASSUME ListInv, UNCHANGED listVars, sessions' = sessions
    PROVE  ListInv'
  BY DEF ListInv, SessionsInOrder, listVars

LEMMA DnsKept ==
    ASSUME DnsInv, UNCHANGED dnsVars
    PROVE  DnsInv'
  BY DEF DnsInv, DnsTypes, AnswerHolds, NamesInOrder, dnsVars

LEMMA TrafficStepInv == TrafficInv /\ [TrafficNext]_trafficVars => TrafficInv'
<1> SUFFICES ASSUME DnsInv, ListInv, [TrafficNext]_trafficVars PROVE DnsInv' /\ ListInv'
  BY DEF TrafficInv
<1>1. ASSUME NEW n \in Names, PacketAsks(n) PROVE DnsInv' /\ ListInv'
  <2>1. sessions' = sessions
    BY <1>1 DEF PacketAsks, IoHandles
  <2> QED
    BY <1>1, <2>1, FindStep, ListKept DEF PacketAsks
<1>2. ASSUME NEW i \in 1 .. MaxNames, PacketLooksUp(i) PROVE DnsInv' /\ ListInv'
  <2>1. sessions' = sessions
    BY <1>2 DEF PacketLooksUp, IoHandles
  <2> QED
    BY <1>2, <2>1, LookUpStep, ListKept DEF PacketLooksUp
<1>3. ASSUME NEW s \in Sessions, NEW i \in 0 .. MaxNames, PacketOpens(s, i)
      PROVE  DnsInv' /\ ListInv'
  <2>1. Addressed(i)
    BY <1>3 DEF PacketOpens
  <2>2. DnsInv'
    BY <2>1, LookUpStep, DnsKept DEF Addressed
  <2> QED
    BY <1>3, <2>2, OpensStep
<1>4. ASSUME NEW s \in Sessions, Updates(s) PROVE DnsInv' /\ ListInv'
  <2>1. UNCHANGED dnsVars
    BY <1>4 DEF Updates
  <2> QED
    BY <1>4, <2>1, UpdatesStep, DnsKept
<1>5. ASSUME NEW s \in Sessions, Deletes(s) PROVE DnsInv' /\ ListInv'
  <2>1. UNCHANGED dnsVars
    BY <1>5 DEF Deletes
  <2> QED
    BY <1>5, <2>1, DeletesStep, DnsKept
<1>6. CASE Teardown /\ DnsReset /\ UNCHANGED listVars
  <2>1. sessions' = sessions
    BY <1>6 DEF Teardown
  <2> QED
    BY <1>6, <2>1, ResetStep, ListKept
<1>7. CASE OtherStep /\ UNCHANGED <<listVars, dnsVars>>
  BY <1>7, OtherStepKeeps, ListKept, DnsKept
<1>8. CASE UNCHANGED trafficVars
  BY <1>8, ListKept, DnsKept DEF trafficVars, tunnelVars, taskVars
<1> QED
  BY <1>1, <1>2, <1>3, <1>4, <1>5, <1>6, <1>7, <1>8 DEF TrafficNext

(* An address answered for a name stays that name's until as many other      *)
(* names as there are addresses have been used, for any number of addresses. *)
THEOREM AnswersHold == TrafficSpec => []AnswerHolds
<1>1. TrafficInv => AnswerHolds
  BY DEF TrafficInv, DnsInv
<1> QED
  BY <1>1, TrafficInitInv, TrafficStepInv, PTL DEF TrafficSpec

(* The types of the mapped DNS: every name has one address and one place in  *)
(* the list, for any number of names and addresses.                          *)
THEOREM DnsTypesHold == TrafficSpec => []DnsTypeOK
<1>1. TrafficInv => DnsTypeOK
  BY ElementsCounted DEF TrafficInv, DnsInv, DnsTypes, DnsTypeOK
<1> QED
  BY <1>1, TrafficInitInv, TrafficStepInv, PTL DEF TrafficSpec

(* The list of the sessions, the counter compared with the limit and the     *)
(* sessions that are open agree.                                             *)
THEOREM ListStaysRight == TrafficSpec => []ListIsRight
<1>1. TrafficInv => ListIsRight
  BY ElementsCounted, LenProperties DEF TrafficInv, ListInv, ListIsRight, Elements
<1> QED
  BY <1>1, TrafficInitInv, TrafficStepInv, PTL DEF TrafficSpec

(* The session limit, whatever it is, only ever evicts the session after     *)
(* which all others have been used.                                          *)
LEMMA EvictionIsRight ==
    ASSUME TrafficInv, TrafficInv', [TrafficNext]_trafficVars,
           NEW e \in terminated' \ terminated, event' # "joinIo"
    PROVE  /\ MaxSessions # 0 /\ Cardinality(sessions') >= MaxSessions
           /\ sessions' \ {e} \subseteq newer'[e]
<1>1. PICK s \in Sessions, i \in 0 .. MaxNames : PacketOpens(s, i)
  BY OtherStepKeeps DEF TrafficNext, PacketAsks, PacketLooksUp, IoHandles, Updates, Deletes,
     SessionEnds, DropsMark, Teardown, trafficVars, tunnelVars, taskVars
<1>2. e \in Evicted(order', count')
  BY <1>1 DEF PacketOpens, IoOpens
<1>3. MaxSessions # 0 /\ ~(count' < MaxSessions) /\ e = Head(order')
  BY <1>2 DEF Evicted
<1>4. /\ order' \in Seq(Sessions) /\ Distinct(order') /\ Elements(order') = sessions'
      /\ count' = Len(order')
      /\ \A a, b \in 1 .. Len(order') : a < b => order'[b] \in newer'[order'[a]]
  BY DEF TrafficInv, ListInv, SessionsInOrder
<1>5. Len(order') \in Nat /\ Cardinality(sessions') = Len(order')
  BY <1>4, ElementsCounted, LenProperties
<1>6. order' # <<>>
  BY <1>1, AppendProperties DEF PacketOpens, TrafficInv, ListInv
<1>7. e = order'[1] /\ 1 \in 1 .. Len(order')
  BY <1>3, <1>4, <1>5, <1>6
<1>8. sessions' \ {e} \subseteq newer'[e]
  <2> SUFFICES ASSUME NEW j \in 1 .. Len(order'), order'[j] # e
               PROVE  order'[j] \in newer'[e]
    BY <1>4 DEF Elements
  <2>1. 1 < j
    BY <1>5, <1>7
  <2> QED
    BY <1>4, <1>7, <2>1
<1> QED
  BY <1>3, <1>4, <1>5, <1>8, MaxSessionsAssumption

THEOREM LimitEvictsLeastRecent == TrafficSpec => EvictsLeastRecent
<1>1. TrafficInv /\ TrafficInv' /\ [TrafficNext]_trafficVars =>
         [\A e \in terminated' \ terminated :
             \/ event' = "joinIo"
             \/ /\ MaxSessions # 0 /\ Cardinality(sessions') >= MaxSessions
                /\ sessions' \ {e} \subseteq newer'[e]]_trafficVars
  BY EvictionIsRight
<1> QED
  BY <1>1, TrafficInitInv, TrafficStepInv, PTL DEF TrafficSpec, EvictsLeastRecent

-----------------------------------------------------------------------------
(* With its packets the tunnel does nothing that HevTunnel does not allow.   *)
LEMMA TrafficStepIsTunnelStep ==
    ListInv /\ [TrafficNext]_trafficVars => [TunnelNext]_tunnelVars
<1> SUFFICES ASSUME ListInv, [TrafficNext]_trafficVars PROVE [TunnelNext]_tunnelVars
  OBVIOUS
<1>1. ASSUME NEW s \in Sessions, NEW i \in 0 .. MaxNames, PacketOpens(s, i)
      PROVE  TaskStep
  <2>1. order' = Append(order, s) /\ IoOpens(s, Evicted(order', count'))
    BY <1>1 DEF PacketOpens
  <2>2. Head(order') \in Sessions
    <3>1. order' \in Seq(Sessions) /\ order' # <<>>
      BY <2>1, AppendProperties DEF ListInv
    <3> QED
      BY <3>1, HeadTailProperties
  <2>3. Evicted(order', count') \in Evictions
    BY <2>2 DEF Evicted, Evictions
  <2> QED
    BY <2>1, <2>3 DEF TaskStep
<1>2. CASE \/ \E n \in Names : PacketAsks(n)
           \/ \E i \in 1 .. MaxNames : PacketLooksUp(i)
  BY <1>2 DEF PacketAsks, PacketLooksUp, TunnelNext, TaskStep
<1>3. ASSUME NEW s \in Sessions, Updates(s) PROVE UNCHANGED tunnelVars
  BY <1>3 DEF Updates
<1>4. ASSUME NEW s \in Sessions, Deletes(s) PROVE TaskStep
  BY <1>4 DEF Deletes, TaskStep
<1>5. CASE Teardown \/ OtherStep
  BY <1>5 DEF OtherStep, OtherTaskStep, TunnelNext, MainStep, TaskStep
<1>6. CASE UNCHANGED trafficVars
  BY <1>6 DEF trafficVars
<1> QED
  BY <1>1, <1>2, <1>3, <1>4, <1>5, <1>6 DEF TrafficNext, TunnelNext

THEOREM TrafficImplementsTunnel == TrafficSpec => TunnelSpec
<1>1. TrafficInit => TunnelInit
  BY DEF TrafficInit
<1>2. TrafficInv => ListInv
  BY DEF TrafficInv
<1> QED
  BY <1>1, <1>2, TrafficInitInv, TrafficStepInv, TrafficStepIsTunnelStep, PTL
     DEF TrafficSpec, TunnelSpec

(* What HevTunnelProofs proves of the tunnel holds with its packets: the     *)
(* signals reach open sockets, which never fill up, and are not lost, every  *)
(* session is told to end and lwIP's timers run while a session is open.     *)
THEOREM TunnelIsSafeUnderTraffic ==
    TrafficSpec => [](/\ WritesToOpenFds /\ SentMeansByte /\ FewBytesInFlight
                      /\ NoSessionLeftBehind /\ TimersRunForSessions)
  BY TrafficImplementsTunnel, SignalsReachOpenFds, SignalIsNotLost, EverySessionIsTerminated,
     TimersKeepRunning, SocketNeverFills, PTL
=============================================================================
