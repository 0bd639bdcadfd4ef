--------------------------- MODULE NngCoreProofs ---------------------------
(***************************************************************************)
(* Proofs about the parts of nng's core that the plugin's sockets rest on. *)
(*                                                                         *)
(* NngAio, for any aios, threads, timeouts and bounds: the types, that an  *)
(* operation is called back once, and that a released aio is used by       *)
(* nobody.  NngEndpoint, for any number of pipes in memory: the types,     *)
(* that a dialer does one thing at a time, that what is destroyed is held  *)
(* by nobody, that the dialer stops only after a greeting was cut off, and *)
(* that nothing is left that uses a freed socket or endpoint.              *)
(***************************************************************************)
EXTENDS NngAio, NngEndpoint, FiniteSetTheorems, SequenceTheorems,
        WellFoundedInduction, TLAPS

(* Queues that hold nothing twice.                                         *)

LEMMA Appended ==
    ASSUME NEW S, NEW q \in Seq(S), NEW x \in S, IsInjective(q), x \notin ToSet(q)
    PROVE  /\ Append(q, x) \in Seq(S) /\ IsInjective(Append(q, x))
           /\ ToSet(Append(q, x)) = ToSet(q) \cup {x}
           /\ q \o <<x>> = Append(q, x)
  <1>1. Append(q, x) \in Seq(S) /\ q \o <<x>> = Append(q, x) OBVIOUS
  <1>2. \A i \in DOMAIN q : q[i] # x BY DEF ToSet
  <1>3. IsInjective(Append(q, x)) BY <1>2 DEF IsInjective
  <1>4. ToSet(Append(q, x)) = ToSet(q) \cup {x}
    <2>1. DOMAIN Append(q, x) = 1..Len(q) + 1 /\ Append(q, x)[Len(q) + 1] = x OBVIOUS
    <2>2. DOMAIN q = 1..Len(q) /\ Len(q) \in Nat /\ \A i \in 1..Len(q) : Append(q, x)[i] = q[i]
      OBVIOUS
    <2>3. \A i \in 1..Len(q) + 1 : i = Len(q) + 1 \/ i \in 1..Len(q) BY <2>2
    <2>4. Len(q) + 1 \in 1..Len(q) + 1 /\ \A i \in 1..Len(q) : i \in 1..Len(q) + 1 BY <2>2
    <2>5. ASSUME NEW y \in ToSet(Append(q, x)) PROVE y \in ToSet(q) \cup {x}
      <3>1. PICK i \in 1..Len(q) + 1 : Append(q, x)[i] = y BY <2>1 DEF ToSet
      <3> QED BY <2>1, <2>2, <2>3, <3>1 DEF ToSet
    <2>6. ASSUME NEW y \in ToSet(q) \cup {x} PROVE y \in ToSet(Append(q, x))
      <3>1. PICK i \in 1..Len(q) + 1 : Append(q, x)[i] = y BY <2>1, <2>2, <2>4 DEF ToSet
      <3> QED BY <2>1, <3>1 DEF ToSet
    <2> QED BY <2>5, <2>6
  <1> QED BY <1>1, <1>3, <1>4

\* The first is gone from the rest of a queue.
LEMMA Taken ==
    ASSUME NEW S, NEW q \in Seq(S), q # <<>>, IsInjective(q)
    PROVE  /\ Tail(q) \in Seq(S) /\ IsInjective(Tail(q))
           /\ Head(q) \in ToSet(q) /\ Head(q) \in S
           /\ ToSet(Tail(q)) = ToSet(q) \ {Head(q)}
  <1>1. Tail(q) \in Seq(S) /\ Head(q) = q[1] /\ 1 \in DOMAIN q OBVIOUS
  <1>2. \A i \in DOMAIN Tail(q) : i + 1 \in DOMAIN q /\ Tail(q)[i] = q[i + 1] OBVIOUS
  <1>3. IsInjective(Tail(q)) BY <1>2 DEF IsInjective
  <1>4. Head(q) \in ToSet(q) /\ Head(q) \in S BY <1>1 DEF ToSet
  <1>5. ASSUME NEW y \in ToSet(q), y # Head(q) PROVE y \in ToSet(Tail(q))
    <2>1. PICK i \in DOMAIN q : q[i] = y BY DEF ToSet
    <2>2. i # 1 /\ i - 1 \in DOMAIN Tail(q) /\ Tail(q)[i - 1] = y BY <1>1, <1>5, <2>1
    <2> QED BY <2>2 DEF ToSet
  <1>6. ASSUME NEW y \in ToSet(Tail(q)) PROVE y \in ToSet(q) /\ y # Head(q)
    <2>1. PICK i \in DOMAIN Tail(q) : Tail(q)[i] = y BY DEF ToSet
    <2> QED BY <1>1, <1>2, <2>1 DEF ToSet, IsInjective
  <1> QED BY <1>1, <1>3, <1>4, <1>5, <1>6

-----------------------------------------------------------------------------
(* Lists of aios.                                                          *)

LEMMA ListedIs ==
    ASSUME NEW S, NEW q \in Seq(S), NEW b
    PROVE  Listed(q, b) <=> \E i \in 1 .. Len(q) : q[i] = b
  BY DEF Listed, ToSet

\* The three operations on a list of aios: what is in it afterwards.
LEMMA AppendList ==
    ASSUME NEW q \in Seq(Aios), NEW a \in Aios, IsInjective(q), ~Listed(q, a)
    PROVE  /\ Append(q, a) \in Seq(Aios) /\ IsInjective(Append(q, a))
           /\ \A b : Listed(Append(q, a), b) <=> Listed(q, b) \/ b = a
  BY Appended DEF Listed

LEMMA TailList ==
    ASSUME NEW q \in Seq(Aios), q # <<>>, IsInjective(q)
    PROVE  /\ Head(q) \in Aios /\ Listed(q, Head(q))
           /\ Tail(q) \in Seq(Aios) /\ IsInjective(Tail(q))
           /\ \A b : Listed(Tail(q), b) <=> Listed(q, b) /\ b # Head(q)
  BY Taken DEF Listed

\* The two halves of a queue that is cut after n.
LEMMA Cut ==
    ASSUME NEW S, NEW q \in Seq(S), NEW n \in 0 .. Len(q)
    PROVE  LET l == SubSeq(q, 1, n)
               r == SubSeq(q, n + 1, Len(q))
           IN  /\ l \in Seq(S) /\ Len(l) = n /\ \A i \in 1 .. n : l[i] = q[i]
               /\ r \in Seq(S) /\ Len(r) = Len(q) - n
               /\ \A i \in 1 .. Len(q) - n : r[i] = q[n + i]
  <1> DEFINE l == SubSeq(q, 1, n)
             r == SubSeq(q, n + 1, Len(q))
  <1>1. 1 \in Int /\ n \in Int /\ n + 1 \in Int /\ Len(q) \in Int /\ Len(q) \in Nat OBVIOUS
  <1>2. (\A i \in 1 .. n : q[i] \in S) /\ \A i \in n + 1 .. Len(q) : q[i] \in S OBVIOUS
  <1>3. /\ l \in Seq(S) /\ Len(l) = IF 1 <= n THEN n - 1 + 1 ELSE 0
        /\ \A i \in 1 .. n - 1 + 1 : l[i] = q[1 + i - 1]
    BY <1>1, <1>2, SubSeqProperties
  <1>4. /\ r \in Seq(S) /\ Len(r) = IF n + 1 <= Len(q) THEN Len(q) - (n + 1) + 1 ELSE 0
        /\ \A i \in 1 .. Len(q) - (n + 1) + 1 : r[i] = q[n + 1 + i - 1]
    BY <1>1, <1>2, SubSeqProperties
  <1> HIDE DEF l, r
  <1>5. Len(l) = n /\ \A i \in 1 .. n : l[i] = q[i]
    <2>1. n - 1 + 1 = n /\ (1 <= n \/ n = 0) BY <1>1
    <2>2. Len(l) = n BY <1>3, <2>1
    <2>3. ASSUME NEW i \in 1 .. n PROVE l[i] = q[i]
      <3>1. i \in 1 .. n - 1 + 1 /\ 1 + i - 1 = i BY <1>1, <2>1
      <3> QED BY <1>3, <3>1
    <2> QED BY <2>2, <2>3
  <1>6. Len(r) = Len(q) - n
    <2>1. n < Len(q) \/ n = Len(q) BY <1>1
    <2> QED BY <1>1, <1>4, <2>1
  <1>7. ASSUME NEW i \in 1 .. Len(q) - n PROVE r[i] = q[n + i]
    <2>1. i \in 1 .. Len(q) - (n + 1) + 1 /\ n + 1 + i - 1 = n + i BY <1>1
    <2>2. r[i] = q[n + 1 + i - 1] BY <1>4, <2>1
    <2> QED BY <2>1, <2>2
  <1> QED BY <1>7, <1>3, <1>4, <1>5, <1>6 DEF l, r

\* nni_list_node_remove takes one place out of a list and leaves the order of the others.
LEMMA WithoutPlaces ==
    ASSUME NEW q \in Seq(Aios), NEW a, Listed(q, a)
    PROVE  \E k \in 1 .. Len(q) :
              /\ q[k] = a
              /\ Without(q, a) \in Seq(Aios) /\ Len(Without(q, a)) = Len(q) - 1
              /\ \A i \in 1 .. Len(q) - 1 : Without(q, a)[i] = IF i < k THEN q[i] ELSE q[i + 1]
  <1> DEFINE k == CHOOSE i \in DOMAIN q : q[i] = a
             l == SubSeq(q, 1, k - 1)
             r == SubSeq(q, k + 1, Len(q))
             s == l \o r
  <1>1. k \in 1 .. Len(q) /\ q[k] = a
    <2>1. \E i \in DOMAIN q : q[i] = a BY ListedIs
    <2> QED BY <2>1
  <1>2. Without(q, a) = s BY DEF Without, RemoveAt
  <1> HIDE DEF k
  <1>3. k - 1 \in 0 .. Len(q) /\ k \in 0 .. Len(q) BY <1>1
  <1>4. /\ l \in Seq(Aios) /\ Len(l) = k - 1 /\ \A i \in 1 .. k - 1 : l[i] = q[i]
        /\ r \in Seq(Aios) /\ Len(r) = Len(q) - k /\ \A i \in 1 .. Len(q) - k : r[i] = q[k + i]
    BY <1>3, Cut
  <1> HIDE DEF l, r
  <1>5. /\ s \in Seq(Aios) /\ Len(s) = Len(q) - 1
        /\ \A i \in 1 .. Len(q) - 1 : s[i] = IF i < k THEN q[i] ELSE q[i + 1]
    <2>1. /\ s \in Seq(Aios) /\ Len(s) = Len(l) + Len(r)
          /\ \A i \in 1 .. Len(l) + Len(r) : s[i] = IF i <= Len(l) THEN l[i] ELSE r[i - Len(l)]
      BY <1>4, ConcatProperties
    <2> HIDE DEF s
    <2>2. Len(s) = Len(q) - 1 BY <1>1, <1>4, <2>1
    <2>3. ASSUME NEW i \in 1 .. Len(q) - 1 PROVE s[i] = IF i < k THEN q[i] ELSE q[i + 1]
      <3>1. i \in 1 .. Len(l) + Len(r) BY <1>1, <1>4
      <3>2. CASE i < k BY <1>1, <1>4, <2>1, <3>1, <3>2
      <3>3. CASE ~(i < k)
        <4>1. s[i] = r[i - (k - 1)] /\ i - (k - 1) \in 1 .. Len(q) - k
          BY <1>1, <1>4, <2>1, <3>1, <3>3
        <4>2. k + (i - (k - 1)) = i + 1 BY <1>1
        <4> QED BY <1>4, <3>3, <4>1, <4>2
      <3> QED BY <3>2, <3>3
    <2> QED BY <2>1, <2>2, <2>3
  <1> HIDE DEF s
  <1> QED BY <1>1, <1>2, <1>5

LEMMA WithoutList ==
    ASSUME NEW q \in Seq(Aios), NEW a, IsInjective(q)
    PROVE  /\ Without(q, a) \in Seq(Aios) /\ IsInjective(Without(q, a))
           /\ \A b : Listed(Without(q, a), b) <=> Listed(q, b) /\ b # a
  <1>1. CASE ~Listed(q, a) BY <1>1 DEF Without
  <1>2. CASE Listed(q, a)
    <2> DEFINE s == Without(q, a)
    <2>1. PICK k \in 1 .. Len(q) :
             /\ q[k] = a
             /\ s \in Seq(Aios) /\ Len(s) = Len(q) - 1
             /\ \A i \in 1 .. Len(q) - 1 : s[i] = IF i < k THEN q[i] ELSE q[i + 1]
      BY <1>2, WithoutPlaces
    <2>5. /\ s \in Seq(Aios) /\ Len(s) = Len(q) - 1
          /\ \A i \in 1 .. Len(q) - 1 : s[i] = IF i < k THEN q[i] ELSE q[i + 1]
      BY <2>1
    <2> HIDE DEF s
    <2>6. \A i, j \in 1 .. Len(q) : q[i] = q[j] => i = j BY DEF IsInjective
    <2>7. IsInjective(s)
      <3>1. DOMAIN s = 1 .. Len(q) - 1 BY <2>5
      <3>2. \A i, j \in 1 .. Len(q) - 1 : s[i] = s[j] => i = j BY <2>1, <2>5, <2>6, SMTT(30)
      <3> QED BY <3>1, <3>2 DEF IsInjective
    <2>8. ASSUME NEW b PROVE Listed(s, b) <=> Listed(q, b) /\ b # a
      <3>1. Listed(s, b) <=> \E i \in 1 .. Len(q) - 1 : s[i] = b BY <2>5, ListedIs
      <3>2. Listed(q, b) <=> \E i \in 1 .. Len(q) : q[i] = b BY ListedIs
      <3>3. ASSUME NEW i \in 1 .. Len(q) - 1, s[i] = b PROVE Listed(q, b) /\ b # a
        <4>1. CASE i < k
          <5>1. i \in 1 .. Len(q) /\ q[i] = b /\ i # k BY <2>5, <3>3, <4>1
          <5> QED BY <2>1, <2>6, <3>2, <5>1
        <4>2. CASE ~(i < k)
          <5>1. i + 1 \in 1 .. Len(q) /\ q[i + 1] = b /\ i + 1 # k BY <2>1, <2>5, <3>3, <4>2
          <5> QED BY <2>1, <2>6, <3>2, <5>1
        <4> QED BY <4>1, <4>2
      <3>4. ASSUME NEW i \in 1 .. Len(q), q[i] = b, b # a PROVE \E j \in 1 .. Len(q) - 1 : s[j] = b
        <4>1. CASE i < k
          <5>1. i \in 1 .. Len(q) - 1 BY <2>1, <4>1
          <5> QED BY <2>5, <3>4, <4>1, <5>1
        <4>2. CASE ~(i < k)
          <5>1. i - 1 \in 1 .. Len(q) - 1 /\ ~(i - 1 < k) BY <2>1, <3>4, <4>2
          <5>2. s[i - 1] = q[(i - 1) + 1] BY <2>5, <5>1
          <5> QED BY <3>4, <5>1, <5>2
        <4> QED BY <4>1, <4>2
      <3> QED BY <3>1, <3>2, <3>3, <3>4
    <2> QED BY <2>5, <2>7, <2>8 DEF s
  <1> QED BY <1>1, <1>2

\* A set of numbers up to n has a greatest one.
LEMMA Greatest ==
    ASSUME NEW n \in Nat, NEW T, T \subseteq 0 .. n, T # {}
    PROVE  Max(T) \in T /\ \A x \in T : Max(T) >= x
  <1> DEFINE D == {n - x : x \in T}
  <1>1. D \subseteq Nat /\ D # {}
    <2>1. \A x \in T : x \in 0 .. n OBVIOUS
    <2>2. \A x \in T : n - x \in Nat BY <2>1
    <2> QED BY <2>2
  <1>2. PICK d \in D : \A y \in D : <<y, d>> \notin OpToRel(<, Nat)
    BY <1>1, NatLessThanWellFounded, WFMin
  <1>3. \A y \in D : ~(y < d)
    <2> HIDE DEF D
    <2> QED BY <1>1, <1>2 DEF OpToRel
  <1>4. PICK x \in T : d = n - x BY <1>2
  <1>5. \A y \in T : x >= y
    <2> TAKE y \in T
    <2>1. n - y \in D OBVIOUS
    <2>2. ~(n - y < n - x) BY <1>3, <1>4, <2>1
    <2>3. x \in Int /\ y \in Int OBVIOUS
    <2> QED BY <2>2, <2>3
  <1> QED BY <1>5 DEF Max

\* nni_aio_expire_add cuts the list behind the last deadline that is not later.
LEMMA ExpireAddPlaces ==
    ASSUME expireList \in Seq(Aios), NEW a \in Aios, NEW e
    PROVE  \E n \in 0 .. Len(expireList) :
              /\ n = 0 \/ aio[expireList[n]].expire <= e
              /\ \A i \in n + 1 .. Len(expireList) : ~(aio[expireList[i]].expire <= e)
              /\ ExpireAdd(a, e) \in Seq(Aios) /\ Len(ExpireAdd(a, e)) = Len(expireList) + 1
              /\ \A i \in 1 .. Len(expireList) + 1 :
                    ExpireAdd(a, e)[i] = IF i <= n THEN expireList[i]
                                         ELSE IF i = n + 1 THEN a ELSE expireList[i - 1]
  <1> DEFINE q == expireList
             T == {0} \cup {i \in DOMAIN q : aio[q[i]].expire <= e}
             n == Max(T)
             l == SubSeq(q, 1, n)
             r == SubSeq(q, n + 1, Len(q))
             s == (l \o <<a>>) \o r
  <1>1. ExpireAdd(a, e) = s BY DEF ExpireAdd
  <1>2. /\ n \in 0 .. Len(q)
        /\ n = 0 \/ aio[q[n]].expire <= e
        /\ \A i \in n + 1 .. Len(q) : ~(aio[q[i]].expire <= e)
    <2>1. T \subseteq 0 .. Len(q) /\ T # {} /\ Len(q) \in Nat OBVIOUS
    <2>2. \A i \in T : i = 0 \/ aio[q[i]].expire <= e OBVIOUS
    <2>3. \A i \in 1 .. Len(q) : aio[q[i]].expire <= e => i \in T OBVIOUS
    <2> HIDE DEF T
    <2>4. n \in T /\ \A i \in T : n >= i BY <2>1, Greatest
    <2>5. n \in 0 .. Len(q) /\ (n = 0 \/ aio[q[n]].expire <= e) BY <2>1, <2>2, <2>4
    <2> HIDE DEF n
    <2>6. \A i \in n + 1 .. Len(q) : ~(aio[q[i]].expire <= e)
      <3> TAKE i \in n + 1 .. Len(q)
      <3>1. i \in 1 .. Len(q) /\ ~(n >= i) BY <2>1, <2>5
      <3> QED BY <2>3, <2>4, <3>1
    <2> QED BY <2>5, <2>6
  <1> HIDE DEF T, n
  <1>3. q \in Seq(Aios) /\ Len(q) \in Nat OBVIOUS
  <1> HIDE DEF q
  <1>4. /\ l \in Seq(Aios) /\ Len(l) = n /\ \A i \in 1 .. n : l[i] = q[i]
        /\ r \in Seq(Aios) /\ Len(r) = Len(q) - n /\ \A i \in 1 .. Len(q) - n : r[i] = q[n + i]
    BY <1>2, <1>3, Cut
  <1> HIDE DEF l, r
  <1> DEFINE m == l \o <<a>>
  <1>5. /\ m \in Seq(Aios) /\ Len(m) = n + 1
        /\ \A i \in 1 .. n + 1 : m[i] = IF i <= n THEN q[i] ELSE a
    <2>1. <<a>> \in Seq(Aios) /\ Len(<<a>>) = 1 /\ <<a>>[1] = a OBVIOUS
    <2> DEFINE one == <<a>>
    <2> HIDE DEF one
    <2>2. one \in Seq(Aios) /\ Len(one) = 1 /\ one[1] = a BY <2>1 DEF one
    <2>3. /\ l \o one \in Seq(Aios) /\ Len(l \o one) = Len(l) + Len(one)
          /\ \A i \in 1 .. Len(l) + Len(one) :
                (l \o one)[i] = IF i <= Len(l) THEN l[i] ELSE one[i - Len(l)]
      BY <1>4, <2>2, ConcatProperties
    <2>4. m = l \o one BY DEF one
    <2> HIDE DEF m
    <2> QED BY <1>2, <1>3, <1>4, <2>2, <2>3, <2>4
  <1> HIDE DEF m
  <1>6. /\ s \in Seq(Aios) /\ Len(s) = Len(q) + 1
        /\ \A i \in 1 .. Len(q) + 1 :
              s[i] = IF i <= n THEN q[i] ELSE IF i = n + 1 THEN a ELSE q[i - 1]
    <2>0. s = m \o r BY DEF m
    <2> HIDE DEF s
    <2>1. /\ s \in Seq(Aios) /\ Len(s) = Len(m) + Len(r)
          /\ \A i \in 1 .. Len(m) + Len(r) : s[i] = IF i <= Len(m) THEN m[i] ELSE r[i - Len(m)]
      <3>1. /\ m \o r \in Seq(Aios) /\ Len(m \o r) = Len(m) + Len(r)
            /\ \A i \in 1 .. Len(m) + Len(r) :
                  (m \o r)[i] = IF i <= Len(m) THEN m[i] ELSE r[i - Len(m)]
        BY <1>4, <1>5, ConcatProperties, ZenonT(60)
      <3> QED BY <2>0, <3>1
    <2>2. Len(s) = Len(q) + 1 BY <1>2, <1>3, <1>4, <1>5, <2>1
    <2>3. ASSUME NEW i \in 1 .. Len(q) + 1
          PROVE  s[i] = IF i <= n THEN q[i] ELSE IF i = n + 1 THEN a ELSE q[i - 1]
      <3>1. i \in 1 .. Len(m) + Len(r) BY <1>2, <1>3, <1>4, <1>5
      <3>2. CASE i <= n + 1 BY <1>2, <1>3, <1>5, <2>1, <3>1, <3>2
      <3>3. CASE ~(i <= n + 1)
        <4>1. s[i] = r[i - (n + 1)] /\ i - (n + 1) \in 1 .. Len(q) - n
          BY <1>2, <1>3, <1>5, <2>1, <3>1, <3>3
        <4>2. n + (i - (n + 1)) = i - 1 BY <1>2
        <4>3. r[i - (n + 1)] = q[n + (i - (n + 1))] BY <1>4, <4>1
        <4>4. s[i] = q[i - 1] BY <4>1, <4>2, <4>3
        <4> QED BY <1>2, <3>3, <4>4
      <3> QED BY <3>2, <3>3, <1>2
    <2> QED BY <2>1, <2>2, <2>3
  <1> HIDE DEF s
  <1> QED BY <1>1, <1>2, <1>6 DEF q

\* nni_aio_expire_add puts an aio into the list once, wherever its deadline belongs.
LEMMA ExpireAddList ==
    ASSUME expireList \in Seq(Aios), IsInjective(expireList), NEW a \in Aios, NEW e,
           ~Listed(expireList, a)
    PROVE  /\ ExpireAdd(a, e) \in Seq(Aios) /\ IsInjective(ExpireAdd(a, e))
           /\ \A b : Listed(ExpireAdd(a, e), b) <=> Listed(expireList, b) \/ b = a
  <1> DEFINE q == expireList
             s == ExpireAdd(a, e)
  <1>3. q \in Seq(Aios) /\ Len(q) \in Nat OBVIOUS
  <1>a. PICK n \in 0 .. Len(q) :
           /\ s \in Seq(Aios) /\ Len(s) = Len(q) + 1
           /\ \A i \in 1 .. Len(q) + 1 :
                 s[i] = IF i <= n THEN q[i] ELSE IF i = n + 1 THEN a ELSE q[i - 1]
    BY ExpireAddPlaces
  <1>2. n \in 0 .. Len(q) OBVIOUS
  <1>6. /\ s \in Seq(Aios) /\ Len(s) = Len(q) + 1
        /\ \A i \in 1 .. Len(q) + 1 :
              s[i] = IF i <= n THEN q[i] ELSE IF i = n + 1 THEN a ELSE q[i - 1]
    BY <1>a
  <1> HIDE DEF q, s
  <1>7. \A i \in 1 .. Len(q) : q[i] # a BY <1>3, ListedIs DEF q
  <1>8. \A i, j \in 1 .. Len(q) : q[i] = q[j] => i = j BY <1>3 DEF IsInjective, q
  <1>9. IsInjective(s)
    <2>1. DOMAIN s = 1 .. Len(q) + 1 BY <1>6
    <2>2. \A i \in 1 .. Len(q) + 1 :
            \/ i <= n /\ i \in 1 .. Len(q) /\ s[i] = q[i]
            \/ i = n + 1 /\ s[i] = a
            \/ i > n + 1 /\ i - 1 \in 1 .. Len(q) /\ s[i] = q[i - 1]
      BY <1>2, <1>3, <1>6
    <2>3. ASSUME NEW i \in 1 .. Len(q) + 1, NEW j \in 1 .. Len(q) + 1, s[i] = s[j] PROVE i = j
      <3>1. CASE i <= n BY <1>2, <1>7, <1>8, <2>2, <2>3, <3>1
      <3>2. CASE i = n + 1 BY <1>2, <1>7, <1>8, <2>2, <2>3, <3>2
      <3>3. CASE i > n + 1 BY <1>2, <1>7, <1>8, <2>2, <2>3, <3>3
      <3> QED BY <3>1, <3>2, <3>3, <1>2
    <2> QED BY <2>1, <2>3 DEF IsInjective
  <1>10. ASSUME NEW b PROVE Listed(s, b) <=> Listed(q, b) \/ b = a
    <2>1. Listed(s, b) <=> \E i \in 1 .. Len(q) + 1 : s[i] = b BY <1>6, ListedIs
    <2>2. Listed(q, b) <=> \E i \in 1 .. Len(q) : q[i] = b BY <1>3, ListedIs
    <2>3. ASSUME NEW i \in 1 .. Len(q) + 1, s[i] = b PROVE Listed(q, b) \/ b = a
      <3>1. \/ i \in 1 .. Len(q) /\ s[i] = q[i]
            \/ s[i] = a
            \/ i - 1 \in 1 .. Len(q) /\ s[i] = q[i - 1]
        BY <1>2, <1>3, <1>6
      <3> QED BY <2>2, <2>3, <3>1
    <2>4. ASSUME NEW i \in 1 .. Len(q), q[i] = b PROVE \E j \in 1 .. Len(q) + 1 : s[j] = b
      <3>1. CASE i <= n
        <4>1. i \in 1 .. Len(q) + 1 BY <1>3
        <4> QED BY <1>6, <2>4, <3>1, <4>1
      <3>2. CASE ~(i <= n)
        <4>1. i + 1 \in 1 .. Len(q) + 1 /\ ~(i + 1 <= n) /\ i + 1 # n + 1 BY <1>2, <1>3, <3>2
        <4>2. s[i + 1] = q[(i + 1) - 1] BY <1>6, <4>1
        <4> QED BY <2>4, <4>1, <4>2
      <3> QED BY <3>1, <3>2
    <2>5. s[n + 1] = a /\ n + 1 \in 1 .. Len(q) + 1 BY <1>2, <1>3, <1>6
    <2> QED BY <2>1, <2>2, <2>3, <2>4, <2>5
  <1> QED BY <1>6, <1>9, <1>10 DEF q, s

-----------------------------------------------------------------------------
(* The inductive invariant.                                                *)

Runners == Workers \cup {Poller}

\* Where an operation of a is: on the provider's list, asleep, between begin and
\* schedule on a thread, or finished and in the task queue.
Waits(a)        == Listed(waiting, a)
Sleeps(a)       == aio[a].sleep
Schedules(t, a) == thr[t].at = "sched" /\ thr[t].aio = a
InQueue(a)       == Listed(tasks, a)

\* A thread that runs a's callback, and may still begin or release.
Runs(t, a) == t \in Runners /\ thr[t].aio = a /\ thr[t].at \in {"cb", "fn", "finiExpire", "finiTask"}

Works(t, a) == Schedules(t, a) \/ Runs(t, a)

\* The threads inside a callback of a.
CallbackThreads(a) == {t \in Runners : thr[t].aio = a}

Prepared(a) == Waits(a) \/ Sleeps(a) \/ \E t \in Threads : Schedules(t, a)
Pending(a)  == Prepared(a) \/ InQueue(a)
Open(a)     == IF Pending(a) THEN 1 ELSE 0

Releasing(t) == thr[t].at \in {"finiExpire", "finiTask"} \/ (thr[t].at = "fn" /\ thr[t].next = "finiExpire")

\* What each kind of thread may be at.
ThreadInv ==
    /\ \A t \in Users :
        /\ thr[t].at \in {"idle", "sched", "fn", "wait", "finiExpire", "finiTask", "gone"}
        /\ thr[t].at \notin {"idle", "gone"} => thr[t].aio # None
        /\ thr[t].aio # None => UserOf[thr[t].aio] = t
        /\ thr[t].at = "fn" => thr[t].next \in {"idle", "wait", "finiExpire"}
    /\ \A t \in Runners :
        /\ thr[t].at \in {"idle", "cb", "sched", "ret", "fn", "finiExpire", "finiTask"}
        /\ thr[t].at = "idle" <=> thr[t].aio = None
        /\ thr[t].at = "fn" => thr[t].next = "finiExpire"
        /\ thr[t].at \in {"fn", "finiExpire", "finiTask"} => t \in Workers
    /\ thr[Expirer].at \in {"idle", "fn", "expired"}
    /\ expireAio = thr[Expirer].aio
    /\ thr[Expirer].at = "idle" <=> expireAio = None
    /\ thr[Expirer].at = "fn" => thr[Expirer].next = "expired"

\* The lists hold nothing twice; the timer's list and the cancel functions are of
\* operations that wait or sleep.
ListInv ==
    /\ IsInjective(waiting) /\ IsInjective(tasks) /\ IsInjective(expireList)
    /\ \A a \in Aios :
        /\ Listed(expireList, a) => Waits(a) \/ Sleeps(a)
        /\ aio[a].cancel # "none" => Waits(a) \/ Sleeps(a)

\* An operation is in one place at a time.
Placed(a) ==
    /\ ~(Waits(a) /\ Sleeps(a)) /\ ~(Waits(a) /\ InQueue(a)) /\ ~(Sleeps(a) /\ InQueue(a))
    /\ \A t \in Threads : Works(t, a) => ~Waits(a) /\ ~Sleeps(a) /\ ~InQueue(a)
    /\ \A t, s \in Threads : Works(t, a) /\ Works(s, a) => t = s

\* The counters agree with where the operations are.
Counted(a) ==
    /\ task[a].prep <=> Prepared(a)
    /\ begun[a] = called[a] + Open(a)
    /\ IsFiniteSet(CallbackThreads(a))
    /\ task[a].busy = Cardinality(CallbackThreads(a)) + Open(a)

PlaceInv == \A a \in Aios : Placed(a) /\ Counted(a)

\* Who releases an aio has stopped it, and is alone with it; the timer lets go.
FreeInv ==
    /\ \A t \in Threads : Releasing(t) =>
        LET a == thr[t].aio IN
        /\ aio[a].stop /\ aio[a].cancel = "none" /\ a \notin freed
        /\ thr[t].at = "finiTask" => expireAio # a
        /\ t \in Workers => thr[UserOf[a]].at = "gone"
    /\ \A a \in freed :
        /\ ~Pending(a) /\ expireAio # a
        /\ thr[UserOf[a]].at = "gone"
        /\ \A t \in Threads : thr[t].aio = a => thr[t].at \in {"idle", "ret", "gone"}

\* The bound on the clock leaves room for what is about to be scheduled.
ClockInv ==
    \A t \in Threads : thr[t].at = "sched" =>
        LET d == aio[thr[t].aio].timeout IN d \in Nat => now + d <= MaxTime

AioInv == AioTypeOK /\ ThreadInv /\ ListInv /\ PlaceInv /\ FreeInv /\ ClockInv
-----------------------------------------------------------------------------
(* What a step that is about one aio leaves alone.                         *)

OnlyAbout(a) ==
    /\ \A b \in Aios : b # a =>
        /\ aio'[b] = aio[b] /\ task'[b] = task[b]
        /\ begun'[b] = begun[b] /\ called'[b] = called[b]
        /\ Listed(waiting', b) <=> Listed(waiting, b)
        /\ Listed(tasks', b) <=> Listed(tasks, b)
        /\ Listed(expireList', b) <=> Listed(expireList, b)
    /\ \A t \in Threads : thr'[t] = thr[t] \/ (thr[t].aio \in {a, None} /\ thr'[t].aio \in {a, None})

\* The threads are of three kinds; None is none of them and no aio.
LEMMA Sorts ==
    /\ None \notin Aios /\ None \notin Users
    /\ Runners \subseteq Threads /\ Users \subseteq Threads /\ Expirer \in Threads /\ Poller \in Runners
    /\ Users \cap Runners = {} /\ Expirer \notin Users /\ Expirer \notin Runners /\ Poller \notin Workers
    /\ Workers \subseteq Runners
    /\ \A t \in Threads : t \in Users \/ t \in Runners \/ t = Expirer
    /\ \A a \in Aios : UserOf[a] \in Users /\ UserOf[a] \in Threads
  BY AioAssumption DEF Threads, Runners

\* The parts that speak of one aio at a time are untouched for all others.
LEMMA OthersKept ==
    ASSUME NEW a \in Aios, NEW b \in Aios, b # a, OnlyAbout(a)
    PROVE  /\ Waits(b)' <=> Waits(b)
           /\ Sleeps(b)' = Sleeps(b)
           /\ InQueue(b)' <=> InQueue(b)
           /\ \A t \in Threads : (Schedules(t, b)' <=> Schedules(t, b)) /\ (Works(t, b)' <=> Works(t, b))
           /\ CallbackThreads(b)' = CallbackThreads(b)
           /\ Prepared(b)' = Prepared(b) /\ Pending(b)' = Pending(b)
  <1>1. \A t \in Threads : thr'[t] = thr[t] \/ (thr[t].aio # b /\ thr'[t].aio # b)
    BY Sorts DEF OnlyAbout
  <1>2. Waits(b)' <=> Waits(b) BY DEF OnlyAbout, Waits
  <1>3. Sleeps(b)' = Sleeps(b) BY DEF OnlyAbout, Sleeps
  <1>4. InQueue(b)' <=> InQueue(b) BY DEF OnlyAbout, InQueue
  <1>5. \A t \in Threads : Schedules(t, b)' <=> Schedules(t, b) BY <1>1 DEF Schedules
  <1>6. \A t \in Threads : Runs(t, b)' <=> Runs(t, b) BY <1>1 DEF Runs
  <1>7. \A t \in Threads : Works(t, b)' <=> Works(t, b) BY <1>5, <1>6 DEF Works
  <1>8. CallbackThreads(b)' = CallbackThreads(b) BY <1>1, Sorts DEF CallbackThreads
  <1>9. Prepared(b)' = Prepared(b) BY <1>2, <1>3, <1>5 DEF Prepared
  <1>10. Pending(b)' = Pending(b) BY <1>4, <1>9 DEF Pending
  <1> QED BY <1>2, <1>3, <1>4, <1>5, <1>7, <1>8, <1>9, <1>10

\* So each part of the invariant needs to be shown of that aio only.
LEMMA PlaceStep ==
    ASSUME PlaceInv, NEW a \in Aios, OnlyAbout(a), Placed(a)', Counted(a)'
    PROVE  PlaceInv'
  <1> SUFFICES ASSUME NEW b \in Aios, b # a PROVE Placed(b)' /\ Counted(b)' BY DEF PlaceInv
  <1>1. Placed(b) /\ Counted(b) BY DEF PlaceInv
  <1>2. /\ Waits(b)' <=> Waits(b)
        /\ Sleeps(b)' = Sleeps(b)
        /\ InQueue(b)' <=> InQueue(b)
        /\ \A t \in Threads : (Schedules(t, b)' <=> Schedules(t, b)) /\ (Works(t, b)' <=> Works(t, b))
        /\ CallbackThreads(b)' = CallbackThreads(b)
        /\ Prepared(b)' = Prepared(b) /\ Pending(b)' = Pending(b)
    BY OthersKept
  <1>3. Placed(b)' BY <1>1, <1>2 DEF Placed
  <1>4. task'[b] = task[b] /\ begun'[b] = begun[b] /\ called'[b] = called[b] BY DEF OnlyAbout
  <1>5. Open(b)' = Open(b) BY <1>2 DEF Open
  <1>6. Counted(b)' BY <1>1, <1>2, <1>4, <1>5 DEF Counted
  <1> QED BY <1>3, <1>6

LEMMA ListStep ==
    ASSUME ListInv, NEW a \in Aios, OnlyAbout(a),
           IsInjective(waiting'), IsInjective(tasks'), IsInjective(expireList'),
           Listed(expireList', a) => Waits(a)' \/ Sleeps(a)',
           aio'[a].cancel # "none" => Waits(a)' \/ Sleeps(a)'
    PROVE  ListInv'
  <1> SUFFICES ASSUME NEW b \in Aios, b # a
               PROVE  /\ Listed(expireList', b) => Waits(b)' \/ Sleeps(b)'
                      /\ aio'[b].cancel # "none" => Waits(b)' \/ Sleeps(b)'
    BY DEF ListInv
  <1>1. (Waits(b)' <=> Waits(b)) /\ Sleeps(b)' = Sleeps(b) BY OthersKept
  <1>2. aio'[b] = aio[b] /\ (Listed(expireList', b) <=> Listed(expireList, b)) BY DEF OnlyAbout
  <1> QED BY <1>1, <1>2 DEF ListInv

LEMMA FreeStep ==
    ASSUME FreeInv, ThreadInv, AioTypeOK, NEW a \in Aios \ freed, OnlyAbout(a), freed' = freed,
           aio[a].stop => aio'[a].stop,
           aio[a].stop /\ aio[a].cancel = "none" => aio'[a].cancel = "none",
           expireAio' \in {expireAio, None},
           \A t \in Users : thr[t].at = "gone" => thr'[t].at = "gone",
           \A t \in Threads : Releasing(t)' =>
                /\ Releasing(t) /\ thr'[t].aio = thr[t].aio
                /\ thr'[t].at = "finiTask" => thr[t].at = "finiTask"
    PROVE  FreeInv'
  <1>1. ASSUME NEW t \in Threads, Releasing(t)'
        PROVE  LET b == thr'[t].aio IN
               /\ aio'[b].stop /\ aio'[b].cancel = "none" /\ b \notin freed'
               /\ thr'[t].at = "finiTask" => expireAio' # b
               /\ t \in Workers => thr'[UserOf[b]].at = "gone"
    <2> DEFINE b == thr[t].aio
    <2>1. Releasing(t) /\ thr'[t].aio = b /\ (thr'[t].at = "finiTask" => thr[t].at = "finiTask")
      BY <1>1
    <2>2. b \in Aios BY <2>1, Sorts, ZenonT(60) DEF Releasing, ThreadInv, AioTypeOK
    <2>3. /\ aio[b].stop /\ aio[b].cancel = "none" /\ b \notin freed
          /\ thr[t].at = "finiTask" => expireAio # b
          /\ t \in Workers => thr[UserOf[b]].at = "gone"
      BY <2>1 DEF FreeInv
    <2> HIDE DEF b
    <2>4. aio'[b].stop /\ aio'[b].cancel = "none" BY <2>2, <2>3 DEF OnlyAbout
    <2>5. thr'[t].at = "finiTask" => expireAio' # b BY <2>1, <2>2, <2>3, Sorts
    <2>6. t \in Workers => thr'[UserOf[b]].at = "gone" BY <2>2, <2>3, Sorts
    <2> QED BY <2>1, <2>3, <2>4, <2>5, <2>6
  <1>2. ASSUME NEW b \in freed
        PROVE  /\ ~Pending(b)' /\ expireAio' # b
               /\ thr'[UserOf[b]].at = "gone"
               /\ \A t \in Threads : thr'[t].aio = b => thr'[t].at \in {"idle", "ret", "gone"}
    <2>1. b \in Aios /\ b # a BY DEF AioTypeOK
    <2>2. /\ ~Pending(b) /\ expireAio # b /\ thr[UserOf[b]].at = "gone"
          /\ \A t \in Threads : thr[t].aio = b => thr[t].at \in {"idle", "ret", "gone"}
      BY DEF FreeInv
    <2>3. ~Pending(b)' BY <2>1, <2>2, OthersKept
    <2>4. expireAio' # b BY <2>1, <2>2, Sorts
    <2>5. \A t \in Threads : thr'[t].aio = b => thr'[t] = thr[t] BY <2>1, Sorts DEF OnlyAbout
    <2> QED BY <2>1, <2>2, <2>3, <2>4, <2>5, Sorts
  <1> QED BY <1>1, <1>2 DEF FreeInv, Releasing, Pending

LEMMA ClockStep ==
    ASSUME ClockInv, AioTypeOK, ThreadInv', NEW a \in Aios, OnlyAbout(a), now' = now,
           \A t \in Threads : Schedules(t, a)' /\ aio'[a].timeout \in Nat
                                => now + aio'[a].timeout <= MaxTime
    PROVE  ClockInv'
  <1> SUFFICES ASSUME NEW t \in Threads, thr'[t].at = "sched", aio'[thr'[t].aio].timeout \in Nat
               PROVE  now' + aio'[thr'[t].aio].timeout <= MaxTime
    BY DEF ClockInv
  <1>1. CASE thr'[t].aio = a BY <1>1 DEF Schedules
  <1>2. CASE thr'[t].aio # a /\ thr'[t].aio # None
    <2>1. thr'[t] = thr[t] BY <1>2 DEF OnlyAbout
    <2>2. thr[t].aio \in Aios BY <1>2, <2>1 DEF AioTypeOK
    <2>3. aio'[thr[t].aio] = aio[thr[t].aio] BY <1>2, <2>1, <2>2 DEF OnlyAbout
    <2> QED BY <2>1, <2>3 DEF ClockInv
  <1>3. CASE thr'[t].aio = None BY <1>3, Sorts DEF ThreadInv
  <1> QED BY <1>1, <1>2, <1>3


-----------------------------------------------------------------------------
(* The invariant is inductive.                                             *)

LEMMA EmptyLists == IsInjective(<<>>) /\ <<>> \in Seq(Aios) /\ \A b : ~Listed(<<>>, b)
  BY DEF IsInjective, Listed, ToSet

\* Nothing waits, runs or is released in the initial states.
LEMMA AioInitInv == AioInit => AioInv
  <1> SUFFICES ASSUME AioInit PROVE AioInv OBVIOUS
  <1> USE Sorts
  <1>1. AioTypeOK
    <2>1. /\ expireList \in Seq(Aios) /\ tasks \in Seq(Aios) /\ waiting \in Seq(Aios)
          /\ expireAio \in Aios \cup {None} /\ now \in 0 .. MaxTime /\ freed \subseteq Aios
          /\ begun \in [Aios -> Nat] /\ called \in [Aios -> Nat]
      BY AioAssumption, EmptyLists DEF AioInit
    <2>2. aio \in [Aios -> [stop : BOOLEAN, sleep : BOOLEAN, sleeprv : Results,
                            timeout : Durations \cup {Never}, expire : 0 .. MaxTime \cup {Never},
                            cancel : Cancels, result : Results]]
      BY DEF AioInit, Results, Cancels
    <2>3. task \in [Aios -> [busy : Nat, prep : BOOLEAN, thr : Workers \cup {None}, reap : BOOLEAN]]
      BY DEF AioInit
    <2>4. thr \in [Threads -> [at : {"idle", "sched", "fn", "wait", "finiExpire",
                                     "finiTask", "expired", "cb", "ret", "gone"},
                               aio : Aios \cup {None}, fn : Cancels, rv : Results,
                               next : {"idle", "cb", "wait", "finiExpire", "expired"}]]
      BY DEF AioInit, AtRest, Results, Cancels
    <2> QED BY <2>1, <2>2, <2>3, <2>4 DEF AioTypeOK
  <1>2. \A t \in Threads : thr[t].at = "idle" /\ thr[t].aio = None BY DEF AioInit, AtRest
  <1>3. ThreadInv BY <1>2 DEF ThreadInv, AioInit
  <1>4. waiting = <<>> /\ tasks = <<>> /\ expireList = <<>> /\ freed = {} BY DEF AioInit
  <1>5. \A a \in Aios : aio[a].cancel = "none" /\ aio[a].sleep = FALSE BY DEF AioInit
  <1>6. ListInv BY <1>4, <1>5, EmptyLists DEF ListInv
  <1>7. ASSUME NEW a \in Aios PROVE Placed(a) /\ Counted(a)
    <2>1. ~Waits(a) /\ ~InQueue(a) /\ Sleeps(a) = FALSE
      BY <1>4, <1>5, EmptyLists DEF Waits, Sleeps, InQueue
    <2>2. \A t \in Threads : ~Schedules(t, a) /\ ~Works(t, a) BY <1>2 DEF Schedules, Works, Runs
    <2>3. Placed(a) BY <2>1, <2>2 DEF Placed
    <2>4. CallbackThreads(a) = {} BY <1>2 DEF CallbackThreads
    <2>5. Prepared(a) = FALSE /\ Open(a) = 0 BY <2>1, <2>2 DEF Prepared, Pending, Open
    <2>6. task[a].prep = FALSE /\ task[a].busy = 0 /\ begun[a] = 0 /\ called[a] = 0 BY DEF AioInit
    <2>7. IsFiniteSet(CallbackThreads(a)) /\ Cardinality(CallbackThreads(a)) = 0 BY <2>4, FS_EmptySet
    <2>8. Counted(a) BY <2>5, <2>6, <2>7 DEF Counted
    <2> QED BY <2>3, <2>8
  <1>8. FreeInv BY <1>2, <1>4 DEF FreeInv, Releasing
  <1>9. ClockInv BY <1>2 DEF ClockInv
  <1> QED BY <1>1, <1>3, <1>6, <1>7, <1>8, <1>9 DEF AioInv, PlaceInv

\* Who may begin an operation is alone with the aio.
LEMMA BeginsAlone ==
    ASSUME AioInv, NEW a \in Aios, NEW t \in Users \cup Runners, MayBegin(t, a)
    PROVE  /\ a \notin freed /\ thr[t].aio \in {a, None}
           /\ ~Pending(a) /\ task[a].prep = FALSE /\ begun[a] = called[a]
           /\ \A s \in Threads : s # t => ~Works(s, a)
           /\ \/ t \in Users /\ t = UserOf[a] /\ thr[t].at = "idle"
              \/ t \in Runners /\ thr[t].at = "cb" /\ thr[t].aio = a
  <1> USE Sorts
  <1>0. t \in Threads OBVIOUS
  <1>1. Placed(a) /\ Counted(a) BY DEF AioInv, PlaceInv
  <1>2. a \notin freed BY DEF MayBegin
  <1>3. \/ t \in Users /\ t = UserOf[a] /\ thr[t].at = "idle" /\ task[a].busy = 0
        \/ t \in Runners /\ thr[t].at = "cb" /\ thr[t].aio = a
    BY DEF MayBegin, AioInv, ThreadInv
  <1>4. thr[t].aio \in {a, None}
    <2>1. CASE t \in Runners BY <1>3, <2>1
    <2>2. CASE t \in Users
      <3>1. t = UserOf[a] BY <1>3, <2>2
      <3>2. thr[t].aio \in Aios \cup {None} BY <1>0 DEF AioInv, AioTypeOK
      <3>3. thr[t].aio # None => UserOf[thr[t].aio] = t BY <2>2 DEF AioInv, ThreadInv
      <3> QED BY <3>1, <3>2, <3>3, AioAssumption
    <2> QED BY <2>1, <2>2
  <1>5. ~Pending(a) /\ \A s \in Threads : s # t => ~Works(s, a)
    <2>1. CASE task[a].busy = 0
      <3>1. Cardinality(CallbackThreads(a)) \in Nat /\ Open(a) \in Nat
        BY <1>1, FS_CardinalityType DEF Counted, Open
      <3>2. Open(a) = 0 /\ Cardinality(CallbackThreads(a)) = 0 BY <1>1, <2>1, <3>1 DEF Counted
      <3>3. ~Pending(a) BY <3>2 DEF Open
      <3>4. CallbackThreads(a) = {} BY <1>1, <3>2, FS_EmptySet DEF Counted
      <3>5. \A s \in Threads : ~Runs(s, a) BY <3>4 DEF Runs, CallbackThreads
      <3> QED BY <3>3, <3>5 DEF Pending, Prepared, Works
    <2>2. CASE t \in Runners /\ thr[t].at = "cb" /\ thr[t].aio = a
      <3>1. Works(t, a) BY <2>2 DEF Works, Runs
      <3>2. ~Waits(a) /\ ~Sleeps(a) /\ ~InQueue(a) BY <1>0, <1>1, <3>1 DEF Placed
      <3>3. \A s \in Threads : s # t => ~Works(s, a) BY <1>0, <1>1, <3>1 DEF Placed
      <3>4. \A s \in Threads : ~Schedules(s, a) BY <2>2, <3>3 DEF Works, Schedules
      <3> QED BY <3>2, <3>3, <3>4 DEF Pending, Prepared
    <2> QED BY <1>3, <2>1, <2>2
  <1>6. task[a].prep = FALSE BY <1>1, <1>5 DEF Counted, Pending
  <1>7. begun[a] = called[a]
    <2>1. called[a] \in Nat BY DEF AioInv, AioTypeOK
    <2> QED BY <1>1, <1>5, <2>1 DEF Counted, Open
  <1> QED BY <1>2, <1>3, <1>4, <1>5, <1>6, <1>7

AioRec ==
    [stop : BOOLEAN, sleep : BOOLEAN, sleeprv : Results,
     timeout : Durations \cup {Never}, expire : 0 .. MaxTime \cup {Never},
     cancel : Cancels, result : Results]
AioType == [Aios -> AioRec]

TaskRec == [busy : Nat, prep : BOOLEAN, thr : Workers \cup {None}, reap : BOOLEAN]
TaskType == [Aios -> TaskRec]

\* What the parts of nni_aio_finish do to the aio, its deadline and its task.
LEMMA FinishedEffect ==
    ASSUME AioTypeOK, ListInv, NEW a \in Aios, NEW rv \in Results, Finished(a, rv)
    PROVE  /\ aio' \in AioType
           /\ \A b \in Aios : b # a => aio'[b] = aio[b]
           /\ aio'[a].cancel = "none" /\ aio'[a].sleep = FALSE /\ aio'[a].stop = aio[a].stop
           /\ expireList' \in Seq(Aios) /\ IsInjective(expireList')
           /\ \A b : Listed(expireList', b) <=> Listed(expireList, b) /\ b # a
  <1>1. /\ expireList' \in Seq(Aios) /\ IsInjective(expireList')
        /\ \A b : Listed(expireList', b) <=> Listed(expireList, b) /\ b # a
    BY WithoutList DEF Finished, ListInv, AioTypeOK
  <1>2. aio' = [aio EXCEPT ![a].result = rv, ![a].cancel = "none",
                           ![a].expire = Never, ![a].sleep = FALSE]
    BY DEF Finished
  <1>3. /\ aio' \in AioType
        /\ \A b \in Aios : b # a => aio'[b] = aio[b]
        /\ aio'[a].cancel = "none" /\ aio'[a].sleep = FALSE /\ aio'[a].stop = aio[a].stop
    <2> DEFINE Aio == AioRec
               x == [aio[a] EXCEPT !.result = rv, !.cancel = "none", !.expire = Never, !.sleep = FALSE]
    <2>1. aio \in [Aios -> Aio] BY DEF AioTypeOK, AioType, AioRec
    <2>2. aio[a] \in Aio BY <2>1
    <2>3. x \in Aio BY <2>2 DEF Cancels, AioType, AioRec
    <2>4. x.cancel = "none" /\ x.sleep = FALSE /\ x.stop = aio[a].stop BY <2>2
    <2>5. aio' = [aio EXCEPT ![a] = x] BY <1>2, <2>1
    <2> HIDE DEF Aio, x
    <2>6. aio' \in [Aios -> Aio] /\ aio'[a] = x /\ \A b \in Aios : b # a => aio'[b] = aio[b]
      BY <2>1, <2>3, <2>5
    <2> QED BY <2>4, <2>6 DEF Aio, AioType, AioRec
  <1> QED BY <1>1, <1>3

LEMMA MadeBusyEffect ==
    ASSUME AioTypeOK, NEW a \in Aios, task' = [task EXCEPT ![a] = MadeBusy(@)]
    PROVE  /\ task' \in TaskType
           /\ \A b \in Aios : b # a => task'[b] = task[b]
           /\ task'[a].prep = FALSE
           /\ task'[a].busy = IF task[a].prep THEN task[a].busy ELSE task[a].busy + 1
  <1>1. task'[a] = MadeBusy(task[a]) /\ \A b \in Aios : b # a => task'[b] = task[b]
    BY DEF AioTypeOK
  <1>2. task[a] \in [busy : Nat, prep : BOOLEAN, thr : Workers \cup {None}, reap : BOOLEAN]
    BY DEF AioTypeOK
  <1>3. /\ MadeBusy(task[a]) \in [busy : Nat, prep : BOOLEAN, thr : Workers \cup {None}, reap : BOOLEAN]
        /\ MadeBusy(task[a]).prep = FALSE
        /\ MadeBusy(task[a]).busy = IF task[a].prep THEN task[a].busy ELSE task[a].busy + 1
    <2>1. CASE task[a].prep = TRUE BY <1>2, <2>1 DEF MadeBusy
    <2>2. CASE task[a].prep = FALSE BY <1>2, <2>2 DEF MadeBusy
    <2> QED BY <1>2, <2>1, <2>2
  <1> QED BY <1>1, <1>3 DEF AioTypeOK, AioType, AioRec, TaskType, TaskRec

ThreadType ==
    [Threads -> [at : {"idle", "sched", "fn", "wait", "finiExpire",
                       "finiTask", "expired", "cb", "ret", "gone"},
                 aio : Aios \cup {None}, fn : Cancels, rv : Results,
                 next : {"idle", "cb", "wait", "finiExpire", "expired"}]]

\* A step of t that keeps the other threads, as the invariant sees it.
ThreadStep(t) ==
    /\ thr' \in ThreadType
    /\ ThreadInv'
    /\ \A s \in Threads : s # t => thr'[s] = thr[s]

\* A thread returns to its loop, or to the callback it runs.
LEMMA ResumeStep ==
    ASSUME AioTypeOK, ThreadInv, NEW t \in Users \cup Runners,
           thr[t].at # "idle" \/ t \in Users,
           thr' = [thr EXCEPT ![t] = Resume(t)], expireAio' = expireAio
    PROVE  /\ ThreadStep(t)
           /\ t \in Users => thr'[t].at = "idle" /\ thr'[t].aio = None
           /\ t \in Runners => thr'[t].at = "ret" /\ thr'[t].aio = thr[t].aio
  <1> USE Sorts
  <1>0. t \in Threads OBVIOUS
  <1>1. thr \in ThreadType BY DEF AioTypeOK, ThreadType, AioType, AioRec, TaskType, TaskRec
  <1>2. thr'[t] = Resume(t) /\ \A s \in Threads : s # t => thr'[s] = thr[s]
    BY <1>0, <1>1 DEF ThreadType
  <1>3. CASE t \in Users
    <2>1. Resume(t) = AtRest BY <1>3 DEF Resume
    <2>2. thr' \in ThreadType BY <1>0, <1>1, <2>1 DEF ThreadType, AtRest, Cancels, Results
    <2>3. thr'[t].at = "idle" /\ thr'[t].aio = None BY <1>2, <2>1 DEF AtRest
    <2>4. ThreadInv' BY <1>2, <1>3, <2>3 DEF ThreadInv
    <2> QED BY <1>2, <1>3, <2>2, <2>3, <2>4 DEF ThreadStep
  <1>4. CASE t \in Runners
    <2>1. Resume(t) = [AtRest EXCEPT !.at = "ret", !.aio = thr[t].aio] BY <1>4 DEF Resume
    <2>2. thr' \in ThreadType BY <1>0, <1>1, <2>1, ZenonT(60) DEF ThreadType, AtRest, Cancels, Results
    <2>3. thr'[t].at = "ret" /\ thr'[t].aio = thr[t].aio BY <1>2, <2>1 DEF AtRest
    <2>4. thr[t].at # "idle" BY <1>4
    <2>5. ThreadInv' BY <1>2, <1>4, <2>3, <2>4 DEF ThreadInv
    <2> QED BY <1>2, <1>4, <2>2, <2>3, <2>5 DEF ThreadStep
  <1> QED BY <1>3, <1>4

\* The operation is in the task queue and nowhere else.
LEMMA InQueueOnly ==
    ASSUME NEW a \in Aios, ~Waits(a)', ~Sleeps(a)', InQueue(a)',
           \A s \in Threads : ~Works(s, a)',
           ~task'[a].prep, begun'[a] = called'[a] + 1,
           IsFiniteSet(CallbackThreads(a)'), task'[a].busy = Cardinality(CallbackThreads(a)') + 1
    PROVE  Placed(a)' /\ Counted(a)'
  <1>1. Placed(a)' BY DEF Placed
  <1>2. ~Prepared(a)' BY DEF Prepared, Works
  <1>3. Open(a)' = 1 BY DEF Open, Pending
  <1>4. Counted(a)' BY <1>2, <1>3 DEF Counted
  <1> QED BY <1>1, <1>4

\* Every way to finish an operation through the task queue, whoever does it.
LEMMA FinishStep ==
    ASSUME AioInv, NEW a \in Aios \ freed, NEW rv \in Results, Finish(a, rv),
           Prepared(a) \/ ~Pending(a), ~InQueue(a),
           begun' \in [Aios -> Nat], begun'[a] = called[a] + 1,
           \A b \in Aios : b # a => begun'[b] = begun[b],
           UNCHANGED <<expireAio, now, freed, called>>,
           waiting' \in Seq(Aios), IsInjective(waiting'),
           \A b : Listed(waiting', b) <=> Listed(waiting, b) /\ b # a,
           thr' \in ThreadType, ThreadInv',
           \A t \in Threads : thr'[t] = thr[t] \/ (thr[t].aio \in {a, None} /\ thr'[t].aio \in {a, None}),
           \A t \in Threads : ~Works(t, a)',
           CallbackThreads(a)' = CallbackThreads(a),
           \A t \in Users : thr[t].at = "gone" => thr'[t].at = "gone",
           \A t \in Threads : Releasing(t)' =>
                /\ Releasing(t) /\ thr'[t].aio = thr[t].aio
                /\ thr'[t].at = "finiTask" => thr[t].at = "finiTask"
    PROVE  AioInv'
  <1> USE Sorts
  <1>1. AioTypeOK /\ ThreadInv /\ ListInv /\ PlaceInv /\ FreeInv /\ ClockInv /\ Placed(a) /\ Counted(a)
    BY DEF AioInv, PlaceInv
  <1>2. Finished(a, rv) /\ task' = [task EXCEPT ![a] = MadeBusy(@)] /\ tasks' = Append(tasks, a)
    BY DEF Finish
  <1>3. /\ aio' \in AioType
        /\ \A b \in Aios : b # a => aio'[b] = aio[b]
        /\ aio'[a].cancel = "none" /\ aio'[a].sleep = FALSE /\ aio'[a].stop = aio[a].stop
        /\ expireList' \in Seq(Aios) /\ IsInjective(expireList')
        /\ \A b : Listed(expireList', b) <=> Listed(expireList, b) /\ b # a
    BY <1>1, <1>2, FinishedEffect
  <1>4. /\ task' \in TaskType
        /\ \A b \in Aios : b # a => task'[b] = task[b]
        /\ task'[a].prep = FALSE
        /\ task'[a].busy = IF task[a].prep THEN task[a].busy ELSE task[a].busy + 1
    BY <1>1, <1>2, MadeBusyEffect
  <1>5. /\ tasks' \in Seq(Aios) /\ IsInjective(tasks')
        /\ \A b : Listed(tasks', b) <=> Listed(tasks, b) \/ b = a
    BY <1>1, <1>2, AppendList DEF AioTypeOK, ListInv, InQueue
  <1>6. OnlyAbout(a) BY <1>3, <1>4, <1>5 DEF OnlyAbout
  <1>7. ~Waits(a)' /\ ~Sleeps(a)' /\ InQueue(a)' BY <1>3, <1>5 DEF Waits, Sleeps, InQueue
  <1>8. \A s \in Threads : ~Works(s, a)' OBVIOUS
  <1>9. task'[a].busy = Cardinality(CallbackThreads(a)) + 1
    <2>1. CASE Prepared(a)
      <3>1. task[a].prep /\ Open(a) = 1 BY <1>1, <2>1 DEF Counted, Open, Pending
      <3> QED BY <1>1, <1>4, <3>1 DEF Counted
    <2>2. CASE ~Pending(a)
      <3>1. ~task[a].prep /\ Open(a) = 0 BY <1>1, <2>2 DEF Counted, Open, Pending
      <3>2. Cardinality(CallbackThreads(a)) \in Nat BY <1>1, FS_CardinalityType DEF Counted
      <3> QED BY <1>1, <1>4, <3>1, <3>2 DEF Counted
    <2> QED BY <2>1, <2>2
  <1>10. Placed(a)' /\ Counted(a)'
    <2>1. IsFiniteSet(CallbackThreads(a)') /\ task'[a].busy = Cardinality(CallbackThreads(a)') + 1
      BY <1>1, <1>9 DEF Counted
    <2> QED BY <1>4, <1>7, <1>8, <2>1, InQueueOnly
  <1>11. PlaceInv' BY <1>1, <1>6, <1>10, PlaceStep
  <1>12. ListInv' BY <1>1, <1>3, <1>5, <1>6, ListStep
  <1>13. FreeInv' BY <1>1, <1>3, <1>6, FreeStep
  <1>14. ClockInv' BY <1>1, <1>6, <1>8, ClockStep DEF Works
  <1>15. AioTypeOK' BY <1>1, <1>3, <1>4, <1>5 DEF AioTypeOK, ThreadType, AioType, AioRec, TaskType, TaskRec
  <1> QED BY <1>11, <1>12, <1>13, <1>14, <1>15 DEF AioInv

\* One lemma for each action: nni_aio_begin on a stopped aio.
LEMMA BeginStoppedStep ==
    ASSUME AioInv, NEW a \in Aios, NEW t \in Users \cup Runners, BeginStopped(t, a)
    PROVE  AioInv'
  <1> USE Sorts
  <1>0. AioTypeOK /\ ThreadInv /\ t \in Threads BY DEF AioInv
  <1>1. /\ a \notin freed /\ thr[t].aio \in {a, None} /\ ~Pending(a) /\ begun[a] = called[a]
        /\ \A s \in Threads : s # t => ~Works(s, a)
        /\ \/ t \in Users /\ thr[t].at = "idle"
           \/ t \in Runners /\ thr[t].at = "cb" /\ thr[t].aio = a
    BY BeginsAlone DEF BeginStopped
  <1>2. /\ Finish(a, "canceled") /\ begun' = [begun EXCEPT ![a] = @ + 1]
        /\ thr' = [thr EXCEPT ![t] = Resume(t)]
        /\ UNCHANGED <<expireAio, waiting, now, freed, called>>
    BY DEF BeginStopped
  <1>3. /\ ThreadStep(t)
        /\ t \in Users => thr'[t].at = "idle" /\ thr'[t].aio = None
        /\ t \in Runners => thr'[t].at = "ret" /\ thr'[t].aio = thr[t].aio
    BY <1>0, <1>1, <1>2, ResumeStep
  <1>4. thr' \in ThreadType /\ ThreadInv' /\ \A s \in Threads : s # t => thr'[s] = thr[s]
    BY <1>3 DEF ThreadStep
  <1>5. thr'[t].at \in {"idle", "ret"} /\ thr'[t].aio \in {a, None} BY <1>1, <1>3
  <1>6. \A s \in Threads : ~Works(s, a)'
    BY <1>1, <1>4, <1>5 DEF Works, Schedules, Runs
  <1>7. CallbackThreads(a)' = CallbackThreads(a) BY <1>1, <1>3, <1>4 DEF CallbackThreads
  <1>8. ~InQueue(a) /\ ~Waits(a) BY <1>1 DEF Pending, Prepared
  <1>9. /\ waiting' \in Seq(Aios) /\ IsInjective(waiting')
        /\ \A b : Listed(waiting', b) <=> Listed(waiting, b) /\ b # a
    BY <1>2, <1>8 DEF AioInv, AioTypeOK, ListInv, Waits
  <1>10. /\ begun' \in [Aios -> Nat] /\ begun'[a] = called[a] + 1
         /\ \A b \in Aios : b # a => begun'[b] = begun[b]
    BY <1>0, <1>1, <1>2 DEF AioTypeOK
  <1>11. \A s \in Threads : Releasing(s)' =>
                /\ Releasing(s) /\ thr'[s].aio = thr[s].aio
                /\ thr'[s].at = "finiTask" => thr[s].at = "finiTask"
    BY <1>4, <1>5 DEF Releasing
  <1>12. \A s \in Threads : thr'[s] = thr[s] \/ (thr[s].aio \in {a, None} /\ thr'[s].aio \in {a, None})
    <2>1. thr[t].aio \in {a, None} BY <1>1
    <2>2. thr'[t].aio \in {a, None} BY <1>5
    <2> TAKE s \in Threads
    <2>3. CASE s = t BY <2>1, <2>2, <2>3
    <2>4. CASE s # t BY <1>4, <2>4
    <2> QED BY <2>3, <2>4
  <1>13. \A s \in Users : thr[s].at = "gone" => thr'[s].at = "gone"
    BY <1>1, <1>4
  <1>14. a \in Aios \ freed /\ "canceled" \in Results BY <1>1 DEF Results
  <1> QED BY <1>1, <1>2, <1>4, <1>6, <1>7, <1>8, <1>9, <1>10, <1>11, <1>12, <1>13, <1>14, FinishStep

\* A thread between begin and schedule is alone with the aio.
LEMMA SchedulesAlone ==
    ASSUME AioInv, NEW t \in Threads, thr[t].at = "sched"
    PROVE  LET a == thr[t].aio IN
           /\ a \in Aios \ freed /\ t \in Users \cup Runners
           /\ ~Waits(a) /\ ~Sleeps(a) /\ ~InQueue(a)
           /\ Prepared(a) /\ begun[a] = called[a] + 1
           /\ \A s \in Threads : s # t => ~Works(s, a)
  <1> USE Sorts
  <1> DEFINE a == thr[t].aio
  <1>1. t \in Users \cup Runners BY DEF AioInv, ThreadInv
  <1>2. a \in Aios
    <2>1. a \in Aios \cup {None} BY DEF AioInv, AioTypeOK
    <2>2. a # None BY <1>1 DEF AioInv, ThreadInv
    <2> QED BY <2>1, <2>2
  <1>3. Schedules(t, a) BY DEF Schedules
  <1>4. a \notin freed BY DEF AioInv, FreeInv
  <1> HIDE DEF a
  <1>5. Placed(a) /\ Counted(a) BY <1>2 DEF AioInv, PlaceInv
  <1>6. Works(t, a) /\ Prepared(a) BY <1>3 DEF Works, Prepared
  <1>7. ~Waits(a) /\ ~Sleeps(a) /\ ~InQueue(a) /\ \A s \in Threads : s # t => ~Works(s, a)
    BY <1>5, <1>6 DEF Placed
  <1>8. begun[a] = called[a] + 1 BY <1>5, <1>6 DEF Counted, Open, Pending
  <1> QED BY <1>1, <1>2, <1>4, <1>6, <1>7, <1>8 DEF a

\* nni_aio_schedule refuses, and the provider finishes the operation with the error.
LEMMA ScheduleFailsStep ==
    ASSUME AioInv, NEW t \in Threads, ScheduleFails(t)
    PROVE  AioInv'
  <1> USE Sorts
  <1>0. AioTypeOK /\ ThreadInv BY DEF AioInv
  <1>a. thr[t].at = "sched" BY DEF ScheduleFails
  <1>b. PICK a \in Aios : thr[t].aio = a BY <1>a, SchedulesAlone
  <1> DEFINE rv == ScheduleError(a, thr[t].fn)
  <1>1. /\ a \in Aios \ freed /\ t \in Users \cup Runners
        /\ ~Waits(a) /\ ~Sleeps(a) /\ ~InQueue(a)
        /\ Prepared(a) /\ begun[a] = called[a] + 1
        /\ \A s \in Threads : s # t => ~Works(s, a)
    BY <1>a, <1>b, SchedulesAlone
  <1>2. /\ thr[t].at = "sched" /\ Finish(a, rv) /\ thr' = [thr EXCEPT ![t] = Resume(t)]
        /\ UNCHANGED <<expireAio, waiting, now, freed, begun, called>>
    BY <1>b DEF ScheduleFails
  <1>3. rv \in Results BY DEF ScheduleError, Results
  <1>4. /\ ThreadStep(t)
        /\ t \in Users => thr'[t].at = "idle" /\ thr'[t].aio = None
        /\ t \in Runners => thr'[t].at = "ret" /\ thr'[t].aio = a
    BY <1>0, <1>1, <1>2, <1>b, ResumeStep
  <1> HIDE DEF rv
  <1>5. thr' \in ThreadType /\ ThreadInv' /\ \A s \in Threads : s # t => thr'[s] = thr[s]
    BY <1>4 DEF ThreadStep
  <1>6. thr'[t].at \in {"idle", "ret"} /\ thr'[t].aio \in {a, None} BY <1>1, <1>4
  <1>7. \A s \in Threads : ~Works(s, a)'
    BY <1>1, <1>5, <1>6 DEF Works, Schedules, Runs
  <1>8. CallbackThreads(a)' = CallbackThreads(a) BY <1>1, <1>4, <1>b, <1>5 DEF CallbackThreads
  <1>9. /\ waiting' \in Seq(Aios) /\ IsInjective(waiting')
        /\ \A b : Listed(waiting', b) <=> Listed(waiting, b) /\ b # a
    BY <1>1, <1>2 DEF AioInv, AioTypeOK, ListInv, Waits
  <1>10. begun' \in [Aios -> Nat] /\ begun'[a] = called[a] + 1 /\ \A b \in Aios : b # a => begun'[b] = begun[b]
    BY <1>0, <1>1, <1>2 DEF AioTypeOK
  <1>11. \A s \in Threads : Releasing(s)' =>
                /\ Releasing(s) /\ thr'[s].aio = thr[s].aio
                /\ thr'[s].at = "finiTask" => thr[s].at = "finiTask"
    BY <1>5, <1>6 DEF Releasing
  <1>12. \A s \in Threads : thr'[s] = thr[s] \/ (thr[s].aio \in {a, None} /\ thr'[s].aio \in {a, None})
    <2>1. thr[t].aio \in {a, None} BY <1>b
    <2>2. thr'[t].aio \in {a, None} BY <1>6
    <2> TAKE s \in Threads
    <2>3. CASE s = t BY <2>1, <2>2, <2>3
    <2>4. CASE s # t BY <1>5, <2>4
    <2> QED BY <2>3, <2>4
  <1>13. \A s \in Users : thr[s].at = "gone" => thr'[s].at = "gone"
    BY <1>2, <1>5
  <1> QED BY <1>1, <1>2, <1>3, <1>5, <1>7, <1>8, <1>9, <1>10, <1>11, <1>12, <1>13, FinishStep

\* An operation that waits or sleeps is at no thread, and may be finished.
LEMMA RestsAlone ==
    ASSUME AioInv, NEW a \in Aios, Waits(a) \/ Sleeps(a)
    PROVE  /\ a \notin freed /\ Prepared(a) /\ ~InQueue(a) /\ begun[a] = called[a] + 1
           /\ \A s \in Threads : ~Works(s, a)
           /\ ~(Waits(a) /\ Sleeps(a)) /\ task[a].prep
  <1>1. Placed(a) /\ Counted(a) BY DEF AioInv, PlaceInv
  <1>2. Prepared(a) BY DEF Prepared
  <1>3. ~InQueue(a) /\ \A s \in Threads : ~Works(s, a) BY <1>1 DEF Placed
  <1>4. begun[a] = called[a] + 1 BY <1>1, <1>2 DEF Counted, Open, Pending
  <1>5. a \notin freed BY <1>2 DEF AioInv, FreeInv, Pending
  <1>6. ~(Waits(a) /\ Sleeps(a)) /\ task[a].prep BY <1>1, <1>2 DEF Placed, Counted
  <1> QED BY <1>2, <1>3, <1>4, <1>5, <1>6

\* A provider finishes the first operation that waits.
LEMMA CompleteStep ==
    ASSUME AioInv, Complete
    PROVE  AioInv'
  <1>0. AioTypeOK /\ ListInv /\ ThreadInv /\ waiting \in Seq(Aios) /\ waiting # <<>>
    BY DEF AioInv, AioTypeOK, Complete
  <1>a. PICK a \in Aios : Head(waiting) = a BY <1>0, TailList DEF ListInv
  <1>1. /\ a \in Aios /\ Waits(a)
        /\ Tail(waiting) \in Seq(Aios) /\ IsInjective(Tail(waiting))
        /\ \A b : Listed(Tail(waiting), b) <=> Listed(waiting, b) /\ b # a
    BY <1>0, <1>a, TailList DEF ListInv, Waits
  <1>2. /\ Finish(a, "ok") /\ waiting' = Tail(waiting)
        /\ UNCHANGED <<expireAio, thr, now, freed, begun, called>>
    BY <1>a DEF Complete
  <1>3. /\ a \notin freed /\ Prepared(a) /\ ~InQueue(a) /\ begun[a] = called[a] + 1
        /\ \A s \in Threads : ~Works(s, a)
    BY <1>1, RestsAlone
  <1>4. /\ waiting' \in Seq(Aios) /\ IsInjective(waiting')
        /\ \A b : Listed(waiting', b) <=> Listed(waiting, b) /\ b # a
    BY <1>1, <1>2
  <1>5. thr' \in ThreadType BY <1>0, <1>2 DEF AioTypeOK, ThreadType, AioType, AioRec, TaskType, TaskRec
  <1>6. ThreadInv' BY <1>0, <1>2 DEF ThreadInv
  <1>7. \A s \in Threads : ~Works(s, a)' BY <1>2, <1>3 DEF Works, Schedules, Runs
  <1>8. CallbackThreads(a)' = CallbackThreads(a) BY <1>2 DEF CallbackThreads
  <1>9. begun' \in [Aios -> Nat] /\ begun'[a] = called[a] + 1 /\ \A b \in Aios : b # a => begun'[b] = begun[b]
    BY <1>0, <1>2, <1>3 DEF AioTypeOK
  <1>10. \A s \in Threads : Releasing(s)' =>
                /\ Releasing(s) /\ thr'[s].aio = thr[s].aio
                /\ thr'[s].at = "finiTask" => thr[s].at = "finiTask"
    BY <1>2 DEF Releasing
  <1>11. a \in Aios \ freed /\ "ok" \in Results BY <1>1, <1>3 DEF Results
  <1>12. \A s \in Threads : thr'[s] = thr[s] \/ (thr[s].aio \in {a, None} /\ thr'[s].aio \in {a, None})
    BY <1>2
  <1>13. \A s \in Users : thr[s].at = "gone" => thr'[s].at = "gone" BY <1>2
  <1>14. UNCHANGED <<expireAio, now, freed, called>> BY <1>2
  <1>15. Finish(a, "ok") BY <1>2
  <1>16. Prepared(a) \/ ~Pending(a) BY <1>3
  <1> QED BY <1>3, <1>4, <1>5, <1>6, <1>7, <1>8, <1>9, <1>10, <1>11, <1>12, <1>13, <1>14,
         <1>15, <1>16, FinishStep

-----------------------------------------------------------------------------
(* Steps that only move a thread.                                          *)

LEMMA FreeMove ==
    ASSUME FreeInv, ThreadInv, AioTypeOK, NEW a \in Aios, OnlyAbout(a),
           freed' = freed \/ freed' = freed \cup {a},
           expireAio' \in {expireAio, None, a},
           \A t \in Users : thr[t].at = "gone" => thr'[t].at = "gone",
           \A t \in Threads : Releasing(t)' =>
                \/ thr'[t].aio = a
                \/ thr'[t] = thr[t],
           \A t \in Threads : Releasing(t)' /\ thr'[t].aio = a =>
                /\ aio'[a].stop /\ aio'[a].cancel = "none" /\ a \notin freed'
                /\ thr'[t].at = "finiTask" => expireAio' # a
                /\ t \in Workers => thr'[UserOf[a]].at = "gone",
           a \in freed' =>
                /\ ~Pending(a)' /\ expireAio' # a /\ thr'[UserOf[a]].at = "gone"
                /\ \A t \in Threads : thr'[t].aio = a => thr'[t].at \in {"idle", "ret", "gone"}
    PROVE  FreeInv'
  <1>1. ASSUME NEW t \in Threads, Releasing(t)', thr'[t].aio # a
        PROVE  LET b == thr'[t].aio IN
               /\ aio'[b].stop /\ aio'[b].cancel = "none" /\ b \notin freed'
               /\ thr'[t].at = "finiTask" => expireAio' # b
               /\ t \in Workers => thr'[UserOf[b]].at = "gone"
    <2> DEFINE b == thr[t].aio
    <2>1. thr'[t] = thr[t] /\ b # a BY <1>1
    <2>2. Releasing(t) BY <1>1, <2>1 DEF Releasing
    <2>3. b \in Aios BY <2>2, Sorts DEF Releasing, ThreadInv, AioTypeOK
    <2>4. /\ aio[b].stop /\ aio[b].cancel = "none" /\ b \notin freed
          /\ thr[t].at = "finiTask" => expireAio # b
          /\ t \in Workers => thr[UserOf[b]].at = "gone"
      BY <2>2 DEF FreeInv
    <2>a. thr'[t].aio = b BY <2>1
    <2> HIDE DEF b
    <2>5. aio'[b].stop /\ aio'[b].cancel = "none" BY <2>1, <2>3, <2>4 DEF OnlyAbout
    <2>6. thr'[t].at = "finiTask" => expireAio' # b BY <2>1, <2>3, <2>4, Sorts
    <2>7. t \in Workers => thr'[UserOf[b]].at = "gone" BY <2>3, <2>4, Sorts
    <2>8. b \notin freed' BY <2>1, <2>4
    <2> QED BY <2>a, <2>5, <2>6, <2>7, <2>8
  <1>2. ASSUME NEW b \in freed', b # a
        PROVE  /\ ~Pending(b)' /\ expireAio' # b
               /\ thr'[UserOf[b]].at = "gone"
               /\ \A t \in Threads : thr'[t].aio = b => thr'[t].at \in {"idle", "ret", "gone"}
    <2>1. b \in freed /\ b \in Aios BY <1>2 DEF AioTypeOK
    <2>2. /\ ~Pending(b) /\ expireAio # b /\ thr[UserOf[b]].at = "gone"
          /\ \A t \in Threads : thr[t].aio = b => thr[t].at \in {"idle", "ret", "gone"}
      BY <2>1 DEF FreeInv
    <2>3. ~Pending(b)' BY <1>2, <2>1, <2>2, OthersKept
    <2>4. expireAio' # b BY <1>2, <2>1, <2>2, Sorts
    <2>5. \A t \in Threads : thr'[t].aio = b => thr'[t] = thr[t] BY <1>2, <2>1, Sorts DEF OnlyAbout
    <2> QED BY <2>1, <2>2, <2>3, <2>4, <2>5, Sorts
  <1>3. ASSUME NEW t \in Threads, Releasing(t)'
        PROVE  LET b == thr'[t].aio IN
               /\ aio'[b].stop /\ aio'[b].cancel = "none" /\ b \notin freed'
               /\ thr'[t].at = "finiTask" => expireAio' # b
               /\ t \in Workers => thr'[UserOf[b]].at = "gone"
    <2>1. CASE thr'[t].aio = a BY <1>3, <2>1
    <2>2. CASE thr'[t].aio # a BY <1>1, <1>3, <2>2
    <2> QED BY <2>1, <2>2
  <1>4. ASSUME NEW b \in freed'
        PROVE  /\ ~Pending(b)' /\ expireAio' # b
               /\ thr'[UserOf[b]].at = "gone"
               /\ \A t \in Threads : thr'[t].aio = b => thr'[t].at \in {"idle", "ret", "gone"}
    <2>1. CASE b = a BY <1>4, <2>1
    <2>2. CASE b # a BY <1>2, <1>4, <2>2
    <2> QED BY <2>1, <2>2
  <1> QED BY <1>3, <1>4 DEF FreeInv, Releasing, Pending

\* A thread that is doing something does it with an aio that is there.
LEMMA Engaged ==
    ASSUME AioInv, NEW t \in Threads, thr[t].at \notin {"idle", "ret", "gone"}
    PROVE  thr[t].aio \in Aios \ freed
  <1>1. thr[t].aio \in Aios \cup {None} BY DEF AioInv, AioTypeOK
  <1>2. thr[t].aio # None BY Sorts DEF AioInv, ThreadInv
  <1>3. thr[t].aio \notin freed BY DEF AioInv, FreeInv
  <1> QED BY <1>1, <1>2, <1>3

\* A step that moves no operation, but may disarm an aio, drop its deadline, or release it.
LEMMA MoveStep ==
    ASSUME AioInv, NEW a \in Aios, NEW t \in Threads,
           UNCHANGED <<waiting, tasks, begun, called, now>>,
           thr' \in ThreadType, ThreadInv',
           \A s \in Threads : s # t => thr'[s] = thr[s],
           thr[t].aio \in {a, None}, thr'[t].aio \in {a, None},
           aio' \in AioType,
           \A b \in Aios : b # a => aio'[b] = aio[b],
           aio'[a].sleep = aio[a].sleep, aio'[a].cancel \in {aio[a].cancel, "none"},
           aio'[a].timeout = aio[a].timeout,
           task' \in TaskType,
           \A b \in Aios : b # a => task'[b] = task[b],
           task'[a].busy = task[a].busy, task'[a].prep = task[a].prep,
           expireList' \in Seq(Aios), IsInjective(expireList'),
           \A b : b # a => (Listed(expireList', b) <=> Listed(expireList, b)),
           Listed(expireList', a) => Listed(expireList, a),
           expireAio' \in Aios \cup {None}, freed' \subseteq Aios,
           thr[t].at # "sched", thr'[t].at # "sched",
           Works(t, a)' => Works(t, a),
           t \in Runners => thr'[t].aio = thr[t].aio,
           OnlyAbout(a) => FreeInv'
    PROVE  AioInv'
  <1> USE Sorts
  <1>1. AioTypeOK /\ ThreadInv /\ ListInv /\ PlaceInv /\ ClockInv /\ Placed(a) /\ Counted(a)
    BY DEF AioInv, PlaceInv
  <1>a. \A s \in Threads : thr'[s] = thr[s] \/ (thr[s].aio \in {a, None} /\ thr'[s].aio \in {a, None})
    <2> TAKE s \in Threads
    <2>1. CASE s = t BY <2>1
    <2>2. CASE s # t BY <2>2
    <2> QED BY <2>1, <2>2
  <1>2. OnlyAbout(a) BY <1>a DEF OnlyAbout
  <1>3. (Waits(a)' <=> Waits(a)) /\ Sleeps(a)' = Sleeps(a) /\ (InQueue(a)' <=> InQueue(a))
    BY DEF Waits, Sleeps, InQueue
  <1>4. \A s \in Threads : Schedules(s, a)' <=> Schedules(s, a)
    <2> TAKE s \in Threads
    <2>1. CASE s = t BY <2>1 DEF Schedules
    <2>2. CASE s # t BY <2>2 DEF Schedules
    <2> QED BY <2>1, <2>2
  <1>5. \A s \in Threads : Works(s, a)' => Works(s, a)
    <2> TAKE s \in Threads
    <2>1. CASE s = t BY <2>1
    <2>2. CASE s # t BY <2>2 DEF Works, Schedules, Runs
    <2> QED BY <2>1, <2>2
  <1>6. CallbackThreads(a)' = CallbackThreads(a)
    <2>1. \A s \in Runners : thr'[s].aio = thr[s].aio
      <3> TAKE s \in Runners
      <3>1. CASE s = t BY <3>1
      <3>2. CASE s # t BY <3>2
      <3> QED BY <3>1, <3>2
    <2> QED BY <2>1 DEF CallbackThreads
  <1>7. Placed(a)' BY <1>1, <1>3, <1>5 DEF Placed
  <1>8. Prepared(a)' = Prepared(a) BY <1>3, <1>4 DEF Prepared
  <1>9. Open(a)' = Open(a) BY <1>3, <1>8 DEF Open, Pending
  <1>10. Counted(a)' BY <1>1, <1>6, <1>8, <1>9 DEF Counted
  <1>11. PlaceInv' BY <1>1, <1>2, <1>7, <1>10, PlaceStep
  <1>12. ListInv'
    <2>1. IsInjective(waiting') /\ IsInjective(tasks') BY <1>1 DEF ListInv
    <2>2. Listed(expireList', a) => Waits(a)' \/ Sleeps(a)' BY <1>1, <1>3 DEF ListInv
    <2>3. aio'[a].cancel # "none" => Waits(a)' \/ Sleeps(a)' BY <1>1, <1>3 DEF ListInv
    <2> QED BY <1>1, <1>2, <2>1, <2>2, <2>3, ListStep
  <1>13. \A s \in Threads : Schedules(s, a)' /\ aio'[a].timeout \in Nat
                                => now + aio'[a].timeout <= MaxTime
    <2> SUFFICES ASSUME NEW s \in Threads, Schedules(s, a)', aio'[a].timeout \in Nat
                 PROVE  now + aio'[a].timeout <= MaxTime
      OBVIOUS
    <2>1. Schedules(s, a) BY <1>4
    <2>2. thr[s].at = "sched" /\ thr[s].aio = a BY <2>1 DEF Schedules
    <2> QED BY <1>1, <2>2 DEF ClockInv
  <1>14. ClockInv'
    <2>1. now' = now OBVIOUS
    <2> QED BY <1>1, <1>2, <1>13, <2>1, ClockStep
  <1>15. AioTypeOK' BY <1>1 DEF AioTypeOK, ThreadType, AioType, AioRec, TaskType, TaskRec
  <1> QED BY <1>2, <1>11, <1>12, <1>14, <1>15 DEF AioInv

ThreadRec ==
    [at : {"idle", "sched", "fn", "wait", "finiExpire",
           "finiTask", "expired", "cb", "ret", "gone"},
     aio : Aios \cup {None}, fn : Cancels, rv : Results,
     next : {"idle", "cb", "wait", "finiExpire", "expired"}]

\* One thread changes its place.
LEMMA Moved ==
    ASSUME AioTypeOK, NEW t \in Threads, NEW x \in ThreadRec, thr' = [thr EXCEPT ![t] = x]
    PROVE  thr' \in ThreadType /\ thr'[t] = x /\ \A s \in Threads : s # t => thr'[s] = thr[s]
  <1>1. thr \in [Threads -> ThreadRec] BY DEF AioTypeOK, ThreadRec
  <1>2. thr' \in [Threads -> ThreadRec] BY <1>1
  <1> QED BY <1>1, <1>2 DEF ThreadType, ThreadRec

\* What taking the cancel function does to the aio.
Disarmed(a, stop) == aio' = [aio EXCEPT ![a].cancel = "none", ![a].stop = stop]

LEMMA DisarmedEffect ==
    ASSUME AioTypeOK, NEW a \in Aios, NEW stop \in BOOLEAN, Disarmed(a, stop)
    PROVE  /\ aio' \in AioType
           /\ \A b \in Aios : b # a => aio'[b] = aio[b]
           /\ aio'[a].sleep = aio[a].sleep /\ aio'[a].timeout = aio[a].timeout
           /\ aio'[a].cancel = "none" /\ aio'[a].stop = stop
  <1> DEFINE Aio == AioRec
             y == [aio[a] EXCEPT !.cancel = "none", !.stop = stop]
  <1>1. aio \in [Aios -> Aio] BY DEF AioTypeOK, AioType, AioRec
  <1>2. aio[a] \in Aio BY <1>1
  <1>3. y \in Aio BY <1>2 DEF Cancels, AioType, AioRec
  <1>4. /\ y.cancel = "none" /\ y.stop = stop
        /\ y.sleep = aio[a].sleep /\ y.timeout = aio[a].timeout
    BY <1>2
  <1>5. aio' = [aio EXCEPT ![a] = y] BY <1>1 DEF Disarmed
  <1> HIDE DEF Aio, y
  <1>6. aio' \in [Aios -> Aio] /\ aio'[a] = y /\ \A b \in Aios : b # a => aio'[b] = aio[b]
    BY <1>1, <1>3, <1>5
  <1> QED BY <1>4, <1>6 DEF Aio, AioType, AioRec

\* A step that changes a thread and the aio's fields.
AllElseKept == UNCHANGED <<expireList, expireAio, task, tasks, waiting, now, freed, begun, called>>

\* Whoever takes the cancel function: the consumer's thread, or a callback that releases.
LEMMA TakeStep ==
    ASSUME AioInv, NEW a \in Aios \ freed, NEW t \in Users \cup Runners,
           NEW rv \in Results, NEW next \in {"idle", "wait", "finiExpire"}, NEW stop \in BOOLEAN,
           \/ t \in Users /\ t = UserOf[a] /\ thr[t].at = "idle"
           \/ /\ t \in Workers /\ thr[t].at = "cb" /\ thr[t].aio = a
              /\ thr[UserOf[a]].at = "gone" /\ next = "finiExpire",
           aio[a].stop => stop, next = "finiExpire" => stop,
           Take(t, a, rv, next),
           Disarmed(a, stop),
           AllElseKept
    PROVE  AioInv'
  <1> USE Sorts
  <1>1. AioTypeOK /\ ThreadInv /\ ListInv /\ FreeInv /\ t \in Threads BY DEF AioInv
  <1> DEFINE x == [at |-> "fn", aio |-> a, fn |-> aio[a].cancel, rv |-> rv, next |-> next]
  <1>2. x \in ThreadRec BY <1>1 DEF ThreadRec, AioTypeOK
  <1>3. thr' \in ThreadType /\ thr'[t] = x /\ \A s \in Threads : s # t => thr'[s] = thr[s]
    BY <1>1, <1>2, Moved DEF Take
  <1>4. thr'[t].at = "fn" /\ thr'[t].aio = a /\ thr'[t].next = next BY <1>3
  <1> HIDE DEF x
  <1>5. ThreadInv'
    <2>1. CASE t \in Users BY <1>1, <1>3, <1>4, <2>1 DEF ThreadInv, AllElseKept
    <2>2. CASE t \in Workers BY <1>1, <1>3, <1>4, <2>2 DEF ThreadInv, AllElseKept
    <2> QED BY <2>1, <2>2
  <1>6. thr[t].aio \in {a, None}
    <2>1. CASE t \in Users
      <3>1. thr[t].aio \in Aios \cup {None} /\ (thr[t].aio # None => UserOf[thr[t].aio] = t)
        BY <1>1, <2>1 DEF AioTypeOK, ThreadInv
      <3> QED BY <2>1, <3>1, AioAssumption
    <2>2. CASE t \in Workers BY <2>2
    <2> QED BY <2>1, <2>2
  <1>7. /\ aio' \in AioType
        /\ \A b \in Aios : b # a => aio'[b] = aio[b]
        /\ aio'[a].sleep = aio[a].sleep /\ aio'[a].timeout = aio[a].timeout
        /\ aio'[a].cancel = "none" /\ aio'[a].stop = stop
    BY <1>1, DisarmedEffect
  <1>8. Works(t, a)' => Works(t, a)
    BY <1>4 DEF Works, Schedules, Runs
  <1>9. t \in Runners => thr'[t].aio = thr[t].aio BY <1>4
  <1>10. ASSUME OnlyAbout(a) PROVE FreeInv'
    <2>1. \A s \in Users : thr[s].at = "gone" => thr'[s].at = "gone" BY <1>3
    <2>2. \A s \in Threads : Releasing(s)' => thr'[s].aio = a \/ thr'[s] = thr[s]
      BY <1>3, <1>4 DEF Releasing
    <2>3. ASSUME NEW s \in Threads, Releasing(s)', thr'[s].aio = a
          PROVE  /\ aio'[a].stop /\ aio'[a].cancel = "none" /\ a \notin freed'
                 /\ thr'[s].at = "finiTask" => expireAio' # a
                 /\ s \in Workers => thr'[UserOf[a]].at = "gone"
      <3>1. CASE s = t
        <4>1. thr'[t].next = "finiExpire" BY <1>4, <2>3, <3>1 DEF Releasing
        <4>2. stop BY <1>4, <4>1
        <4>3. t \in Workers => thr'[UserOf[a]].at = "gone" BY <1>3
        <4> QED BY <1>4, <1>7, <3>1, <4>2, <4>3 DEF AllElseKept
      <3>2. CASE s # t
        <4>1. Releasing(s) /\ thr[s].aio = a BY <1>3, <2>3, <3>2 DEF Releasing
        <4>2. /\ aio[a].stop
              /\ thr[s].at = "finiTask" => expireAio # a
              /\ s \in Workers => thr[UserOf[a]].at = "gone"
          BY <1>1, <4>1 DEF FreeInv
        <4>3. s \in Workers => thr'[UserOf[a]].at = "gone" BY <1>3, <4>2
        <4>4. thr'[s] = thr[s] BY <1>3, <3>2
        <4> QED BY <1>7, <4>2, <4>3, <4>4 DEF AllElseKept
      <3> QED BY <3>1, <3>2
    <2>4. freed' = freed /\ expireAio' = expireAio BY DEF AllElseKept
    <2> QED BY <1>1, <1>10, <2>1, <2>2, <2>3, <2>4, FreeMove
  <1>11. /\ expireList' \in Seq(Aios) /\ IsInjective(expireList')
         /\ expireAio' \in Aios \cup {None} /\ freed' \subseteq Aios
         /\ task' \in TaskType
    BY <1>1 DEF AioTypeOK, ListInv, AllElseKept, AioType, AioRec, TaskType, TaskRec
  <1>12. thr[t].at # "sched" /\ thr'[t].at # "sched" BY <1>4
  <1>13. thr'[t].aio \in {a, None} BY <1>4
  <1>14. UNCHANGED <<waiting, tasks, begun, called, now>> BY DEF AllElseKept
  <1>15. /\ \A b \in Aios : b # a => task'[b] = task[b]
         /\ task'[a].busy = task[a].busy /\ task'[a].prep = task[a].prep
         /\ \A b : b # a => (Listed(expireList', b) <=> Listed(expireList, b))
         /\ Listed(expireList', a) => Listed(expireList, a)
         /\ aio'[a].cancel \in {aio[a].cancel, "none"}
    BY <1>7 DEF AllElseKept
  <1>16. OnlyAbout(a) => FreeInv' BY <1>10
  <1>17. thr' \in ThreadType /\ \A s \in Threads : s # t => thr'[s] = thr[s] BY <1>3
  <1>18. a \in Aios /\ t \in Threads OBVIOUS
  <1> QED BY <1>14, <1>15, <1>16, <1>17, <1>18, <1>5, <1>6, <1>7, <1>8, <1>9, <1>11, <1>12, <1>13, MoveStep

\* nni_aio_abort, nni_aio_close, nni_aio_stop and nni_aio_fini up to that call.
LEMMA EndersStep ==
    ASSUME AioInv, NEW a \in Aios, NEW t \in Users \cup Runners,
           Abort(t, a) \/ AioClose(t, a) \/ AioStop(t, a) \/ AioFini(t, a)
    PROVE  AioInv'
  <1> USE Sorts
  <1>0. AioTypeOK BY DEF AioInv
  <1>1. a \notin freed BY DEF Abort, AioClose, AioStop, AioFini, UserMay
  <1>2. UserMay(t, a) => t \in Users /\ t = UserOf[a] /\ thr[t].at = "idle" BY DEF UserMay
  <1>3. CASE Abort(t, a)
    <2>1. PICK stop \in BOOLEAN : aio[a].stop = stop BY <1>0 DEF AioTypeOK
    <2>2. Disarmed(a, stop) BY <1>0, <1>3, <2>1 DEF Abort, AioTypeOK, Disarmed
    <2>3. /\ UserMay(t, a) /\ Take(t, a, "canceled", "idle")
          /\ AllElseKept
      BY <1>3 DEF Abort, AllElseKept
    <2>4. aio[a].stop => stop BY <2>1
    <2>5. "canceled" \in Results BY DEF Results
    <2> QED BY <1>1, <1>2, <2>1, <2>2, <2>3, <2>4, <2>5, TakeStep
  <1>4. CASE AioClose(t, a)
    <2>2. Disarmed(a, TRUE) BY <1>4 DEF AioClose, Disarmed
    <2>3. /\ UserMay(t, a) /\ Take(t, a, "closed", "idle")
          /\ AllElseKept
      BY <1>4 DEF AioClose, AllElseKept
    <2>5. "closed" \in Results BY DEF Results
    <2> QED BY <1>1, <1>2, <2>2, <2>3, <2>5, TakeStep
  <1>5. CASE AioStop(t, a)
    <2>2. Disarmed(a, TRUE) BY <1>5 DEF AioStop, Disarmed
    <2>3. /\ UserMay(t, a) /\ Take(t, a, "canceled", "wait")
          /\ AllElseKept
      BY <1>5 DEF AioStop, AllElseKept
    <2>5. "canceled" \in Results BY DEF Results
    <2> QED BY <1>1, <1>2, <2>2, <2>3, <2>5, TakeStep
  <1>6. CASE AioFini(t, a)
    <2>2. Disarmed(a, TRUE) BY <1>6 DEF AioFini, Disarmed
    <2>3. /\ UserMay(t, a) \/ (t \in Workers /\ thr[t].at = "cb" /\ thr[t].aio = a /\ thr[UserOf[a]].at = "gone")
          /\ Take(t, a, "closed", "finiExpire")
          /\ AllElseKept
      BY <1>6 DEF AioFini, AllElseKept
    <2>5. "closed" \in Results BY DEF Results
    <2> QED BY <1>1, <1>2, <2>2, <2>3, <2>5, TakeStep
  <1> QED BY <1>3, <1>4, <1>5, <1>6

Ats == {"idle", "sched", "fn", "wait", "finiExpire", "finiTask", "expired", "cb", "ret", "gone"}

\* A thread goes to another place of its program.
LEMMA Steps ==
    ASSUME AioTypeOK, NEW t \in Threads, NEW p \in Ats, thr' = [thr EXCEPT ![t].at = p]
    PROVE  /\ thr' \in ThreadType /\ \A s \in Threads : s # t => thr'[s] = thr[s]
           /\ thr'[t].at = p /\ thr'[t].aio = thr[t].aio /\ thr'[t].next = thr[t].next
  <1>1. thr \in [Threads -> ThreadRec] BY DEF AioTypeOK, ThreadRec
  <1> DEFINE x == [thr[t] EXCEPT !.at = p]
  <1>2. x \in ThreadRec BY <1>1 DEF ThreadRec, Ats
  <1>3. x.at = p /\ x.aio = thr[t].aio /\ x.next = thr[t].next BY <1>1 DEF ThreadRec
  <1>4. thr' = [thr EXCEPT ![t] = x] BY <1>1
  <1> HIDE DEF x
  <1>5. thr' \in [Threads -> ThreadRec] /\ thr'[t] = x /\ \A s \in Threads : s # t => thr'[s] = thr[s]
    BY <1>1, <1>2, <1>4
  <1> QED BY <1>3, <1>5 DEF ThreadType, ThreadRec

DataKept == UNCHANGED <<aio, expireList, task, tasks, waiting, now, begun, called>>

\* A step in which one thread goes on and nothing else changes.
LEMMA MovesOnly ==
    ASSUME AioInv, NEW a \in Aios, a \notin freed, NEW t \in Threads, DataKept,
           freed' = freed, expireAio' \in {expireAio, None},
           thr' \in ThreadType, \A s \in Threads : s # t => thr'[s] = thr[s], ThreadInv',
           thr[t].aio \in {a, None}, thr'[t].aio \in {a, None},
           t \in Runners => thr'[t].aio = thr[t].aio,
           thr[t].at \notin {"sched", "gone"}, thr'[t].at # "sched",
           Works(t, a)' => Works(t, a),
           Releasing(t)' => /\ Releasing(t) /\ thr'[t].aio = thr[t].aio
                            /\ thr'[t].at = "finiTask" => expireAio' # a
    PROVE  AioInv'
  <1> USE Sorts
  <1>1. AioTypeOK /\ ThreadInv /\ ListInv /\ FreeInv BY DEF AioInv
  <1>2. /\ aio' \in AioType
        /\ task' \in TaskType
        /\ expireList' \in Seq(Aios) /\ IsInjective(expireList')
        /\ expireAio' \in Aios \cup {None} /\ freed' \subseteq Aios
    BY <1>1 DEF AioTypeOK, ListInv, DataKept, AioType, AioRec, TaskType, TaskRec
  <1>3. /\ \A b \in Aios : b # a => aio'[b] = aio[b]
        /\ aio'[a].sleep = aio[a].sleep /\ aio'[a].cancel \in {aio[a].cancel, "none"}
        /\ aio'[a].timeout = aio[a].timeout
        /\ \A b \in Aios : b # a => task'[b] = task[b]
        /\ task'[a].busy = task[a].busy /\ task'[a].prep = task[a].prep
        /\ \A b : b # a => (Listed(expireList', b) <=> Listed(expireList, b))
        /\ Listed(expireList', a) => Listed(expireList, a)
        /\ UNCHANGED <<waiting, tasks, begun, called, now>>
        /\ aio' = aio
    BY DEF DataKept
  <1>4. OnlyAbout(a) => FreeInv'
    <2>1. \A s \in Users : thr[s].at = "gone" => thr'[s].at = "gone"
      <3> TAKE s \in Users
      <3>1. CASE s = t BY <3>1
      <3>2. CASE s # t BY <3>2
      <3> QED BY <3>1, <3>2
    <2>2. \A s \in Threads : Releasing(s)' => thr'[s].aio = a \/ thr'[s] = thr[s]
      <3> TAKE s \in Threads
      <3>1. CASE s = t
        <4>1. Releasing(t) => thr[t].aio # None BY <1>1 DEF Releasing, ThreadInv
        <4> QED BY <3>1, <4>1
      <3>2. CASE s # t BY <3>2
      <3> QED BY <3>1, <3>2
    <2>3. ASSUME NEW s \in Threads, Releasing(s)', thr'[s].aio = a
          PROVE  /\ aio'[a].stop /\ aio'[a].cancel = "none" /\ a \notin freed'
                 /\ thr'[s].at = "finiTask" => expireAio' # a
                 /\ s \in Workers => thr'[UserOf[a]].at = "gone"
      <3>1. Releasing(s) /\ thr[s].aio = a
        <4>1. CASE s = t BY <2>3, <4>1
        <4>2. CASE s # t BY <2>3, <4>2 DEF Releasing
        <4> QED BY <4>1, <4>2
      <3>2. /\ aio[a].stop /\ aio[a].cancel = "none"
            /\ thr[s].at = "finiTask" => expireAio # a
            /\ s \in Workers => thr[UserOf[a]].at = "gone"
        BY <1>1, <3>1 DEF FreeInv
      <3>3. s \in Workers => thr'[UserOf[a]].at = "gone" BY <2>1, <3>2
      <3>4. thr'[s].at = "finiTask" => expireAio' # a
        <4>1. CASE s = t BY <2>3, <4>1
        <4>2. CASE s # t BY <3>2, <4>2
        <4> QED BY <4>1, <4>2
      <3> QED BY <1>3, <3>2, <3>3, <3>4
    <2> QED BY <1>1, <2>1, <2>2, <2>3, FreeMove
  <1> QED BY <1>1, <1>2, <1>3, <1>4, MoveStep

\* A consumer leaves an aio to its callback.
LEMMA GiveUpStep ==
    ASSUME AioInv, NEW a \in Aios, NEW t \in Users \cup Runners, GiveUp(t, a)
    PROVE  AioInv'
  <1> USE Sorts
  <1>1. AioTypeOK /\ ThreadInv BY DEF AioInv
  <1>2. t \in Users /\ t = UserOf[a] /\ thr[t].at = "idle" /\ a \notin freed /\ t \in Threads
    BY DEF GiveUp, UserMay
  <1>3. /\ thr' \in ThreadType /\ \A s \in Threads : s # t => thr'[s] = thr[s]
        /\ thr'[t].at = "gone" /\ thr'[t].aio = thr[t].aio
    BY <1>1, <1>2, Steps DEF GiveUp, Ats
  <1>4. DataKept /\ freed' = freed /\ expireAio' = expireAio BY DEF GiveUp, DataKept
  <1>5. ThreadInv' BY <1>1, <1>2, <1>3, <1>4 DEF ThreadInv
  <1>6. thr[t].aio \in {a, None}
    <2>1. thr[t].aio \in Aios \cup {None} /\ (thr[t].aio # None => UserOf[thr[t].aio] = t)
      BY <1>1, <1>2 DEF AioTypeOK, ThreadInv
    <2> QED BY <1>2, <2>1, AioAssumption
  <1>7. ~Works(t, a)' /\ ~Releasing(t)' BY <1>3 DEF Works, Schedules, Runs, Releasing
  <1> QED BY <1>2, <1>3, <1>4, <1>5, <1>6, <1>7, MovesOnly

\* nni_aio_stop returns.
LEMMA WaitEndsStep ==
    ASSUME AioInv, NEW t \in Threads, WaitEnds(t)
    PROVE  AioInv'
  <1> USE Sorts
  <1>1. AioTypeOK /\ ThreadInv BY DEF AioInv
  <1>2. thr[t].at = "wait" BY DEF WaitEnds
  <1>3. PICK a \in Aios \ freed : thr[t].aio = a BY <1>2, Engaged
  <1>4. t \in Users BY <1>1, <1>2 DEF ThreadInv
  <1>5. AtRest \in ThreadRec BY DEF AtRest, ThreadRec, Cancels, Results
  <1>6. thr' \in ThreadType /\ thr'[t] = AtRest /\ \A s \in Threads : s # t => thr'[s] = thr[s]
    BY <1>1, <1>5, Moved DEF WaitEnds
  <1>7. thr'[t].at = "idle" /\ thr'[t].aio = None BY <1>6 DEF AtRest
  <1>8. DataKept /\ freed' = freed /\ expireAio' = expireAio BY DEF WaitEnds, DataKept
  <1>9. ThreadInv' BY <1>1, <1>4, <1>6, <1>7, <1>8 DEF ThreadInv
  <1>10. ~Works(t, a)' /\ ~Releasing(t)' BY <1>7 DEF Works, Schedules, Runs, Releasing
  <1>11. thr' \in ThreadType /\ \A s \in Threads : s # t => thr'[s] = thr[s] BY <1>6
  <1> QED BY <1>2, <1>3, <1>4, <1>7, <1>8, <1>9, <1>10, <1>11, MovesOnly

\* nni_aio_fini goes on when the timer has let go of the aio.
LEMMA FiniExpireStep ==
    ASSUME AioInv, NEW t \in Threads, FiniExpire(t)
    PROVE  AioInv'
  <1> USE Sorts
  <1>1. AioTypeOK /\ ThreadInv BY DEF AioInv
  <1>2. thr[t].at = "finiExpire" BY DEF FiniExpire
  <1>3. PICK a \in Aios \ freed : thr[t].aio = a BY <1>2, Engaged
  <1>4. expireAio # a BY <1>3 DEF FiniExpire, ExpireReleased
  <1>5. t \in Users \/ t \in Workers BY <1>1, <1>2 DEF ThreadInv
  <1>6. /\ thr' \in ThreadType /\ \A s \in Threads : s # t => thr'[s] = thr[s]
        /\ thr'[t].at = "finiTask" /\ thr'[t].aio = thr[t].aio /\ thr'[t].next = thr[t].next
    BY <1>1, Steps DEF FiniExpire, Ats
  <1>7. DataKept /\ freed' = freed /\ expireAio' = expireAio BY DEF FiniExpire, DataKept
  <1>8. ThreadInv' BY <1>1, <1>2, <1>5, <1>6, <1>7 DEF ThreadInv
  <1>9. (Works(t, a)' => Works(t, a)) /\ Releasing(t)
    BY <1>2, <1>3, <1>6 DEF Works, Schedules, Runs, Releasing
  <1> QED BY <1>2, <1>3, <1>4, <1>6, <1>7, <1>8, <1>9, MovesOnly

\* The timer lets go.
LEMMA ExpiredStep ==
    ASSUME AioInv, Expired
    PROVE  AioInv'
  <1> USE Sorts
  <1> DEFINE t == Expirer
  <1>1. AioTypeOK /\ ThreadInv BY DEF AioInv
  <1>2. thr[t].at = "expired" BY DEF Expired
  <1>3. PICK a \in Aios \ freed : thr[t].aio = a BY <1>2, Engaged
  <1>5. AtRest \in ThreadRec BY DEF AtRest, ThreadRec, Cancels, Results
  <1>6. thr' \in ThreadType /\ thr'[t] = AtRest /\ \A s \in Threads : s # t => thr'[s] = thr[s]
    BY <1>1, <1>5, Moved DEF Expired
  <1>7. thr'[t].at = "idle" /\ thr'[t].aio = None BY <1>6 DEF AtRest
  <1>8. DataKept /\ freed' = freed /\ expireAio' = None BY DEF Expired, DataKept
  <1>9. ThreadInv' BY <1>1, <1>6, <1>7, <1>8 DEF ThreadInv
  <1>10. ~Works(t, a)' /\ ~Releasing(t)' BY <1>7 DEF Works, Schedules, Runs, Releasing
  <1>11. thr' \in ThreadType /\ \A s \in Threads : s # t => thr'[s] = thr[s] BY <1>6
  <1> QED BY <1>2, <1>3, <1>7, <1>8, <1>9, <1>10, <1>11, MovesOnly

\* The thread that comes back from a cancel function.
LEMMA CancelReturns ==
    ASSUME AioInv, NEW t \in Threads, CallCancel(t)
    PROVE  /\ thr[t].at = "fn"
           /\ thr' \in ThreadType /\ \A s \in Threads : s # t => thr'[s] = thr[s]
           /\ thr'[t].at = thr[t].next /\ thr'[t].aio = thr[t].aio
           /\ expireAio' = expireAio /\ ThreadInv'
           /\ t \in Users => thr[t].next \in {"idle", "wait", "finiExpire"}
           /\ t \in Runners => thr[t].next = "finiExpire" /\ t \in Workers
           /\ t = Expirer => thr[t].next = "expired"
  <1> USE Sorts
  <1>1. AioTypeOK /\ ThreadInv BY DEF AioInv
  <1>2. /\ thr[t].at = "fn" /\ expireAio' = expireAio
        /\ thr' = [thr EXCEPT ![t] = [AtRest EXCEPT !.at = thr[t].next, !.aio = thr[t].aio]]
    BY DEF CallCancel
  <1>3. /\ t \in Users => thr[t].next \in {"idle", "wait", "finiExpire"}
        /\ t \in Runners => thr[t].next = "finiExpire" /\ t \in Workers
        /\ t = Expirer => thr[t].next = "expired"
    BY <1>1, <1>2 DEF ThreadInv
  <1>4. thr \in [Threads -> ThreadRec] BY <1>1 DEF AioTypeOK, ThreadRec
  <1> DEFINE x == [AtRest EXCEPT !.at = thr[t].next, !.aio = thr[t].aio]
  <1>5. x \in ThreadRec BY <1>3, <1>4 DEF ThreadRec, Cancels, Results, AtRest
  <1>6. x.at = thr[t].next /\ x.aio = thr[t].aio BY DEF AtRest
  <1>7. thr' = [thr EXCEPT ![t] = x] BY <1>2, <1>4
  <1> HIDE DEF x
  <1>8. thr' \in [Threads -> ThreadRec] /\ thr'[t] = x /\ \A s \in Threads : s # t => thr'[s] = thr[s]
    BY <1>4, <1>5, <1>7
  <1>9. thr'[t].at = thr[t].next /\ thr'[t].aio = thr[t].aio
    BY <1>6, <1>8
  <1>10. ThreadInv' BY <1>1, <1>2, <1>3, <1>8, <1>9 DEF ThreadInv
  <1>11. thr' \in ThreadType BY <1>8 DEF ThreadType, ThreadRec
  <1>12. \A s \in Threads : s # t => thr'[s] = thr[s] BY <1>8
  <1> QED BY <1>2, <1>3, <1>9, <1>10, <1>11, <1>12

\* The call of the cancel function: it finishes the operation if that still waits or sleeps,
\* whichever operation it is by now.
LEMMA CallCancelStep ==
    ASSUME AioInv, NEW t \in Threads, CallCancel(t)
    PROVE  AioInv'
  <1> USE Sorts
  <1>0. AioTypeOK /\ ThreadInv /\ ListInv BY DEF AioInv
  <1>1. /\ thr[t].at = "fn"
        /\ thr' \in ThreadType /\ \A s \in Threads : s # t => thr'[s] = thr[s]
        /\ thr'[t].at = thr[t].next /\ thr'[t].aio = thr[t].aio
        /\ expireAio' = expireAio /\ ThreadInv'
        /\ t \in Users => thr[t].next \in {"idle", "wait", "finiExpire"}
        /\ t \in Runners => thr[t].next = "finiExpire" /\ t \in Workers
        /\ t = Expirer => thr[t].next = "expired"
    BY CancelReturns
  <1>2. PICK a \in Aios \ freed : thr[t].aio = a BY <1>1, Engaged
  <1>3. Releasing(t)' => Releasing(t) /\ thr'[t].at # "finiTask" BY <1>1 DEF Releasing
  <1>4. Works(t, a)' => Works(t, a) BY <1>1, <1>2 DEF Works, Schedules, Runs
  <1>5. thr'[t].at \notin {"sched", "gone", "idle"} \/ t \in Users BY <1>1
  <1>6. thr'[t].at # "sched" BY <1>1
  <1>7. CASE ~CancelFinds(a, thr[t].fn)
    <2>1. DataKept /\ freed' = freed BY <1>2, <1>7 DEF CallCancel, DataKept
    <2> QED BY <1>1, <1>2, <1>3, <1>4, <1>6, <2>1, MovesOnly
  <1>8. CASE CancelFinds(a, thr[t].fn)
    <2> DEFINE rv == thr[t].rv
    <2>1. rv \in Results BY <1>0 DEF AioTypeOK
    <2>2. /\ Finish(a, rv)
          /\ waiting' = IF thr[t].fn = "list" THEN Without(waiting, a) ELSE waiting
          /\ UNCHANGED <<expireAio, now, freed, begun, called>>
      BY <1>2, <1>8 DEF CallCancel
    <2>3. Waits(a) \/ Sleeps(a) BY <1>8 DEF CancelFinds, Waits, Sleeps
    <2>4. /\ a \notin freed /\ Prepared(a) /\ ~InQueue(a) /\ begun[a] = called[a] + 1
          /\ \A s \in Threads : ~Works(s, a)
          /\ ~(Waits(a) /\ Sleeps(a))
      BY <1>2, <2>3, RestsAlone
    <2>5. /\ waiting' \in Seq(Aios) /\ IsInjective(waiting')
          /\ \A b : Listed(waiting', b) <=> Listed(waiting, b) /\ b # a
      <3>1. waiting \in Seq(Aios) /\ IsInjective(waiting) BY <1>0 DEF AioTypeOK, ListInv
      <3>2. CASE thr[t].fn = "list" BY <2>2, <3>1, <3>2, WithoutList
      <3>3. CASE thr[t].fn # "list"
        <4>1. Sleeps(a) BY <1>8, <3>3 DEF CancelFinds, Sleeps
        <4>2. ~Listed(waiting, a) BY <2>4, <4>1 DEF Waits
        <4> QED BY <2>2, <3>1, <3>3, <4>2
      <3> QED BY <3>2, <3>3
    <2>6. \A s \in Threads : ~Works(s, a)'
      <3> TAKE s \in Threads
      <3>1. CASE s = t BY <1>4, <2>4, <3>1
      <3>2. CASE s # t BY <1>1, <2>4, <3>2 DEF Works, Schedules, Runs
      <3> QED BY <3>1, <3>2
    <2>7. CallbackThreads(a)' = CallbackThreads(a)
      <3>1. \A s \in Threads : thr'[s].aio = thr[s].aio BY <1>1
      <3> QED BY <3>1 DEF CallbackThreads
    <2>8. begun' \in [Aios -> Nat] /\ begun'[a] = called[a] + 1 /\ \A b \in Aios : b # a => begun'[b] = begun[b]
      BY <1>0, <2>2, <2>4 DEF AioTypeOK
    <2>9. \A s \in Threads : Releasing(s)' =>
                /\ Releasing(s) /\ thr'[s].aio = thr[s].aio
                /\ thr'[s].at = "finiTask" => thr[s].at = "finiTask"
      <3> TAKE s \in Threads
      <3>1. CASE s = t BY <1>1, <1>3, <3>1
      <3>2. CASE s # t BY <1>1, <3>2 DEF Releasing
      <3> QED BY <3>1, <3>2
    <2>10. \A s \in Threads : thr'[s] = thr[s] \/ (thr[s].aio \in {a, None} /\ thr'[s].aio \in {a, None})
      BY <1>1, <1>2
    <2>11. \A s \in Users : thr[s].at = "gone" => thr'[s].at = "gone"
      BY <1>1
    <2>12. UNCHANGED <<expireAio, now, freed, called>> BY <2>2
    <2>13. Finish(a, rv) BY <2>2
    <2>14. Prepared(a) \/ ~Pending(a) BY <2>4
    <2>15. thr' \in ThreadType /\ ThreadInv' BY <1>1
    <2> HIDE DEF rv
    <2>16. PICK v \in Results : rv = v BY <2>1
    <2>17. Finish(a, v) BY <2>13, <2>16
    <2> QED BY <2>4, <2>5, <2>6, <2>7, <2>8, <2>9, <2>10, <2>11, <2>12, <2>17, <2>14,
           <2>15, FinishStep
  <1> QED BY <1>7, <1>8

\* nni_task_fini releases the task: at once when it is idle, or deferred inside its callback.
LEMMA FiniTaskStep ==
    ASSUME AioInv, NEW t \in Threads, FiniTask(t)
    PROVE  AioInv'
  <1> USE Sorts
  <1>0. AioTypeOK /\ ThreadInv /\ ListInv /\ FreeInv BY DEF AioInv
  <1>1. thr[t].at = "finiTask" BY DEF FiniTask
  <1>2. PICK a \in Aios \ freed : thr[t].aio = a BY <1>1, Engaged
  <1>3. t \in Users \/ t \in Workers BY <1>0, <1>1 DEF ThreadInv
  <1>4. Placed(a) /\ Counted(a) BY DEF AioInv, PlaceInv
  <1>5. /\ expireAio # a
        /\ t \in Users => t = UserOf[a]
        /\ t \in Workers => thr[UserOf[a]].at = "gone"
    BY <1>0, <1>1, <1>2 DEF FreeInv, Releasing, ThreadInv
  <1>6. PICK p \in {"gone", "ret"} : p = IF t \in Users THEN "gone" ELSE "ret" OBVIOUS
  <1>7. /\ thr' \in ThreadType /\ \A s \in Threads : s # t => thr'[s] = thr[s]
        /\ thr'[t].at = p /\ thr'[t].aio = a
    <2>1. thr' = [thr EXCEPT ![t].at = p] BY <1>6 DEF FiniTask
    <2>2. p \in Ats BY DEF Ats
    <2> QED BY <1>0, <1>2, <2>1, <2>2, Steps
  <1>8. /\ freed' = freed \cup {a}
        /\ UNCHANGED <<aio, expireList, expireAio, tasks, waiting, now, begun, called>>
    BY <1>2 DEF FiniTask
  <1>9. /\ task' \in TaskType
        /\ \A b \in Aios : b # a => task'[b] = task[b]
        /\ task'[a].busy = task[a].busy /\ task'[a].prep = task[a].prep
    <2> DEFINE Task == TaskRec
    <2>1. task \in [Aios -> Task] BY <1>0 DEF AioTypeOK, TaskType, TaskRec
    <2>2. CASE task' = task BY <2>1, <2>2 DEF TaskType, TaskRec
    <2>3. CASE task' = [task EXCEPT ![a].reap = TRUE] BY <2>1, <2>3, ZenonT(60) DEF TaskType, TaskRec
    <2> QED BY <1>2, <2>2, <2>3 DEF FiniTask
  <1>10. ThreadInv'
    <2>1. CASE t \in Users BY <1>0, <1>1, <1>2, <1>6, <1>7, <1>8, <2>1 DEF ThreadInv
    <2>2. CASE t \in Workers BY <1>0, <1>1, <1>2, <1>6, <1>7, <1>8, <2>2 DEF ThreadInv
    <2> QED BY <1>3, <2>1, <2>2
  \* Nobody else is at work with it.
  <1>11. task[a].busy = 0 \/ t \in Workers
    <2>1. task[a].thr \in Workers \cup {None} BY <1>0 DEF AioTypeOK
    <2>2. t # None BY <1>3, AioAssumption
    <2> QED BY <1>2, <2>1, <2>2 DEF FiniTask
  <1>12. ~Pending(a) /\ \A s \in Runners : s # t /\ thr[s].aio = a => thr[s].at = "ret"
    <2>1. CASE t \in Workers
      <3>1. Works(t, a) BY <1>1, <1>2, <2>1 DEF Works, Runs
      <3>2. ~Waits(a) /\ ~Sleeps(a) /\ ~InQueue(a) /\ \A s \in Threads : s # t => ~Works(s, a)
        BY <1>4, <3>1 DEF Placed
      <3>3. ~Pending(a) BY <1>1, <3>2 DEF Pending, Prepared, Works, Schedules
      <3>4. ASSUME NEW s \in Runners, s # t, thr[s].aio = a PROVE thr[s].at = "ret"
        <4>1. ~Works(s, a) BY <3>2, <3>4
        <4>2. thr[s].at \in {"idle", "cb", "sched", "ret", "fn", "finiExpire", "finiTask"}
              /\ thr[s].at # "idle"
          BY <1>0, <3>4 DEF ThreadInv
        <4> QED BY <3>4, <4>1, <4>2 DEF Works, Schedules, Runs
      <3> QED BY <3>3, <3>4
    <2>2. CASE task[a].busy = 0
      <3>1. Cardinality(CallbackThreads(a)) \in Nat /\ Open(a) \in Nat
        BY <1>4, FS_CardinalityType DEF Counted, Open
      <3>2. Open(a) = 0 /\ Cardinality(CallbackThreads(a)) = 0 BY <1>4, <2>2, <3>1 DEF Counted
      <3>3. ~Pending(a) BY <3>2 DEF Open
      <3>4. CallbackThreads(a) = {} BY <1>4, <3>2, FS_EmptySet DEF Counted
      <3> QED BY <3>3, <3>4 DEF CallbackThreads
    <2> QED BY <1>11, <2>1, <2>2
  <1>13. thr'[UserOf[a]].at = "gone"
    <2>1. CASE t \in Users BY <1>5, <1>6, <1>7, <2>1
    <2>2. CASE t \in Workers BY <1>5, <1>7, <2>2
    <2> QED BY <1>3, <2>1, <2>2
  <1>14. ASSUME NEW s \in Threads, thr'[s].aio = a PROVE thr'[s].at \in {"idle", "ret", "gone"}
    <2>1. CASE s = t BY <1>7, <2>1
    <2>2. CASE s # t
      <3>1. thr'[s] = thr[s] /\ thr[s].aio = a BY <1>7, <1>14, <2>2
      <3>2. CASE s \in Users
        <4>1. s = UserOf[a] BY <1>0, <3>1, <3>2 DEF ThreadInv
        <4> QED BY <1>13, <4>1
      <3>3. CASE s \in Runners BY <1>12, <2>2, <3>1, <3>3
      <3>4. CASE s = Expirer BY <1>0, <1>5, <3>1, <3>4 DEF ThreadInv
      <3> QED BY <3>2, <3>3, <3>4
    <2> QED BY <2>1, <2>2
  <1>15. ~Pending(a)'
    <2>1. (Waits(a)' <=> Waits(a)) /\ Sleeps(a)' = Sleeps(a) /\ (InQueue(a)' <=> InQueue(a))
      BY <1>8 DEF Waits, Sleeps, InQueue
    <2>2. \A s \in Threads : ~Schedules(s, a)' BY <1>14 DEF Schedules
    <2> QED BY <1>12, <2>1, <2>2 DEF Pending, Prepared
  <1>16. OnlyAbout(a) => FreeInv'
    <2>1. \A s \in Users : thr[s].at = "gone" => thr'[s].at = "gone" BY <1>1, <1>7
    <2>2. \A s \in Threads : Releasing(s)' => thr'[s].aio = a \/ thr'[s] = thr[s] BY <1>7
    <2>3. \A s \in Threads : ~(Releasing(s)' /\ thr'[s].aio = a) BY <1>14 DEF Releasing
    <2>4. \A s \in Threads : thr'[s].aio = a => thr'[s].at \in {"idle", "ret", "gone"} BY <1>14
    <2>5. freed' = freed \cup {a} /\ expireAio' = expireAio BY <1>8
    <2>6. expireAio' # a BY <1>5, <2>5
    <2> QED BY <1>0, <1>13, <1>15, <2>1, <2>2, <2>3, <2>4, <2>5, <2>6, FreeMove
  <1>17. /\ expireList' \in Seq(Aios) /\ IsInjective(expireList')
         /\ expireAio' \in Aios \cup {None} /\ freed' \subseteq Aios
         /\ aio' \in AioType
    BY <1>0, <1>8 DEF AioTypeOK, ListInv, AioType, AioRec, TaskType, TaskRec
  <1>18. /\ \A b \in Aios : b # a => aio'[b] = aio[b]
         /\ aio'[a].sleep = aio[a].sleep /\ aio'[a].cancel \in {aio[a].cancel, "none"}
         /\ aio'[a].timeout = aio[a].timeout
         /\ \A b : b # a => (Listed(expireList', b) <=> Listed(expireList, b))
         /\ Listed(expireList', a) => Listed(expireList, a)
         /\ UNCHANGED <<waiting, tasks, begun, called, now>>
    BY <1>8
  <1>19. Works(t, a)' => Works(t, a) BY <1>7 DEF Works, Schedules, Runs
  <1>20. thr[t].at # "sched" /\ thr'[t].at # "sched" BY <1>1, <1>7
  <1> QED BY <1>2, <1>7, <1>9, <1>10, <1>16, <1>17, <1>18, <1>19, <1>20, MoveStep

\* The timer takes the first deadline of its list.
LEMMA ExpireStep ==
    ASSUME AioInv, Expire
    PROVE  AioInv'
  <1> USE Sorts
  <1> DEFINE t == Expirer
  <1>0. AioTypeOK /\ ThreadInv /\ ListInv /\ FreeInv BY DEF AioInv
  <1>1. /\ thr[t].at = "idle" /\ expireList # <<>> /\ expireList' = Tail(expireList)
        /\ UNCHANGED <<task, tasks, waiting, now, freed, begun, called>>
    BY DEF Expire
  <1>2. expireList \in Seq(Aios) /\ IsInjective(expireList) BY <1>0 DEF AioTypeOK, ListInv
  <1>3. PICK a \in Aios : Head(expireList) = a BY <1>1, <1>2, TailList
  <1>4. /\ Listed(expireList, a) /\ expireList' \in Seq(Aios) /\ IsInjective(expireList')
        /\ \A b : Listed(expireList', b) <=> Listed(expireList, b) /\ b # a
    BY <1>1, <1>2, <1>3, TailList
  <1>5. Waits(a) \/ Sleeps(a) BY <1>0, <1>4 DEF ListInv
  <1>6. a \notin freed /\ \A s \in Threads : ~Works(s, a) BY <1>5, RestsAlone
  <1>7. thr[t].aio = None BY <1>0, <1>1 DEF ThreadInv
  <1>8. /\ task' \in TaskType
        /\ \A b \in Aios : b # a => task'[b] = task[b]
        /\ task'[a].busy = task[a].busy /\ task'[a].prep = task[a].prep
        /\ freed' \subseteq Aios
        /\ \A b : b # a => (Listed(expireList', b) <=> Listed(expireList, b))
        /\ Listed(expireList', a) => Listed(expireList, a)
        /\ UNCHANGED <<waiting, tasks, begun, called, now>> /\ freed' = freed
    BY <1>0, <1>1, <1>4 DEF AioTypeOK, AioType, AioRec, TaskType, TaskRec
  <1>9. CASE aio[a].cancel = "none"
    <2>1. aio' = aio /\ thr' = thr /\ expireAio' = expireAio BY <1>3, <1>9 DEF Expire
    <2>2. /\ aio' \in AioType
          /\ thr' \in ThreadType /\ expireAio' \in Aios \cup {None}
      BY <1>0, <2>1 DEF AioTypeOK, ThreadType, AioType, AioRec, TaskType, TaskRec
    <2>3. ThreadInv' BY <1>0, <2>1 DEF ThreadInv
    <2>4. OnlyAbout(a) => FreeInv'
      <3>1. \A s \in Threads : Releasing(s)' => thr'[s].aio = a \/ thr'[s] = thr[s] BY <2>1
      <3>2. \A s \in Users : thr[s].at = "gone" => thr'[s].at = "gone" BY <2>1
      <3>3. \A s \in Threads : Releasing(s)' /\ thr'[s].aio = a =>
                /\ aio'[a].stop /\ aio'[a].cancel = "none" /\ a \notin freed'
                /\ thr'[s].at = "finiTask" => expireAio' # a
                /\ s \in Workers => thr'[UserOf[a]].at = "gone"
        BY <1>0, <1>1, <2>1 DEF FreeInv, Releasing
      <3> QED BY <1>0, <1>6, <1>8, <2>1, <3>1, <3>2, <3>3, FreeMove
    <2>5. Works(t, a)' => Works(t, a) BY <2>1 DEF Works, Schedules, Runs
    <2>6. \A b \in Aios : b # a => aio'[b] = aio[b] BY <2>1
    <2>7. /\ aio'[a].sleep = aio[a].sleep /\ aio'[a].cancel \in {aio[a].cancel, "none"}
          /\ aio'[a].timeout = aio[a].timeout
      BY <2>1
    <2>8. /\ \A s \in Threads : s # t => thr'[s] = thr[s]
          /\ thr[t].aio \in {a, None} /\ thr'[t].aio \in {a, None}
          /\ thr[t].at # "sched" /\ thr'[t].at # "sched"
      BY <1>1, <1>7, <2>1
    <2> QED BY <1>4, <1>8, <2>2, <2>3, <2>4, <2>5, <2>6, <2>7, <2>8, MoveStep
  <1>10. CASE aio[a].cancel # "none"
    <2> DEFINE x == [at |-> "fn", aio |-> a, fn |-> aio[a].cancel,
                     rv |-> IF aio[a].sleep THEN aio[a].sleeprv ELSE "timedout", next |-> "expired"]
    <2>1. thr' = [thr EXCEPT ![t] = x] /\ expireAio' = a BY <1>3, <1>10 DEF Expire, Take
    <2>a. Disarmed(a, aio[a].stop)
      <3>1. aio' = [aio EXCEPT ![a].cancel = "none"] BY <1>3, <1>10 DEF Expire
      <3> QED BY <1>0, <3>1 DEF Disarmed, AioTypeOK
    <2>b. PICK stop \in BOOLEAN : aio[a].stop = stop BY <1>0 DEF AioTypeOK
    <2>2. x \in ThreadRec
      <3>1. aio[a].sleeprv \in Results /\ aio[a].cancel \in Cancels /\ "timedout" \in Results
        BY <1>0 DEF AioTypeOK, Results
      <3> QED BY <3>1 DEF ThreadRec
    <2>3. thr' \in ThreadType /\ thr'[t] = x /\ \A s \in Threads : s # t => thr'[s] = thr[s]
      BY <1>0, <2>1, <2>2, Moved
    <2>4. thr'[t].at = "fn" /\ thr'[t].aio = a /\ thr'[t].next = "expired" BY <2>3
    <2> HIDE DEF x
    <2>5. ThreadInv' BY <1>0, <2>1, <2>3, <2>4 DEF ThreadInv
    <2>6. /\ aio' \in AioType
          /\ \A b \in Aios : b # a => aio'[b] = aio[b]
          /\ aio'[a].sleep = aio[a].sleep /\ aio'[a].timeout = aio[a].timeout
          /\ aio'[a].cancel = "none" /\ aio'[a].stop = stop
      BY <1>0, <2>a, <2>b, DisarmedEffect
    <2>7. OnlyAbout(a) => FreeInv'
      <3>1. \A s \in Threads : Releasing(s)' => thr'[s].aio = a \/ thr'[s] = thr[s] BY <2>3, <2>4
      <3>2. \A s \in Users : thr[s].at = "gone" => thr'[s].at = "gone" BY <2>3
      <3>3. ASSUME NEW s \in Threads, Releasing(s)', thr'[s].aio = a PROVE FALSE
        <4>1. s # t BY <2>4, <3>3 DEF Releasing
        <4>2. Releasing(s) /\ thr[s].aio = a BY <2>3, <3>3, <4>1 DEF Releasing
        <4> QED BY <1>0, <1>10, <4>2 DEF FreeInv
      <3> QED BY <1>0, <1>6, <1>8, <2>1, <3>1, <3>2, <3>3, FreeMove
    <2>8. Works(t, a)' => Works(t, a) BY <2>4 DEF Works, Schedules, Runs
    <2>9. /\ \A s \in Threads : s # t => thr'[s] = thr[s]
          /\ thr[t].aio \in {a, None} /\ thr'[t].aio \in {a, None}
          /\ thr[t].at # "sched" /\ thr'[t].at # "sched"
          /\ thr' \in ThreadType /\ expireAio' \in Aios \cup {None}
      BY <1>1, <1>7, <2>1, <2>3, <2>4
    <2>10. aio'[a].cancel \in {aio[a].cancel, "none"} BY <2>6
    <2> QED BY <1>4, <1>8, <2>5, <2>6, <2>7, <2>8, <2>9, <2>10, MoveStep
  <1> QED BY <1>9, <1>10

-----------------------------------------------------------------------------
(* Steps that begin, schedule, run and end an operation.                   *)

LEMMA BeginStep ==
    ASSUME AioInv, NEW a \in Aios, NEW t \in Users \cup Runners,
           NEW d \in Durations \cup {Never}, NEW fn \in Use[a], Begin(t, a, d, fn)
    PROVE  AioInv'
  <1> USE Sorts
  <1>0. AioTypeOK /\ ThreadInv /\ ListInv /\ FreeInv /\ PlaceInv /\ ClockInv /\ t \in Threads
    BY DEF AioInv
  <1>1. /\ a \notin freed /\ thr[t].aio \in {a, None}
        /\ ~Pending(a) /\ task[a].prep = FALSE /\ begun[a] = called[a]
        /\ \A s \in Threads : s # t => ~Works(s, a)
        /\ \/ t \in Users /\ t = UserOf[a] /\ thr[t].at = "idle"
           \/ t \in Runners /\ thr[t].at = "cb" /\ thr[t].aio = a
    BY BeginsAlone DEF Begin
  <1>2. Placed(a) /\ Counted(a) BY <1>0 DEF PlaceInv
  <1>3. /\ d \in Nat => now + d <= MaxTime
        /\ aio' = [aio EXCEPT ![a].result = "ok", ![a].cancel = "none", ![a].timeout = d]
        /\ task' = [task EXCEPT ![a].busy = @ + 1, ![a].prep = TRUE]
        /\ begun' = [begun EXCEPT ![a] = @ + 1]
        /\ UNCHANGED <<expireList, expireAio, tasks, waiting, now, freed, called>>
    BY DEF Begin
  <1> DEFINE x == [at |-> "sched", aio |-> a, fn |-> fn, rv |-> "ok", next |-> thr[t].at]
  <1>4. thr' = [thr EXCEPT ![t] = x] BY DEF Begin
  <1>5. x \in ThreadRec
    <2>1. fn \in Cancels BY AioAssumption DEF Cancels
    <2> QED BY <1>1, <2>1 DEF ThreadRec, Results
  <1>6. thr' \in ThreadType /\ thr'[t] = x /\ \A s \in Threads : s # t => thr'[s] = thr[s]
    BY <1>0, <1>4, <1>5, Moved
  <1>7. thr'[t].at = "sched" /\ thr'[t].aio = a BY <1>6
  <1> HIDE DEF x
  <1>8. ThreadInv' BY <1>0, <1>1, <1>3, <1>6, <1>7 DEF ThreadInv
  <1>9. /\ aio' \in AioType
        /\ \A b \in Aios : b # a => aio'[b] = aio[b]
        /\ aio'[a].sleep = aio[a].sleep /\ aio'[a].stop = aio[a].stop
        /\ aio'[a].cancel = "none" /\ aio'[a].timeout = d
    <2> DEFINE Aio == AioRec
               y == [aio[a] EXCEPT !.result = "ok", !.cancel = "none", !.timeout = d]
    <2>1. aio \in [Aios -> Aio] BY <1>0 DEF AioTypeOK, AioType, AioRec
    <2>2. aio[a] \in Aio BY <2>1
    <2>3. y \in Aio BY <2>2 DEF Cancels, Results, AioType, AioRec
    <2>4. /\ y.cancel = "none" /\ y.timeout = d
          /\ y.sleep = aio[a].sleep /\ y.stop = aio[a].stop
      BY <2>2
    <2>5. aio' = [aio EXCEPT ![a] = y] BY <1>3, <2>1
    <2> HIDE DEF Aio, y
    <2>6. aio' \in [Aios -> Aio] /\ aio'[a] = y /\ \A b \in Aios : b # a => aio'[b] = aio[b]
      BY <2>1, <2>3, <2>5
    <2> QED BY <2>4, <2>6 DEF Aio, AioType, AioRec
  <1>10. /\ task' \in TaskType
         /\ \A b \in Aios : b # a => task'[b] = task[b]
         /\ task'[a].prep = TRUE /\ task'[a].busy = task[a].busy + 1
    <2> DEFINE Task == TaskRec
               y == [task[a] EXCEPT !.busy = task[a].busy + 1, !.prep = TRUE]
    <2>1. task \in [Aios -> Task] BY <1>0 DEF AioTypeOK, TaskType, TaskRec
    <2>2. task[a] \in Task BY <2>1
    <2>a. task[a].busy + 1 \in Nat BY <2>2 DEF TaskType, TaskRec
    <2>b. y \in Task BY <2>2, <2>a DEF TaskType, TaskRec
    <2>c. y.prep = TRUE BY <2>2
    <2>d. y.busy = task[a].busy + 1 BY <2>2
    <2>3. y \in Task /\ y.prep = TRUE /\ y.busy = task[a].busy + 1 BY <2>b, <2>c, <2>d
    <2>4. task' = [task EXCEPT ![a] = y] BY <1>3, <2>1
    <2> HIDE DEF Task, y
    <2>5. task' \in [Aios -> Task] /\ task'[a] = y /\ \A b \in Aios : b # a => task'[b] = task[b]
      BY <2>1, <2>3, <2>4
    <2> QED BY <2>3, <2>5 DEF Task, TaskType, TaskRec
  <1>11. begun' \in [Aios -> Nat] /\ begun'[a] = called[a] + 1 /\ \A b \in Aios : b # a => begun'[b] = begun[b]
    BY <1>0, <1>1, <1>3 DEF AioTypeOK
  <1>12. \A s \in Threads : thr'[s] = thr[s] \/ (thr[s].aio \in {a, None} /\ thr'[s].aio \in {a, None})
    <2> TAKE s \in Threads
    <2>1. CASE s = t BY <1>1, <1>7, <2>1
    <2>2. CASE s # t BY <1>6, <2>2
    <2> QED BY <2>1, <2>2
  <1>13. OnlyAbout(a) BY <1>3, <1>9, <1>10, <1>11, <1>12 DEF OnlyAbout
  <1>14. ~Waits(a)' /\ ~Sleeps(a)' /\ ~InQueue(a)'
    BY <1>1, <1>3, <1>9 DEF Pending, Prepared, Waits, Sleeps, InQueue
  <1>15. Schedules(t, a)' BY <1>7 DEF Schedules
  <1>16. \A s \in Threads : s # t => ~Works(s, a)'
    BY <1>1, <1>6 DEF Works, Schedules, Runs
  <1>17. CallbackThreads(a)' = CallbackThreads(a) BY <1>1, <1>6, <1>7 DEF CallbackThreads
  <1>18. Placed(a)' BY <1>14, <1>16 DEF Placed
  <1>19. Counted(a)'
    <2>1. Prepared(a)' BY <1>0, <1>15 DEF Prepared
    <2>2. Open(a)' = 1 BY <2>1 DEF Open, Pending
    <2>3. Open(a) = 0 BY <1>1 DEF Open
    <2>4. Cardinality(CallbackThreads(a)) \in Nat BY <1>2, FS_CardinalityType DEF Counted
    <2>5. task'[a].busy = Cardinality(CallbackThreads(a)) + 1 BY <1>2, <1>10, <2>3, <2>4 DEF Counted
    <2>6. called'[a] = called[a] BY <1>3
    <2> QED BY <1>2, <1>10, <1>11, <1>17, <2>1, <2>2, <2>5, <2>6 DEF Counted
  <1>20. PlaceInv' BY <1>0, <1>13, <1>18, <1>19, PlaceStep
  <1>21. ListInv'
    <2>1. ~Listed(expireList, a) BY <1>0, <1>1 DEF ListInv, Pending, Prepared
    <2>2. IsInjective(waiting') /\ IsInjective(tasks') /\ IsInjective(expireList')
      BY <1>0, <1>3 DEF ListInv
    <2>3. ~Listed(expireList', a) BY <1>3, <2>1
    <2> QED BY <1>0, <1>9, <1>13, <2>2, <2>3, ListStep
  <1>22. FreeInv'
    <2>1. freed' = freed /\ expireAio' \in {expireAio, None} BY <1>3
    <2>2. \A s \in Users : thr[s].at = "gone" => thr'[s].at = "gone" BY <1>1, <1>6
    <2>3. \A s \in Threads : Releasing(s)' =>
                /\ Releasing(s) /\ thr'[s].aio = thr[s].aio
                /\ thr'[s].at = "finiTask" => thr[s].at = "finiTask"
      BY <1>6, <1>7 DEF Releasing
    <2>4. a \in Aios \ freed BY <1>1
    <2>5. (aio[a].stop => aio'[a].stop) /\ (aio[a].stop /\ aio[a].cancel = "none" => aio'[a].cancel = "none")
      BY <1>9
    <2> QED BY <1>0, <1>13, <2>1, <2>2, <2>3, <2>4, <2>5, FreeStep
  <1>23. ClockInv'
    <2>1. now' = now BY <1>3
    <2>2. \A s \in Threads : Schedules(s, a)' /\ aio'[a].timeout \in Nat => now + aio'[a].timeout <= MaxTime
      BY <1>3, <1>9
    <2> QED BY <1>0, <1>8, <1>13, <2>1, <2>2, ClockStep
  <1>24. AioTypeOK' BY <1>0, <1>3, <1>6, <1>9, <1>10, <1>11 DEF AioTypeOK, ThreadType, AioType, AioRec, TaskType, TaskRec
  <1> QED BY <1>8, <1>20, <1>21, <1>22, <1>23, <1>24 DEF AioInv

\* Both ways to schedule: the operation rests with the provider, or asleep.
LEMMA RestStep ==
    ASSUME AioInv, NEW t \in Threads, NEW a \in Aios, thr[t].at = "sched", thr[t].aio = a,
           ~aio[a].stop,
           aio' \in AioType,
           \A b \in Aios : b # a => aio'[b] = aio[b],
           expireList' \in Seq(Aios), IsInjective(expireList'),
           \A b : b # a => (Listed(expireList', b) <=> Listed(expireList, b)),
           waiting' \in Seq(Aios), IsInjective(waiting'),
           \A b : b # a => (Listed(waiting', b) <=> Listed(waiting, b)),
           Waits(a)' \/ Sleeps(a)', ~(Waits(a)' /\ Sleeps(a)'),
           thr' = [thr EXCEPT ![t] = Resume(t)],
           UNCHANGED <<expireAio, task, tasks, now, freed, begun, called>>
    PROVE  AioInv'
  <1> USE Sorts
  <1>0. AioTypeOK /\ ThreadInv /\ ListInv /\ FreeInv /\ PlaceInv /\ ClockInv /\ Placed(a) /\ Counted(a)
    BY DEF AioInv, PlaceInv
  <1>1. /\ a \in Aios \ freed /\ t \in Users \cup Runners
        /\ ~Waits(a) /\ ~Sleeps(a) /\ ~InQueue(a)
        /\ Prepared(a) /\ begun[a] = called[a] + 1
        /\ \A s \in Threads : s # t => ~Works(s, a)
    BY SchedulesAlone
  <1>2. /\ ThreadStep(t)
        /\ t \in Users => thr'[t].at = "idle" /\ thr'[t].aio = None
        /\ t \in Runners => thr'[t].at = "ret" /\ thr'[t].aio = a
    BY <1>0, <1>1, ResumeStep
  <1>3. thr' \in ThreadType /\ ThreadInv' /\ \A s \in Threads : s # t => thr'[s] = thr[s]
    BY <1>2 DEF ThreadStep
  <1>4. thr'[t].at \in {"idle", "ret"} /\ thr'[t].aio \in {a, None} BY <1>1, <1>2
  <1>5. \A s \in Threads : ~Works(s, a)'
    BY <1>1, <1>3, <1>4 DEF Works, Schedules, Runs
  <1>6. CallbackThreads(a)' = CallbackThreads(a) BY <1>1, <1>2, <1>3 DEF CallbackThreads
  <1>7. \A s \in Threads : thr'[s] = thr[s] \/ (thr[s].aio \in {a, None} /\ thr'[s].aio \in {a, None})
    <2>2. thr'[t].aio \in {a, None} BY <1>4
    <2> TAKE s \in Threads
    <2>3. CASE s = t BY <2>2, <2>3
    <2>4. CASE s # t BY <1>3, <2>4
    <2> QED BY <2>3, <2>4
  <1>8. OnlyAbout(a) BY <1>7 DEF OnlyAbout
  <1>9. ~InQueue(a)' BY <1>1 DEF InQueue
  <1>10. Placed(a)' BY <1>5, <1>9 DEF Placed
  <1>11. Counted(a)'
    <2>1. Prepared(a)' /\ Open(a)' = 1 BY DEF Prepared, Open, Pending
    <2>2. Open(a) = 1 BY <1>1 DEF Open, Pending
    <2> QED BY <1>0, <1>1, <1>6, <2>1, <2>2 DEF Counted
  <1>12. PlaceInv' BY <1>0, <1>8, <1>10, <1>11, PlaceStep
  <1>13. ListInv'
    <2>1. IsInjective(tasks') BY <1>0 DEF ListInv
    <2> QED BY <1>0, <1>8, <2>1, ListStep
  <1>14. FreeInv'
    <2>1. freed' = freed /\ expireAio' \in {expireAio, None} OBVIOUS
    <2>2. \A s \in Users : thr[s].at = "gone" => thr'[s].at = "gone" BY <1>3
    <2>3. \A s \in Threads : Releasing(s)' =>
                /\ Releasing(s) /\ thr'[s].aio = thr[s].aio
                /\ thr'[s].at = "finiTask" => thr[s].at = "finiTask"
      BY <1>3, <1>4 DEF Releasing
    <2> QED BY <1>0, <1>1, <1>8, <2>1, <2>2, <2>3, FreeStep
  <1>15. ClockInv'
    <2>1. now' = now OBVIOUS
    <2>2. \A s \in Threads : ~Schedules(s, a)' BY <1>5 DEF Works
    <2> QED BY <1>0, <1>3, <1>8, <2>1, <2>2, ClockStep
  <1>16. AioTypeOK' BY <1>0, <1>3 DEF AioTypeOK, ThreadType, AioType, AioRec, TaskType, TaskRec
  <1> QED BY <1>3, <1>12, <1>13, <1>14, <1>15, <1>16 DEF AioInv

\* nni_aio_schedule and the wait for a message.
LEMMA ScheduleListStep ==
    ASSUME AioInv, NEW t \in Threads, ScheduleList(t)
    PROVE  AioInv'
  <1> USE Sorts
  <1>0. AioTypeOK /\ ListInv /\ ClockInv BY DEF AioInv
  <1>a. thr[t].at = "sched" BY DEF ScheduleList
  <1>b. PICK a \in Aios : thr[t].aio = a BY <1>a, SchedulesAlone
  <1> DEFINE e == IF aio[a].timeout = Never THEN Never ELSE now + aio[a].timeout
  <1>1. ~Waits(a) /\ ~Sleeps(a) BY <1>a, <1>b, SchedulesAlone
  <1>2. /\ ScheduleError(a, "list") = "ok"
        /\ aio' = [aio EXCEPT ![a].expire = e, ![a].cancel = "list"]
        /\ expireList' = IF e = Never THEN expireList ELSE ExpireAdd(a, e)
        /\ waiting' = Append(Without(waiting, a), a)
        /\ thr' = [thr EXCEPT ![t] = Resume(t)]
        /\ UNCHANGED <<expireAio, task, tasks, now, freed, begun, called>>
    BY <1>b DEF ScheduleList
  <1>3. ~aio[a].stop BY <1>2 DEF ScheduleError
  <1>4. e \in 0 .. MaxTime \cup {Never}
    <2>1. aio[a].timeout \in Nat \cup {Never} /\ now \in 0 .. MaxTime /\ MaxTime \in Nat
      BY <1>0, AioAssumption DEF AioTypeOK
    <2>2. aio[a].timeout \in Nat => now + aio[a].timeout <= MaxTime
      BY <1>0, <1>a, <1>b DEF ClockInv
    <2> QED BY <2>1, <2>2
  <1> HIDE DEF e
  <1>5. /\ aio' \in AioType
        /\ \A b \in Aios : b # a => aio'[b] = aio[b]
        /\ aio'[a].sleep = aio[a].sleep
    <2> DEFINE Aio == AioRec
               y == [aio[a] EXCEPT !.expire = e, !.cancel = "list"]
    <2>1. aio \in [Aios -> Aio] BY <1>0 DEF AioTypeOK, AioType, AioRec
    <2>2. aio[a] \in Aio BY <2>1
    <2>3. y \in Aio BY <1>4, <2>2 DEF Cancels, AioType, AioRec
    <2>4. y.sleep = aio[a].sleep BY <2>2
    <2>5. aio' = [aio EXCEPT ![a] = y] BY <1>2, <2>1
    <2> HIDE DEF Aio, y
    <2>6. aio' \in [Aios -> Aio] /\ aio'[a] = y /\ \A b \in Aios : b # a => aio'[b] = aio[b]
      BY <2>1, <2>3, <2>5
    <2> QED BY <2>4, <2>6 DEF Aio, AioType, AioRec
  <1>6. ~Listed(expireList, a) BY <1>0, <1>1 DEF ListInv
  <1>7. /\ expireList' \in Seq(Aios) /\ IsInjective(expireList')
        /\ \A b : b # a => (Listed(expireList', b) <=> Listed(expireList, b))
    <2>1. expireList \in Seq(Aios) /\ IsInjective(expireList) BY <1>0 DEF AioTypeOK, ListInv
    <2>2. CASE e = Never
      <3>1. expireList' = expireList BY <1>2, <2>2
      <3> QED BY <2>1, <3>1
    <2>3. CASE e # Never
      <3>1. expireList' = ExpireAdd(a, e) BY <1>2, <2>3
      <3> QED BY <1>6, <2>1, <3>1, ExpireAddList
    <2> QED BY <2>2, <2>3
  <1>8. /\ waiting' \in Seq(Aios) /\ IsInjective(waiting')
        /\ \A b : Listed(waiting', b) <=> Listed(waiting, b) \/ b = a
    <2>1. waiting \in Seq(Aios) /\ IsInjective(waiting) BY <1>0 DEF AioTypeOK, ListInv
    <2> DEFINE w == Without(waiting, a)
    <2>2. /\ w \in Seq(Aios) /\ IsInjective(w)
          /\ \A b : Listed(w, b) <=> Listed(waiting, b) /\ b # a
      BY <2>1, WithoutList
    <2>3. waiting' = Append(w, a) BY <1>2
    <2> HIDE DEF w
    <2>4. ~Listed(w, a) BY <2>2
    <2> QED BY <2>2, <2>3, <2>4, AppendList
  <1>9. Waits(a)' BY <1>8 DEF Waits
  <1>10. ~Sleeps(a)' BY <1>1, <1>5 DEF Sleeps
  <1>11. \A b : b # a => (Listed(waiting', b) <=> Listed(waiting, b)) BY <1>8
  <1>12. UNCHANGED <<expireAio, task, tasks, now, freed, begun, called>> BY <1>2
  <1>13. thr' = [thr EXCEPT ![t] = Resume(t)] BY <1>2
  <1>14. waiting' \in Seq(Aios) /\ IsInjective(waiting') BY <1>8
  <1> QED BY <1>a, <1>b, <1>3, <1>5, <1>7, <1>9, <1>10, <1>11, <1>12, <1>13, <1>14, RestStep

\* nni_sleep_aio.
LEMMA ScheduleSleepStep ==
    ASSUME AioInv, NEW t \in Threads, NEW ms \in Durations, ScheduleSleep(t, ms)
    PROVE  AioInv'
  <1> USE Sorts
  <1>0. AioTypeOK /\ ListInv /\ ClockInv BY DEF AioInv
  <1>a. thr[t].at = "sched" BY DEF ScheduleSleep
  <1>b. PICK a \in Aios : thr[t].aio = a BY <1>a, SchedulesAlone
  <1> DEFINE early == aio[a].timeout # Never /\ ms > aio[a].timeout
             e == now + (IF early THEN aio[a].timeout ELSE ms)
             rv == IF early THEN "timedout" ELSE "ok"
  <1>1. ~Waits(a) /\ ~Sleeps(a) BY <1>a, <1>b, SchedulesAlone
  <1>2. /\ ScheduleError(a, "sleep") = "ok" /\ e <= MaxTime
        /\ aio' = [aio EXCEPT ![a].sleep = TRUE, ![a].sleeprv = rv,
                              ![a].expire = e, ![a].cancel = "sleep"]
        /\ expireList' = ExpireAdd(a, e)
        /\ thr' = [thr EXCEPT ![t] = Resume(t)]
        /\ UNCHANGED <<expireAio, task, tasks, waiting, now, freed, begun, called>>
    BY <1>b DEF ScheduleSleep
  <1>3. ~aio[a].stop BY <1>2 DEF ScheduleError
  <1>4. e \in 0 .. MaxTime \cup {Never} /\ rv \in Results
    <2>1. /\ aio[a].timeout \in Nat \cup {Never} /\ now \in 0 .. MaxTime /\ MaxTime \in Nat
          /\ ms \in Nat
      BY <1>0, AioAssumption DEF AioTypeOK
    <2>2. e \in Nat BY <2>1
    <2> QED BY <1>2, <2>1, <2>2 DEF Results
  <1> HIDE DEF e, rv
  <1>5. /\ aio' \in AioType
        /\ \A b \in Aios : b # a => aio'[b] = aio[b]
        /\ aio'[a].sleep = TRUE
    <2> DEFINE Aio == AioRec
               y == [aio[a] EXCEPT !.sleep = TRUE, !.sleeprv = rv, !.expire = e, !.cancel = "sleep"]
    <2>1. aio \in [Aios -> Aio] BY <1>0 DEF AioTypeOK, AioType, AioRec
    <2>2. aio[a] \in Aio BY <2>1
    <2>3. y \in Aio BY <1>4, <2>2 DEF Cancels, AioType, AioRec
    <2>4. y.sleep = TRUE BY <2>2
    <2>5. aio' = [aio EXCEPT ![a] = y] BY <1>2, <2>1
    <2> HIDE DEF Aio, y
    <2>6. aio' \in [Aios -> Aio] /\ aio'[a] = y /\ \A b \in Aios : b # a => aio'[b] = aio[b]
      BY <2>1, <2>3, <2>5
    <2> QED BY <2>4, <2>6 DEF Aio, AioType, AioRec
  <1>6. ~Listed(expireList, a) BY <1>0, <1>1 DEF ListInv
  <1>7. /\ expireList' \in Seq(Aios) /\ IsInjective(expireList')
        /\ \A b : b # a => (Listed(expireList', b) <=> Listed(expireList, b))
    <2>1. expireList \in Seq(Aios) /\ IsInjective(expireList) BY <1>0 DEF AioTypeOK, ListInv
    <2>2. expireList' = ExpireAdd(a, e) BY <1>2
    <2> QED BY <1>6, <2>1, <2>2, ExpireAddList
  <1>8. /\ waiting' \in Seq(Aios) /\ IsInjective(waiting')
        /\ \A b : b # a => (Listed(waiting', b) <=> Listed(waiting, b))
    BY <1>0, <1>2 DEF AioTypeOK, ListInv
  <1>9. Sleeps(a)' BY <1>5 DEF Sleeps
  <1>10. ~Waits(a)' BY <1>1, <1>2 DEF Waits
  <1>12. UNCHANGED <<expireAio, task, tasks, now, freed, begun, called>> BY <1>2
  <1>13. thr' = [thr EXCEPT ![t] = Resume(t)] BY <1>2
  <1> QED BY <1>a, <1>b, <1>3, <1>5, <1>7, <1>8, <1>9, <1>10, <1>12, <1>13, RestStep

\* A callback starts, on a thread of the task queue or on the provider's.
LEMMA StartStep ==
    ASSUME AioInv, NEW a \in Aios, NEW t \in Runners, thr[t].at = "idle",
           Pending(a), \A s \in Threads : ~Works(s, a),
           thr' = [thr EXCEPT ![t] = [AtRest EXCEPT !.at = "cb", !.aio = a]],
           aio' \in AioType,
           \A b \in Aios : b # a => aio'[b] = aio[b],
           aio'[a].stop = aio[a].stop, aio'[a].cancel = "none", ~Sleeps(a)',
           task' \in TaskType,
           \A b \in Aios : b # a => task'[b] = task[b],
           task'[a].prep = FALSE, task'[a].busy = task[a].busy,
           waiting' \in Seq(Aios), IsInjective(waiting'), ~Waits(a)',
           \A b : b # a => (Listed(waiting', b) <=> Listed(waiting, b)),
           tasks' \in Seq(Aios), IsInjective(tasks'), ~InQueue(a)',
           \A b : b # a => (Listed(tasks', b) <=> Listed(tasks, b)),
           expireList' \in Seq(Aios), IsInjective(expireList'), ~Listed(expireList', a),
           \A b : b # a => (Listed(expireList', b) <=> Listed(expireList, b)),
           called' = [called EXCEPT ![a] = @ + 1],
           UNCHANGED <<expireAio, now, freed, begun>>
    PROVE  AioInv'
  <1> USE Sorts
  <1>0. AioTypeOK /\ ThreadInv /\ ListInv /\ FreeInv /\ PlaceInv /\ ClockInv /\ Placed(a) /\ Counted(a)
        /\ t \in Threads
    BY DEF AioInv, PlaceInv
  <1>1. a \notin freed BY <1>0 DEF FreeInv
  <1> DEFINE x == [AtRest EXCEPT !.at = "cb", !.aio = a]
  <1>2. x \in ThreadRec /\ x.at = "cb" /\ x.aio = a
    BY DEF AtRest, ThreadRec, Cancels, Results
  <1>3. thr' \in ThreadType /\ thr'[t] = x /\ \A s \in Threads : s # t => thr'[s] = thr[s]
    BY <1>0, <1>2, Moved
  <1> HIDE DEF x
  <1>4. thr'[t].at = "cb" /\ thr'[t].aio = a BY <1>2, <1>3
  <1>5. thr[t].aio = None BY <1>0 DEF ThreadInv
  <1>6. ThreadInv'
    <2>1. expireAio' = expireAio OBVIOUS
    <2> QED BY <1>0, <1>3, <1>4, <2>1 DEF ThreadInv
  <1>7. \A s \in Threads : thr'[s] = thr[s] \/ (thr[s].aio \in {a, None} /\ thr'[s].aio \in {a, None})
    <2> TAKE s \in Threads
    <2>1. CASE s = t BY <1>4, <1>5, <2>1
    <2>2. CASE s # t BY <1>3, <2>2
    <2> QED BY <2>1, <2>2
  <1>8. called' \in [Aios -> Nat] /\ called'[a] = called[a] + 1 /\ \A b \in Aios : b # a => called'[b] = called[b]
    BY <1>0 DEF AioTypeOK
  <1>9. OnlyAbout(a)
    <2>1. \A b \in Aios : b # a => begun'[b] = begun[b] OBVIOUS
    <2> QED BY <1>7, <1>8, <2>1 DEF OnlyAbout
  <1>10. \A s \in Threads : s # t => ~Works(s, a)'
    BY <1>3 DEF Works, Schedules, Runs
  <1>11. Placed(a)' BY <1>10 DEF Placed
  <1>12. CallbackThreads(a)' = CallbackThreads(a) \cup {t} /\ t \notin CallbackThreads(a)
    <2>1. t \notin CallbackThreads(a) BY <1>5 DEF CallbackThreads
    <2>2. \A s \in Runners : thr'[s].aio = a <=> thr[s].aio = a \/ s = t
      <3> TAKE s \in Runners
      <3>1. CASE s = t BY <1>4, <3>1
      <3>2. CASE s # t BY <1>3, <3>2
      <3> QED BY <3>1, <3>2
    <2> QED BY <2>1, <2>2 DEF CallbackThreads
  <1>13. Counted(a)'
    <2>1. \A s \in Threads : ~Schedules(s, a)' BY <1>4, <1>10 DEF Works, Schedules
    <2>2. ~Prepared(a)' /\ Open(a)' = 0 BY <2>1 DEF Prepared, Open, Pending
    <2>3. Open(a) = 1 BY DEF Open
    <2>4. IsFiniteSet(CallbackThreads(a)) BY <1>0 DEF Counted
    <2>5. IsFiniteSet(CallbackThreads(a)') /\ Cardinality(CallbackThreads(a)') = Cardinality(CallbackThreads(a)) + 1
      BY <1>12, <2>4, FS_AddElement, SMTT(30)
    <2>6. Cardinality(CallbackThreads(a)) \in Nat BY <2>4, FS_CardinalityType
    <2>7. task'[a].busy = Cardinality(CallbackThreads(a)) + 1 BY <1>0, <2>3 DEF Counted
    <2>8. begun'[a] = called'[a] + 0
      <3>1. called[a] \in Nat BY <1>0 DEF AioTypeOK
      <3>2. begun[a] = called[a] + 1 BY <1>0, <2>3 DEF Counted
      <3> QED BY <1>8, <3>1, <3>2
    <2>9. task'[a].busy = Cardinality(CallbackThreads(a)') + 0 BY <2>5, <2>6, <2>7
    <2> QED BY <2>2, <2>5, <2>8, <2>9 DEF Counted
  <1>14. PlaceInv' BY <1>0, <1>9, <1>11, <1>13, PlaceStep
  <1>15. ListInv' BY <1>0, <1>9, ListStep
  <1>16. FreeInv'
    <2>1. freed' = freed /\ expireAio' \in {expireAio, None} OBVIOUS
    <2>2. \A s \in Users : thr[s].at = "gone" => thr'[s].at = "gone" BY <1>3
    <2>3. \A s \in Threads : Releasing(s)' =>
                /\ Releasing(s) /\ thr'[s].aio = thr[s].aio
                /\ thr'[s].at = "finiTask" => thr[s].at = "finiTask"
      BY <1>3, <1>4 DEF Releasing
    <2> QED BY <1>0, <1>1, <1>9, <2>1, <2>2, <2>3, FreeStep
  <1>17. ClockInv'
    <2>1. now' = now OBVIOUS
    <2>2. \A s \in Threads : ~Schedules(s, a)' BY <1>4, <1>10 DEF Works, Schedules
    <2> QED BY <1>0, <1>6, <1>9, <2>1, <2>2, ClockStep
  <1>18. AioTypeOK' BY <1>0, <1>3, <1>8 DEF AioTypeOK, ThreadType, AioType, AioRec, TaskType, TaskRec
  <1> QED BY <1>6, <1>14, <1>15, <1>16, <1>17, <1>18 DEF AioInv

\* nni_aio_finish_synch.
LEMMA CompleteSynchStep ==
    ASSUME AioInv, CompleteSynch
    PROVE  AioInv'
  <1> USE Sorts
  <1>0. AioTypeOK /\ ListInv /\ waiting \in Seq(Aios) /\ IsInjective(waiting) /\ waiting # <<>>
    BY DEF AioInv, AioTypeOK, ListInv, CompleteSynch
  <1>a. PICK a \in Aios : Head(waiting) = a BY <1>0, TailList
  <1>1. /\ Waits(a) /\ Tail(waiting) \in Seq(Aios) /\ IsInjective(Tail(waiting))
        /\ \A b : Listed(Tail(waiting), b) <=> Listed(waiting, b) /\ b # a
    BY <1>0, <1>a, TailList DEF Waits
  <1>2. /\ thr[Poller].at = "idle" /\ waiting' = Tail(waiting)
        /\ Finished(a, "ok") /\ task' = [task EXCEPT ![a] = MadeBusy(@)]
        /\ thr' = [thr EXCEPT ![Poller] = [AtRest EXCEPT !.at = "cb", !.aio = a]]
        /\ called' = [called EXCEPT ![a] = @ + 1]
        /\ UNCHANGED <<expireAio, tasks, now, freed, begun>>
    BY <1>a DEF CompleteSynch
  <1>3. /\ Prepared(a) /\ ~InQueue(a) /\ task[a].prep
        /\ \A s \in Threads : ~Works(s, a)
    BY <1>1, RestsAlone
  <1>4. /\ aio' \in AioType
        /\ \A b \in Aios : b # a => aio'[b] = aio[b]
        /\ aio'[a].cancel = "none" /\ aio'[a].sleep = FALSE /\ aio'[a].stop = aio[a].stop
        /\ expireList' \in Seq(Aios) /\ IsInjective(expireList')
        /\ \A b : Listed(expireList', b) <=> Listed(expireList, b) /\ b # a
    BY <1>0, <1>2, FinishedEffect DEF Results
  <1>5. /\ task' \in TaskType
        /\ \A b \in Aios : b # a => task'[b] = task[b]
        /\ task'[a].prep = FALSE
        /\ task'[a].busy = IF task[a].prep THEN task[a].busy ELSE task[a].busy + 1
    BY <1>0, <1>2, MadeBusyEffect
  <1>6. task'[a].busy = task[a].busy BY <1>3, <1>5
  <1>7. /\ waiting' \in Seq(Aios) /\ IsInjective(waiting')
        /\ \A b : Listed(waiting', b) <=> Listed(waiting, b) /\ b # a
    BY <1>1, <1>2
  <1>8. ~Waits(a)' /\ ~Sleeps(a)' BY <1>4, <1>7 DEF Waits, Sleeps
  <1>9. /\ tasks' \in Seq(Aios) /\ IsInjective(tasks') /\ ~InQueue(a)'
        /\ \A b : b # a => (Listed(tasks', b) <=> Listed(tasks, b))
    BY <1>0, <1>2, <1>3 DEF AioTypeOK, ListInv, InQueue
  <1>10. Pending(a) BY <1>3 DEF Pending
  <1>11. \A b : b # a => (Listed(waiting', b) <=> Listed(waiting, b)) BY <1>7
  <1>12. /\ ~Listed(expireList', a)
         /\ \A b : b # a => (Listed(expireList', b) <=> Listed(expireList, b))
    BY <1>4
  <1>13. /\ thr' = [thr EXCEPT ![Poller] = [AtRest EXCEPT !.at = "cb", !.aio = a]]
         /\ called' = [called EXCEPT ![a] = @ + 1] /\ thr[Poller].at = "idle"
         /\ UNCHANGED <<expireAio, now, freed, begun>>
    BY <1>2
  <1>14. waiting' \in Seq(Aios) /\ IsInjective(waiting') BY <1>7
  <1>15. expireList' \in Seq(Aios) /\ IsInjective(expireList') BY <1>4
  <1> HIDE DEF MadeBusy, Finished
  <1> QED BY <1>3, <1>4, <1>5, <1>6, <1>8, <1>9, <1>10, <1>11, <1>12, <1>13, <1>14, <1>15, StartStep

\* A thread of the task queue takes a task.
LEMMA RunTaskStep ==
    ASSUME AioInv, NEW t \in Workers, RunTask(t)
    PROVE  AioInv'
  <1> USE Sorts
  <1>0. AioTypeOK /\ ListInv /\ tasks \in Seq(Aios) /\ IsInjective(tasks) /\ tasks # <<>>
    BY DEF AioInv, AioTypeOK, ListInv, RunTask
  <1>a. PICK a \in Aios : Head(tasks) = a BY <1>0, TailList
  <1>1. /\ InQueue(a) /\ Tail(tasks) \in Seq(Aios) /\ IsInjective(Tail(tasks))
        /\ \A b : Listed(Tail(tasks), b) <=> Listed(tasks, b) /\ b # a
    BY <1>0, <1>a, TailList DEF InQueue
  <1>2. /\ thr[t].at = "idle" /\ tasks' = Tail(tasks)
        /\ task' = [task EXCEPT ![a].thr = t]
        /\ thr' = [thr EXCEPT ![t] = [AtRest EXCEPT !.at = "cb", !.aio = a]]
        /\ called' = [called EXCEPT ![a] = @ + 1]
        /\ UNCHANGED <<aio, expireList, expireAio, waiting, now, freed, begun>>
    BY <1>a DEF RunTask
  <1>3. Placed(a) /\ Counted(a) BY DEF AioInv, PlaceInv
  <1>4. ~Waits(a) /\ ~Sleeps(a) /\ \A s \in Threads : ~Works(s, a)
    BY <1>1, <1>3 DEF Placed
  <1>5. ~Prepared(a) BY <1>4 DEF Prepared, Works
  <1>6. task[a].prep = FALSE BY <1>0, <1>3, <1>5 DEF Counted, AioTypeOK
  <1>7. /\ task' \in TaskType
        /\ \A b \in Aios : b # a => task'[b] = task[b]
        /\ task'[a].prep = FALSE /\ task'[a].busy = task[a].busy
    <2> DEFINE Task == TaskRec
               y == [task[a] EXCEPT !.thr = t]
    <2>1. task \in [Aios -> Task] BY <1>0 DEF AioTypeOK, TaskType, TaskRec
    <2>2. task[a] \in Task BY <2>1
    <2>3. y \in Task BY <2>2 DEF TaskType, TaskRec
    <2>4. y.prep = task[a].prep /\ y.busy = task[a].busy BY <2>2
    <2>5. task' = [task EXCEPT ![a] = y] BY <1>2, <2>1
    <2> HIDE DEF Task, y
    <2>6. task' \in [Aios -> Task] /\ task'[a] = y /\ \A b \in Aios : b # a => task'[b] = task[b]
      BY <2>1, <2>3, <2>5
    <2> QED BY <1>6, <2>4, <2>6 DEF Task, TaskType, TaskRec
  <1>8. ~Listed(expireList, a) /\ aio[a].cancel = "none" BY <1>0, <1>4 DEF ListInv
  <1>9. /\ aio' \in AioType
        /\ \A b \in Aios : b # a => aio'[b] = aio[b]
        /\ aio'[a].stop = aio[a].stop /\ aio'[a].cancel = "none" /\ ~Sleeps(a)' /\ ~Waits(a)'
        /\ waiting' \in Seq(Aios) /\ IsInjective(waiting')
        /\ \A b : b # a => (Listed(waiting', b) <=> Listed(waiting, b))
        /\ expireList' \in Seq(Aios) /\ IsInjective(expireList') /\ ~Listed(expireList', a)
        /\ \A b : b # a => (Listed(expireList', b) <=> Listed(expireList, b))
    BY <1>0, <1>2, <1>4, <1>8 DEF AioTypeOK, ListInv, Sleeps, Waits, AioType, AioRec, TaskType, TaskRec
  <1>10. /\ tasks' \in Seq(Aios) /\ IsInjective(tasks') /\ ~InQueue(a)'
         /\ \A b : b # a => (Listed(tasks', b) <=> Listed(tasks, b))
    BY <1>1, <1>2 DEF InQueue
  <1>11. Pending(a) BY <1>1 DEF Pending
  <1>13. /\ thr' = [thr EXCEPT ![t] = [AtRest EXCEPT !.at = "cb", !.aio = a]]
         /\ called' = [called EXCEPT ![a] = @ + 1] /\ thr[t].at = "idle"
         /\ UNCHANGED <<expireAio, now, freed, begun>>
    BY <1>2
  <1> QED BY <1>4, <1>7, <1>9, <1>10, <1>11, <1>13, StartStep

\* A callback returns, and its thread counts the task down.
LEMMA TaskDoneStep ==
    ASSUME AioInv, NEW t \in Runners, TaskDone(t)
    PROVE  AioInv'
  <1> USE Sorts
  <1>0. AioTypeOK /\ ThreadInv /\ ListInv /\ FreeInv /\ PlaceInv /\ ClockInv /\ t \in Threads
    BY DEF AioInv
  <1>1. thr[t].at \in {"cb", "ret"} BY DEF TaskDone
  <1>2. PICK a \in Aios : thr[t].aio = a
    <2>1. thr[t].aio \in Aios \cup {None} BY <1>0 DEF AioTypeOK
    <2>2. thr[t].aio # None BY <1>0, <1>1 DEF ThreadInv
    <2> QED BY <2>1, <2>2
  <1> DEFINE k == IF t \in Workers THEN None ELSE task[a].thr
  <1>3. /\ task' = [task EXCEPT ![a].busy = task[a].busy - 1, ![a].thr = k]
        /\ thr' = [thr EXCEPT ![t] = AtRest]
        /\ UNCHANGED <<aio, expireList, expireAio, tasks, waiting, now, freed, begun, called>>
    BY <1>0, <1>2 DEF TaskDone, AioTypeOK
  <1>4. Placed(a) /\ Counted(a) BY <1>0 DEF PlaceInv
  <1>5. AtRest \in ThreadRec BY DEF AtRest, ThreadRec, Cancels, Results
  <1>6. thr' \in ThreadType /\ thr'[t] = AtRest /\ \A s \in Threads : s # t => thr'[s] = thr[s]
    BY <1>0, <1>3, <1>5, Moved
  <1>7. thr'[t].at = "idle" /\ thr'[t].aio = None BY <1>6 DEF AtRest
  <1>8. ThreadInv' BY <1>0, <1>3, <1>6, <1>7 DEF ThreadInv
  <1>9. CallbackThreads(a)' = CallbackThreads(a) \ {t} /\ t \in CallbackThreads(a)
    <2>1. \A s \in Runners : thr'[s].aio = a <=> thr[s].aio = a /\ s # t
      <3> TAKE s \in Runners
      <3>1. CASE s = t BY <1>7, <3>1
      <3>2. CASE s # t BY <1>6, <3>2
      <3> QED BY <3>1, <3>2
    <2> QED BY <1>2, <2>1 DEF CallbackThreads
  <1>10. /\ IsFiniteSet(CallbackThreads(a)') /\ Cardinality(CallbackThreads(a)') \in Nat
         /\ Cardinality(CallbackThreads(a)) = Cardinality(CallbackThreads(a)') + 1
    <2>1. IsFiniteSet(CallbackThreads(a)) BY <1>4 DEF Counted
    <2>2. IsFiniteSet(CallbackThreads(a)') /\ Cardinality(CallbackThreads(a)') = Cardinality(CallbackThreads(a)) - 1
      BY <1>9, <2>1, FS_RemoveElement
    <2>3. Cardinality(CallbackThreads(a)) \in Nat BY <2>1, FS_CardinalityType
    <2>4. Cardinality(CallbackThreads(a)') \in Nat BY <2>2, FS_CardinalityType
    <2> QED BY <2>2, <2>3, <2>4
  <1>11. Open(a) \in Nat BY DEF Open
  <1>12. task[a].busy - 1 = Cardinality(CallbackThreads(a)') + Open(a)
    BY <1>4, <1>10, <1>11 DEF Counted
  <1>13. /\ task' \in TaskType
         /\ \A b \in Aios : b # a => task'[b] = task[b]
         /\ task'[a].prep = task[a].prep /\ task'[a].busy = task[a].busy - 1
    <2> DEFINE Task == TaskRec
               n == task[a].busy - 1
               y == [task[a] EXCEPT !.busy = n, !.thr = k]
    <2>1. task \in [Aios -> Task] BY <1>0 DEF AioTypeOK, TaskType, TaskRec
    <2>2. task[a] \in Task BY <2>1
    <2>3. n \in Nat BY <1>10, <1>11, <1>12
    <2>4. k \in Workers \cup {None} BY <2>2 DEF TaskType, TaskRec
    <2>5. task' = [task EXCEPT ![a] = y] BY <1>3, <2>1
    <2> HIDE DEF n, k
    <2>6. y \in Task BY <2>2, <2>3, <2>4 DEF TaskType, TaskRec
    <2>7. y.prep = task[a].prep /\ y.busy = n BY <2>2
    <2> HIDE DEF Task, y
    <2>8. task' \in [Aios -> Task] /\ task'[a] = y /\ \A b \in Aios : b # a => task'[b] = task[b]
      BY <2>1, <2>5, <2>6
    <2> QED BY <2>7, <2>8 DEF Task, n, TaskType, TaskRec
  <1> HIDE DEF k
  <1>14. \A s \in Threads : thr'[s] = thr[s] \/ (thr[s].aio \in {a, None} /\ thr'[s].aio \in {a, None})
    <2> TAKE s \in Threads
    <2>1. CASE s = t BY <1>2, <1>7, <2>1
    <2>2. CASE s # t BY <1>6, <2>2
    <2> QED BY <2>1, <2>2
  <1>15. OnlyAbout(a)
    <2>1. \A b \in Aios : b # a =>
            /\ aio'[b] = aio[b] /\ begun'[b] = begun[b] /\ called'[b] = called[b]
            /\ Listed(waiting', b) <=> Listed(waiting, b)
            /\ Listed(tasks', b) <=> Listed(tasks, b)
            /\ Listed(expireList', b) <=> Listed(expireList, b)
      BY <1>3
    <2> QED BY <1>13, <1>14, <2>1 DEF OnlyAbout
  <1>16. (Waits(a)' <=> Waits(a)) /\ Sleeps(a)' = Sleeps(a) /\ (InQueue(a)' <=> InQueue(a))
    BY <1>3 DEF Waits, Sleeps, InQueue
  <1>17. \A s \in Threads : Schedules(s, a)' <=> Schedules(s, a)
    <2> TAKE s \in Threads
    <2>1. CASE s = t BY <1>1, <1>7, <2>1 DEF Schedules
    <2>2. CASE s # t BY <1>6, <2>2 DEF Schedules
    <2> QED BY <2>1, <2>2
  <1>18. \A s \in Threads : Works(s, a)' => Works(s, a)
    <2> TAKE s \in Threads
    <2>1. CASE s = t BY <1>7, <2>1 DEF Works, Schedules, Runs
    <2>2. CASE s # t BY <1>6, <2>2 DEF Works, Schedules, Runs
    <2> QED BY <2>1, <2>2
  <1>19. Placed(a)' BY <1>4, <1>16, <1>18 DEF Placed
  <1>20. Prepared(a)' = Prepared(a) BY <1>16, <1>17 DEF Prepared
  <1>21. Pending(a)' = Pending(a) /\ Open(a)' = Open(a) BY <1>16, <1>20 DEF Open, Pending
  <1>22. Counted(a)'
    <2>1. begun'[a] = begun[a] /\ called'[a] = called[a] BY <1>3
    <2> QED BY <1>4, <1>10, <1>12, <1>13, <1>20, <1>21, <2>1 DEF Counted
  <1>23. PlaceInv' BY <1>0, <1>15, <1>19, <1>22, PlaceStep
  <1>24. ListInv'
    <2>1. IsInjective(waiting') /\ IsInjective(tasks') /\ IsInjective(expireList')
      BY <1>0, <1>3 DEF ListInv
    <2>2. Listed(expireList', a) => Waits(a)' \/ Sleeps(a)' BY <1>0, <1>3, <1>16 DEF ListInv
    <2>3. aio'[a].cancel # "none" => Waits(a)' \/ Sleeps(a)' BY <1>0, <1>3, <1>16 DEF ListInv
    <2> QED BY <1>0, <1>15, <2>1, <2>2, <2>3, ListStep
  <1>25. FreeInv'
    <2>1. freed' = freed /\ expireAio' = expireAio /\ aio' = aio BY <1>3
    <2>2. \A s \in Users : thr[s].at = "gone" => thr'[s].at = "gone" BY <1>6
    <2>3. \A s \in Threads : Releasing(s)' => thr'[s].aio = a \/ thr'[s] = thr[s]
      BY <1>6, <1>7 DEF Releasing
    <2>4. ASSUME NEW s \in Threads, Releasing(s)', thr'[s].aio = a
          PROVE  /\ aio'[a].stop /\ aio'[a].cancel = "none" /\ a \notin freed'
                 /\ thr'[s].at = "finiTask" => expireAio' # a
                 /\ s \in Workers => thr'[UserOf[a]].at = "gone"
      <3>1. s # t /\ thr'[s] = thr[s] BY <1>6, <1>7, <2>4
      <3>2. Releasing(s) /\ thr[s].aio = a BY <2>4, <3>1 DEF Releasing
      <3>3. /\ aio[a].stop /\ aio[a].cancel = "none" /\ a \notin freed
            /\ thr[s].at = "finiTask" => expireAio # a
            /\ s \in Workers => thr[UserOf[a]].at = "gone"
        BY <1>0, <3>2 DEF FreeInv
      <3> QED BY <2>1, <2>2, <3>1, <3>3
    <2>5. ASSUME a \in freed'
          PROVE  /\ ~Pending(a)' /\ expireAio' # a /\ thr'[UserOf[a]].at = "gone"
                 /\ \A s \in Threads : thr'[s].aio = a => thr'[s].at \in {"idle", "ret", "gone"}
      <3>1. /\ ~Pending(a) /\ expireAio # a /\ thr[UserOf[a]].at = "gone"
            /\ \A s \in Threads : thr[s].aio = a => thr[s].at \in {"idle", "ret", "gone"}
        BY <1>0, <2>1, <2>5 DEF FreeInv
      <3>2. \A s \in Threads : thr'[s].aio = a => thr'[s].at \in {"idle", "ret", "gone"}
        BY <1>6, <1>7, <3>1
      <3> QED BY <1>21, <2>1, <2>2, <3>1, <3>2
    <2>6. expireAio' \in {expireAio, None, a} BY <2>1
    <2>7. freed' = freed \/ freed' = freed \cup {a} BY <2>1
    <2> QED BY <1>0, <1>15, <2>2, <2>3, <2>4, <2>5, <2>6, <2>7, FreeMove
  <1>26. ClockInv'
    <2>1. now' = now /\ aio' = aio BY <1>3
    <2>2. ASSUME NEW s \in Threads, Schedules(s, a)', aio'[a].timeout \in Nat
          PROVE  now + aio'[a].timeout <= MaxTime
      <3>1. Schedules(s, a) BY <1>17, <2>2
      <3>2. thr[s].at = "sched" /\ thr[s].aio = a BY <3>1 DEF Schedules
      <3> QED BY <1>0, <2>1, <2>2, <3>2 DEF ClockInv
    <2> QED BY <1>0, <1>8, <1>15, <2>1, <2>2, ClockStep
  <1>27. AioTypeOK' BY <1>0, <1>3, <1>6, <1>13 DEF AioTypeOK, ThreadType, AioType, AioRec, TaskType, TaskRec
  <1> QED BY <1>8, <1>23, <1>24, <1>25, <1>26, <1>27 DEF AioInv

\* What does not change keeps its part of the invariant.
LEMMA PlaceKept ==
    ASSUME PlaceInv,
           UNCHANGED <<aio, expireList, expireAio, task, tasks, waiting, thr, freed, begun, called>>
    PROVE  PlaceInv'
  <1> SUFFICES ASSUME NEW a \in Aios PROVE Placed(a)' /\ Counted(a)' BY DEF PlaceInv
  <1>1. Placed(a) /\ Counted(a) BY DEF PlaceInv
  <1>2. (Waits(a)' <=> Waits(a)) /\ Sleeps(a)' = Sleeps(a) /\ (InQueue(a)' <=> InQueue(a))
    BY DEF Waits, Sleeps, InQueue
  <1>3. \A t \in Threads : (Schedules(t, a)' <=> Schedules(t, a)) /\ (Works(t, a)' <=> Works(t, a))
    BY DEF Schedules, Works, Runs
  <1>4. CallbackThreads(a)' = CallbackThreads(a) BY DEF CallbackThreads
  <1>5. Prepared(a)' = Prepared(a) BY <1>2, <1>3 DEF Prepared
  <1>6. Open(a)' = Open(a) BY <1>2, <1>5 DEF Open, Pending
  <1>7. Placed(a)' BY <1>1, <1>2, <1>3 DEF Placed
  <1>8. Counted(a)' BY <1>1, <1>4, <1>5, <1>6 DEF Counted
  <1> QED BY <1>7, <1>8

\* The clock.
LEMMA TickStep ==
    ASSUME AioInv, Tick
    PROVE  AioInv'
  <1>0. AioTypeOK /\ ThreadInv /\ ListInv /\ FreeInv /\ PlaceInv /\ ClockInv BY DEF AioInv
  <1>1. /\ now < MaxTime /\ now' = now + 1
        /\ UNCHANGED <<aio, expireList, expireAio, task, tasks, waiting, thr, freed, begun, called>>
        /\ \A t \in Threads : thr[t].at = "sched" =>
                LET d == aio[thr[t].aio].timeout IN d \in Nat => now + d < MaxTime
    BY DEF Tick
  <1>2. now \in Nat /\ MaxTime \in Nat /\ now' \in 0 .. MaxTime
    BY <1>0, <1>1, AioAssumption DEF AioTypeOK
  <1>3. AioTypeOK' BY <1>0, <1>1, <1>2 DEF AioTypeOK
  <1>4. ThreadInv' BY <1>0, <1>1 DEF ThreadInv
  <1>5. ListInv' BY <1>0, <1>1 DEF ListInv, Waits, Sleeps
  <1>a. UNCHANGED <<aio, expireList, expireAio, task, tasks, waiting, thr, freed, begun, called>>
    BY <1>1
  <1>6. PlaceInv' BY <1>0, <1>a, PlaceKept
  <1>7. FreeInv'
    BY <1>0, <1>1 DEF FreeInv, Releasing, Pending, Prepared, Waits, Sleeps, InQueue, Schedules
  <1>8. ClockInv'
    <2> SUFFICES ASSUME NEW t \in Threads, thr'[t].at = "sched", aio'[thr'[t].aio].timeout \in Nat
                 PROVE  now' + aio'[thr'[t].aio].timeout <= MaxTime
      BY DEF ClockInv
    <2>1. thr[t].at = "sched" /\ aio[thr[t].aio].timeout \in Nat BY <1>1
    <2>2. now + aio[thr[t].aio].timeout < MaxTime BY <1>1, <2>1
    <2> DEFINE d == aio[thr[t].aio].timeout
    <2>3. aio'[thr'[t].aio].timeout = d BY <1>1
    <2>4. d \in Nat /\ now + d < MaxTime BY <2>1, <2>2
    <2> HIDE DEF d
    <2>5. now' + d <= MaxTime BY <1>1, <1>2, <2>4
    <2> QED BY <2>3, <2>5
  <1> QED BY <1>3, <1>4, <1>5, <1>6, <1>7, <1>8 DEF AioInv

\* Nothing changes.
LEMMA AioStutter == AioInv /\ UNCHANGED aioVars => AioInv'
  <1> SUFFICES ASSUME AioInv, UNCHANGED aioVars PROVE AioInv' OBVIOUS
  <1>0. AioTypeOK /\ ThreadInv /\ ListInv /\ FreeInv /\ PlaceInv /\ ClockInv BY DEF AioInv
  <1>1. UNCHANGED <<aio, expireList, expireAio, task, tasks, waiting, thr, now, freed, begun, called>>
    BY DEF aioVars
  <1>3. AioTypeOK' BY <1>0, <1>1 DEF AioTypeOK
  <1>4. ThreadInv' BY <1>0, <1>1 DEF ThreadInv
  <1>5. ListInv' BY <1>0, <1>1 DEF ListInv, Waits, Sleeps
  <1>6. PlaceInv' BY <1>0, <1>1, PlaceKept
  <1>7. FreeInv'
    BY <1>0, <1>1 DEF FreeInv, Releasing, Pending, Prepared, Waits, Sleeps, InQueue, Schedules
  <1>8. ClockInv' BY <1>0, <1>1 DEF ClockInv
  <1> QED BY <1>3, <1>4, <1>5, <1>6, <1>7, <1>8 DEF AioInv

\* Every step keeps the invariant.
LEMMA AioStep == AioInv /\ [AioNext]_aioVars => AioInv'
  <1> SUFFICES ASSUME AioInv, [AioNext]_aioVars PROVE AioInv' OBVIOUS
  <1> USE Sorts
  <1>1. ASSUME NEW t \in Users \cup Runners, NEW a \in Aios, Consume(t, a) PROVE AioInv'
    BY <1>1, BeginStoppedStep, BeginStep, EndersStep, GiveUpStep DEF Consume
  <1>2. ASSUME NEW t \in Threads, Go(t) PROVE AioInv'
    BY <1>2, ScheduleFailsStep, ScheduleListStep, ScheduleSleepStep, CallCancelStep,
       WaitEndsStep, FiniExpireStep, FiniTaskStep DEF Go
  <1>3. CASE Complete \/ CompleteSynch \/ Expire \/ Expired \/ Tick
    BY <1>3, CompleteStep, CompleteSynchStep, ExpireStep, ExpiredStep, TickStep
  <1>4. ASSUME NEW t \in Workers, RunTask(t) PROVE AioInv' BY <1>4, RunTaskStep
  <1>5. ASSUME NEW t \in Runners, TaskDone(t) PROVE AioInv' BY <1>5, TaskDoneStep
  <1>6. CASE UNCHANGED aioVars BY <1>6, AioStutter
  <1>7. Users \cup Workers \cup {Poller} = Users \cup Runners /\ Workers \cup {Poller} = Runners
    BY DEF Runners
  <1> QED BY <1>1, <1>2, <1>3, <1>4, <1>5, <1>6, <1>7 DEF AioNext

\* AioInv holds in every reachable state.
LEMMA AioInvariance == AioSpec => []AioInv
  BY AioInitInv, AioStep, PTL DEF AioSpec

-----------------------------------------------------------------------------
(* The timer's list is in the order of the deadlines, and none is lost.    *)

\* The list has deadlines only.
TimerInv == TimersInOrder /\ \A i \in DOMAIN expireList : aio[expireList[i]].expire # Never

\* What is left of a list stands in its order.
Keeps(s, q) ==
    \A i, j \in DOMAIN s : i < j =>
        \E k, l \in DOMAIN q : k < l /\ s[i] = q[k] /\ s[j] = q[l]

LEMMA TailKeeps == ASSUME NEW q \in Seq(Aios), q # <<>> PROVE Keeps(Tail(q), q)
  <1>1. DOMAIN q = 1 .. Len(q) /\ Len(q) \in Nat OBVIOUS
  <1>2. \A i \in DOMAIN Tail(q) : i \in Int /\ i + 1 \in DOMAIN q /\ Tail(q)[i] = q[i + 1] OBVIOUS
  <1> SUFFICES ASSUME NEW i \in DOMAIN Tail(q), NEW j \in DOMAIN Tail(q), i < j
               PROVE  \E k, l \in DOMAIN q : k < l /\ Tail(q)[i] = q[k] /\ Tail(q)[j] = q[l]
    BY DEF Keeps
  <1>3. i + 1 < j + 1 BY <1>2
  <1> QED BY <1>2, <1>3

LEMMA WithoutKeeps == ASSUME NEW q \in Seq(Aios), NEW a PROVE Keeps(Without(q, a), q)
  <1>1. CASE ~Listed(q, a) BY <1>1 DEF Without, Keeps
  <1>2. CASE Listed(q, a)
    <2> DEFINE s == Without(q, a)
    <2>1. PICK k \in 1 .. Len(q) :
             /\ s \in Seq(Aios) /\ Len(s) = Len(q) - 1
             /\ \A i \in 1 .. Len(q) - 1 : s[i] = IF i < k THEN q[i] ELSE q[i + 1]
      BY <1>2, WithoutPlaces
    <2> HIDE DEF s
    <2>2. DOMAIN s = 1 .. Len(q) - 1 /\ DOMAIN q = 1 .. Len(q) /\ Len(q) \in Nat BY <2>1
    <2> SUFFICES ASSUME NEW i \in DOMAIN s, NEW j \in DOMAIN s, i < j
                 PROVE  \E m, l \in DOMAIN q : m < l /\ s[i] = q[m] /\ s[j] = q[l]
      BY DEF Keeps, s
    <2> DEFINE m == IF i < k THEN i ELSE i + 1
               l == IF j < k THEN j ELSE j + 1
    <2>3. m \in DOMAIN q /\ l \in DOMAIN q /\ m < l BY <2>2
    <2>4. s[i] = q[m] /\ s[j] = q[l] BY <2>1, <2>2
    <2> QED BY <2>3, <2>4
  <1> QED BY <1>1, <1>2

\* A step that gives nobody a new deadline and lets nobody lose one.
LEMMA TimersKept ==
    ASSUME AioTypeOK, TimerInv, expireList' \in Seq(Aios), Keeps(expireList', expireList),
           \A b \in Aios : Listed(expireList', b) =>
                Listed(expireList, b) /\ aio'[b].expire = aio[b].expire,
           \A b \in Aios : aio'[b].cancel # "none" =>
                /\ aio[b].cancel # "none" /\ aio'[b].expire = aio[b].expire
                /\ Listed(expireList, b) => Listed(expireList', b)
    PROVE  TimerInv'
  <1>1. expireList \in Seq(Aios) BY DEF AioTypeOK
  <1>2. \A i \in DOMAIN expireList' : expireList'[i] \in Aios /\ Listed(expireList', expireList'[i])
    BY DEF Listed, ToSet
  <1>3. \A i \in DOMAIN expireList' : aio'[expireList'[i]].expire = aio[expireList'[i]].expire
    BY <1>2
  <1>4. ASSUME NEW i \in DOMAIN expireList', NEW j \in DOMAIN expireList', i < j
        PROVE  aio'[expireList'[i]].expire <= aio'[expireList'[j]].expire
    <2>1. PICK k, l \in DOMAIN expireList :
             k < l /\ expireList'[i] = expireList[k] /\ expireList'[j] = expireList[l]
      BY <1>4 DEF Keeps
    <2>2. aio[expireList[k]].expire <= aio[expireList[l]].expire
      BY <2>1 DEF TimerInv, TimersInOrder
    <2> QED BY <1>3, <2>1, <2>2
  <1>5. ASSUME NEW i \in DOMAIN expireList' PROVE aio'[expireList'[i]].expire # Never
    <2>1. PICK k \in DOMAIN expireList : expireList[k] = expireList'[i]
      BY <1>2 DEF Listed, ToSet
    <2>2. aio[expireList[k]].expire # Never BY DEF TimerInv
    <2> QED BY <1>3, <2>1, <2>2
  <1>6. ASSUME NEW b \in Aios, aio'[b].cancel # "none"
        PROVE  Listed(expireList', b) <=> aio'[b].expire # Never
    BY <1>6 DEF TimerInv, TimersInOrder
  <1> QED BY <1>4, <1>5, <1>6 DEF TimerInv, TimersInOrder

\* So does one that leaves the list and the deadlines alone.
LEMMA TimersSame ==
    ASSUME AioTypeOK, TimerInv, expireList' = expireList,
           \A b \in Aios : aio'[b].expire = aio[b].expire /\ aio'[b].cancel \in {aio[b].cancel, "none"}
    PROVE  TimerInv'
  <1>1. expireList \in Seq(Aios) BY DEF AioTypeOK
  <1>2. Keeps(expireList', expireList) BY DEF Keeps
  <1> QED BY <1>1, <1>2, TimersKept

\* An operation that is finished has no deadline any more.
LEMMA TimersFinished ==
    ASSUME AioInv, TimerInv, NEW a \in Aios, NEW rv \in Results, Finished(a, rv)
    PROVE  TimerInv'
  <1>0. AioTypeOK /\ ListInv BY DEF AioInv
  <1>1. /\ \A b \in Aios : b # a => aio'[b] = aio[b]
        /\ aio'[a].cancel = "none" /\ expireList' \in Seq(Aios)
        /\ \A b : Listed(expireList', b) <=> Listed(expireList, b) /\ b # a
    BY <1>0, FinishedEffect
  <1>2. Keeps(expireList', expireList)
    <2>1. expireList \in Seq(Aios) /\ expireList' = Without(expireList, a)
      BY <1>0 DEF AioTypeOK, Finished
    <2> QED BY <2>1, WithoutKeeps
  <1> QED BY <1>0, <1>1, <1>2, TimersKept

\* Every entry of the list is a number.
LEMMA Deadlines ==
    ASSUME AioTypeOK, TimerInv
    PROVE  \A i \in DOMAIN expireList : expireList[i] \in Aios /\ aio[expireList[i]].expire \in Nat
  <1> TAKE i \in DOMAIN expireList
  <1>1. expireList[i] \in Aios BY DEF AioTypeOK
  <1>2. aio[expireList[i]].expire \in 0 .. MaxTime \cup {Never} BY <1>1 DEF AioTypeOK
  <1> QED BY <1>1, <1>2, AioAssumption DEF TimerInv

\* A new deadline goes between those that are not later and those that are.
LEMMA TimersAdded ==
    ASSUME AioInv, TimerInv, NEW a \in Aios, ~Listed(expireList, a), NEW e \in Nat,
           expireList' = ExpireAdd(a, e),
           \A b \in Aios : b # a => aio'[b] = aio[b],
           aio'[a].expire = e
    PROVE  TimerInv'
  <1>0. AioTypeOK /\ ListInv BY DEF AioInv
  <1> DEFINE q == expireList
             s == expireList'
  <1>1. q \in Seq(Aios) /\ IsInjective(q) /\ Len(q) \in Nat BY <1>0 DEF AioTypeOK, ListInv
  <1>2. PICK n \in 0 .. Len(q) :
           /\ n = 0 \/ aio[q[n]].expire <= e
           /\ \A i \in n + 1 .. Len(q) : ~(aio[q[i]].expire <= e)
           /\ s \in Seq(Aios) /\ Len(s) = Len(q) + 1
           /\ \A i \in 1 .. Len(q) + 1 :
                 s[i] = IF i <= n THEN q[i] ELSE IF i = n + 1 THEN a ELSE q[i - 1]
    BY <1>1, ExpireAddPlaces, ZenonT(60)
  <1>3. \A b : Listed(s, b) <=> Listed(q, b) \/ b = a BY <1>1, ExpireAddList
  <1>4. \A i \in 1 .. Len(q) : q[i] \in Aios /\ aio[q[i]].expire \in Nat
    BY <1>0, <1>1, Deadlines
  <1>5. \A i, j \in 1 .. Len(q) : i < j => aio[q[i]].expire <= aio[q[j]].expire
    BY <1>1 DEF TimerInv, TimersInOrder
  <1>6. \A i \in 1 .. Len(q) : q[i] # a BY <1>1, ListedIs
  <1>7. \A i \in 1 .. Len(q) : aio'[q[i]].expire = aio[q[i]].expire BY <1>4, <1>6
  <1> HIDE DEF q, s
  <1> DEFINE x(i) == aio[q[i]].expire
  <1>8. \A i \in 1 .. Len(q) : x(i) \in Nat /\ (i <= n => x(i) <= e) /\ (i > n => e <= x(i))
    <2> TAKE i \in 1 .. Len(q)
    <2>1. x(i) \in Nat BY <1>4
    <2>2. ASSUME i <= n PROVE x(i) <= e
      <3>1. n \in 1 .. Len(q) /\ x(n) <= e BY <1>1, <1>2, <2>2
      <3>2. i = n \/ x(i) <= x(n) BY <1>1, <1>5, <2>2, <3>1
      <3>3. x(n) \in Nat BY <1>4, <3>1
      <3> HIDE DEF x
      <3> QED BY <2>1, <3>1, <3>2, <3>3
    <2>3. ASSUME i > n PROVE e <= x(i)
      <3>1. ~(x(i) <= e) BY <1>1, <1>2, <2>3
      <3> HIDE DEF x
      <3> QED BY <2>1, <3>1
    <2> QED BY <2>1, <2>2, <2>3
  <1>9. ASSUME NEW i \in 1 .. Len(q) + 1
        PROVE  \/ i <= n /\ i \in 1 .. Len(q) /\ s[i] = q[i] /\ aio'[s[i]].expire = x(i)
               \/ i = n + 1 /\ s[i] = a /\ aio'[s[i]].expire = e
               \/ /\ i > n + 1 /\ i - 1 \in 1 .. Len(q) /\ i - 1 > n
                  /\ s[i] = q[i - 1] /\ aio'[s[i]].expire = x(i - 1)
    <2>1. CASE i <= n
      <3>1. i \in 1 .. Len(q) /\ s[i] = q[i] BY <1>1, <1>2, <2>1
      <3> QED BY <1>7, <2>1, <3>1
    <2>2. CASE i = n + 1 BY <1>1, <1>2, <2>2
    <2>3. CASE i > n + 1
      <3>1. i - 1 \in 1 .. Len(q) /\ i - 1 > n /\ s[i] = q[i - 1] BY <1>1, <1>2, <2>3
      <3> QED BY <1>7, <2>3, <3>1
    <2> QED BY <1>1, <1>2, <2>1, <2>2, <2>3
  <1>10. ASSUME NEW i \in 1 .. Len(q) + 1, NEW j \in 1 .. Len(q) + 1, i < j
         PROVE  aio'[s[i]].expire <= aio'[s[j]].expire
    <2>0. \A k, l \in 1 .. Len(q) : k < l => x(k) <= x(l) BY <1>5
    <2> HIDE DEF x
    <2>1. CASE i <= n
      <3>1. i \in 1 .. Len(q) /\ aio'[s[i]].expire = x(i) /\ x(i) <= e /\ x(i) \in Nat
        BY <1>1, <1>2, <1>8, <1>9, <2>1
      <3>2. CASE j <= n
        <4>1. j \in 1 .. Len(q) /\ aio'[s[j]].expire = x(j) BY <1>1, <1>2, <1>9, <3>2
        <4> QED BY <1>10, <2>0, <3>1, <4>1
      <3>3. CASE j = n + 1
        <4>1. aio'[s[j]].expire = e BY <1>1, <1>2, <1>9, <3>3
        <4> QED BY <3>1, <4>1
      <3>4. CASE j > n + 1
        <4>1. j - 1 \in 1 .. Len(q) /\ i < j - 1 /\ aio'[s[j]].expire = x(j - 1)
          BY <1>1, <1>2, <1>9, <2>1, <3>4
        <4> QED BY <2>0, <3>1, <4>1
      <3> QED BY <1>2, <3>2, <3>3, <3>4
    <2>2. CASE i = n + 1
      <3>1. aio'[s[i]].expire = e BY <1>1, <1>2, <1>9, <2>2
      <3>2. j - 1 \in 1 .. Len(q) /\ j - 1 > n /\ aio'[s[j]].expire = x(j - 1)
        BY <1>1, <1>2, <1>9, <1>10, <2>2
      <3>3. e <= x(j - 1) BY <1>8, <3>2
      <3> QED BY <3>1, <3>2, <3>3
    <2>3. CASE i > n + 1
      <3>1. i - 1 \in 1 .. Len(q) /\ aio'[s[i]].expire = x(i - 1) BY <1>1, <1>2, <1>9, <2>3
      <3>2. j - 1 \in 1 .. Len(q) /\ aio'[s[j]].expire = x(j - 1) BY <1>1, <1>2, <1>9, <1>10, <2>3
      <3>3. i - 1 < j - 1 BY <1>10
      <3> QED BY <2>0, <3>1, <3>2, <3>3
    <2> QED BY <1>2, <2>1, <2>2, <2>3
  <1>11. ASSUME NEW i \in 1 .. Len(q) + 1 PROVE aio'[s[i]].expire \in Nat
    <2> HIDE DEF x
    <2> QED BY <1>8, <1>9
  <1>12. DOMAIN s = 1 .. Len(q) + 1 BY <1>2
  <1>13. ASSUME NEW b \in Aios, aio'[b].cancel # "none"
         PROVE  Listed(s, b) <=> aio'[b].expire # Never
    <2>1. CASE b = a BY <1>3, <2>1, AioAssumption
    <2>2. CASE b # a BY <1>3, <1>13, <2>2 DEF TimerInv, TimersInOrder, q
    <2> QED BY <2>1, <2>2
  <1> QED BY <1>10, <1>11, <1>12, <1>13, AioAssumption DEF TimerInv, TimersInOrder, s

\* nni_aio_schedule and nni_sleep_aio: the aio that is scheduled is not in the list.
LEMMA TimersScheduled ==
    ASSUME AioInv, TimerInv, NEW t \in Threads,
           ScheduleList(t) \/ \E ms \in Durations : ScheduleSleep(t, ms)
    PROVE  TimerInv'
  <1>0. AioTypeOK /\ ListInv BY DEF AioInv
  <1>a. thr[t].at = "sched" BY DEF ScheduleList, ScheduleSleep
  <1>b. PICK a \in Aios : a = thr[t].aio BY <1>a, SchedulesAlone
  <1>c. ~Waits(a) /\ ~Sleeps(a) BY <1>a, <1>b, SchedulesAlone
  <1>d. ~Listed(expireList, a) BY <1>0, <1>c DEF ListInv
  <1>e. aio[a] \in AioRec /\ now \in Nat BY <1>0 DEF AioTypeOK, AioRec
  <1>f. aio[a].timeout = Never \/ aio[a].timeout \in Nat BY <1>e, AioAssumption DEF AioRec
  <1>1. CASE ScheduleList(t)
    <2>1. CASE aio[a].timeout = Never
      <3>1. expireList' = expireList /\ aio' = [aio EXCEPT ![a].expire = Never, ![a].cancel = "list"]
        BY <1>1, <1>b, <2>1 DEF ScheduleList
      <3>2. \A b \in Aios : b # a => aio'[b] = aio[b] BY <1>0, <3>1 DEF AioTypeOK
      <3>3. aio'[a].expire = Never BY <1>0, <3>1 DEF AioTypeOK
      <3>4. \A i \in DOMAIN expireList : expireList[i] \in Aios /\ expireList[i] # a
        BY <1>0, <1>d DEF AioTypeOK, Listed, ToSet
      <3>5. \A i \in DOMAIN expireList : aio'[expireList[i]] = aio[expireList[i]] BY <3>2, <3>4
      <3>6. ASSUME NEW b \in Aios, aio'[b].cancel # "none"
            PROVE  Listed(expireList, b) <=> aio'[b].expire # Never
        BY <1>d, <3>2, <3>3, <3>6 DEF TimerInv, TimersInOrder
      <3> QED BY <3>1, <3>5, <3>6, ZenonT(60) DEF TimerInv, TimersInOrder
    <2>2. CASE aio[a].timeout # Never
      <3> DEFINE e == now + aio[a].timeout
      <3>1. e \in Nat BY <1>e, <1>f, <2>2
      <3>2. e # Never BY <3>1, AioAssumption
      <3>3. /\ expireList' = ExpireAdd(a, e)
            /\ aio' = [aio EXCEPT ![a].expire = e, ![a].cancel = "list"]
        BY <1>1, <1>b, <2>2, <3>2 DEF ScheduleList
      <3> HIDE DEF e
      <3>4. /\ \A b \in Aios : b # a => aio'[b] = aio[b]
            /\ aio'[a].expire = e
        BY <1>0, <3>3 DEF AioTypeOK
      <3> QED BY <1>d, <3>1, <3>3, <3>4, TimersAdded
    <2> QED BY <2>1, <2>2
  <1>2. ASSUME NEW ms \in Durations, ScheduleSleep(t, ms) PROVE TimerInv'
    <2> DEFINE early == aio[a].timeout # Never /\ ms > aio[a].timeout
               e     == now + (IF early THEN aio[a].timeout ELSE ms)
               rv    == IF early THEN "timedout" ELSE "ok"
    <2>1. e \in Nat BY <1>e, <1>f, AioAssumption
    <2>2. /\ expireList' = ExpireAdd(a, e)
          /\ aio' = [aio EXCEPT ![a].sleep = TRUE, ![a].sleeprv = rv,
                                ![a].expire = e, ![a].cancel = "sleep"]
      BY <1>2, <1>b DEF ScheduleSleep
    <2> HIDE DEF e, rv
    <2>3. /\ \A b \in Aios : b # a => aio'[b] = aio[b]
          /\ aio'[a].expire = e
      BY <1>0, <2>2 DEF AioTypeOK
    <2> QED BY <1>d, <2>1, <2>2, <2>3, TimersAdded
  <1> QED BY <1>1, <1>2

\* The timer takes the first of the list, and with it the cancel function.
LEMMA TimersExpire ==
    ASSUME AioInv, TimerInv, Expire
    PROVE  TimerInv'
  <1>0. AioTypeOK /\ ListInv BY DEF AioInv
  <1>1. expireList # <<>> /\ expireList' = Tail(expireList) BY DEF Expire
  <1>2. PICK a \in Aios : a = Head(expireList) BY <1>0, <1>1, TailList DEF AioTypeOK, ListInv
  <1>3. expireList' \in Seq(Aios) /\ \A b : Listed(expireList', b) <=> Listed(expireList, b) /\ b # a
    BY <1>0, <1>1, <1>2, TailList DEF AioTypeOK, ListInv
  <1>4. Keeps(expireList', expireList) BY <1>0, <1>1, TailKeeps DEF AioTypeOK
  <1>5. \/ aio[a].cancel = "none" /\ aio' = aio
        \/ aio' = [aio EXCEPT ![a].cancel = "none"]
    BY <1>2 DEF Expire
  <1>6. /\ \A b \in Aios : b # a => aio'[b] = aio[b]
        /\ aio'[a].cancel = "none"
    BY <1>0, <1>5 DEF AioTypeOK
  <1> QED BY <1>0, <1>3, <1>4, <1>6, TimersKept

LEMMA TimersStep == AioInv /\ TimerInv /\ [AioNext]_aioVars => TimerInv'
  <1> SUFFICES ASSUME AioInv, TimerInv, [AioNext]_aioVars PROVE TimerInv' OBVIOUS
  <1> USE Sorts
  <1>0. AioTypeOK BY DEF AioInv
  <1>1. ASSUME NEW t \in Users \cup Runners, NEW a \in Aios, Consume(t, a) PROVE TimerInv'
    <2>1. CASE BeginStopped(t, a)
      BY <2>1, TimersFinished DEF BeginStopped, Finish, Results
    <2>2. ASSUME NEW d \in Durations \cup {Never}, NEW fn \in Use[a], Begin(t, a, d, fn)
          PROVE  TimerInv'
      <3>1. /\ expireList' = expireList
            /\ aio' = [aio EXCEPT ![a].result = "ok", ![a].cancel = "none", ![a].timeout = d]
        BY <2>2 DEF Begin
      <3>2. \A b \in Aios : aio'[b].expire = aio[b].expire /\ aio'[b].cancel \in {aio[b].cancel, "none"}
        <4> TAKE b \in Aios
        <4>1. CASE b = a BY <1>0, <3>1, <4>1 DEF AioTypeOK
        <4>2. CASE b # a BY <1>0, <3>1, <4>2 DEF AioTypeOK
        <4> QED BY <4>1, <4>2
      <3> QED BY <1>0, <3>1, <3>2, TimersSame
    <2>3. CASE Abort(t, a) \/ AioClose(t, a) \/ AioStop(t, a) \/ AioFini(t, a)
      <3>1. expireList' = expireList BY <2>3 DEF Abort, AioClose, AioStop, AioFini
      <3>2. \E b \in BOOLEAN : Disarmed(a, b)
        <4>1. CASE Abort(t, a)
          <5>1. aio' = [aio EXCEPT ![a].cancel = "none"] BY <4>1 DEF Abort
          <5>2. aio[a].stop \in BOOLEAN BY <1>0 DEF AioTypeOK
          <5>3. aio' = [aio EXCEPT ![a].cancel = "none", ![a].stop = aio[a].stop]
            BY <1>0, <5>1 DEF AioTypeOK
          <5> QED BY <5>2, <5>3 DEF Disarmed
        <4>2. CASE AioClose(t, a) \/ AioStop(t, a) \/ AioFini(t, a)
          <5>1. Disarmed(a, TRUE) BY <4>2 DEF Disarmed, AioClose, AioStop, AioFini
          <5> QED BY <5>1
        <4> QED BY <2>3, <4>1, <4>2
      <3>3. PICK stop \in BOOLEAN : Disarmed(a, stop) BY <3>2
      <3>4. \A b \in Aios : aio'[b].expire = aio[b].expire /\ aio'[b].cancel \in {aio[b].cancel, "none"}
        <4> TAKE b \in Aios
        <4>1. CASE b = a BY <1>0, <3>3, <4>1 DEF AioTypeOK, Disarmed
        <4>2. CASE b # a BY <1>0, <3>3, <4>2 DEF AioTypeOK, Disarmed
        <4> QED BY <4>1, <4>2
      <3> QED BY <1>0, <3>1, <3>4, TimersSame
    <2>4. CASE GiveUp(t, a) BY <1>0, <2>4, TimersSame DEF GiveUp
    <2> QED BY <1>1, <2>1, <2>2, <2>3, <2>4 DEF Consume
  <1>2. ASSUME NEW t \in Threads, Go(t) PROVE TimerInv'
    <2>1. CASE ScheduleFails(t)
      <3>1. PICK a \in Aios : a = thr[t].aio BY <2>1, SchedulesAlone DEF ScheduleFails
      <3>2. ScheduleError(a, thr[t].fn) \in Results BY DEF ScheduleError, Results
      <3> QED BY <2>1, <3>1, <3>2, TimersFinished DEF ScheduleFails, Finish
    <2>2. CASE ScheduleList(t) \/ \E ms \in Durations : ScheduleSleep(t, ms)
      BY <2>2, TimersScheduled
    <2>3. CASE CallCancel(t)
      <3>1. PICK a \in Aios : a = thr[t].aio BY <2>3, Engaged DEF CallCancel
      <3>2. thr[t].rv \in Results BY <1>0 DEF AioTypeOK
      <3>3. CASE CancelFinds(a, thr[t].fn)
        <4>1. Finished(a, thr[t].rv) BY <2>3, <3>1, <3>3 DEF CallCancel, Finish
        <4> QED BY <3>2, <4>1, TimersFinished
      <3>4. CASE ~CancelFinds(a, thr[t].fn)
        <4>1. aio' = aio /\ expireList' = expireList BY <2>3, <3>1, <3>4 DEF CallCancel
        <4> QED BY <1>0, <4>1, TimersSame
      <3> QED BY <3>3, <3>4
    <2>4. CASE WaitEnds(t) \/ FiniExpire(t) \/ FiniTask(t)
      BY <1>0, <2>4, TimersSame DEF WaitEnds, FiniExpire, FiniTask
    <2> QED BY <1>2, <2>1, <2>2, <2>3, <2>4 DEF Go
  <1>3. CASE Complete \/ CompleteSynch
    <2>1. waiting # <<>> BY <1>3 DEF Complete, CompleteSynch
    <2>2. PICK a \in Aios : a = Head(waiting) BY <1>0, <2>1 DEF AioTypeOK
    <2>3. Finished(a, "ok") BY <1>3, <2>2 DEF Complete, CompleteSynch, Finish
    <2> QED BY <2>3, TimersFinished DEF Results
  <1>4. CASE Expire BY <1>4, TimersExpire
  <1>5. CASE Expired \/ Tick BY <1>0, <1>5, TimersSame DEF Expired, Tick
  <1>6. ASSUME NEW t \in Workers, RunTask(t) PROVE TimerInv'
    BY <1>0, <1>6, TimersSame DEF RunTask
  <1>7. ASSUME NEW t \in Runners, TaskDone(t) PROVE TimerInv'
    BY <1>0, <1>7, TimersSame DEF TaskDone
  <1>8. CASE UNCHANGED aioVars BY <1>0, <1>8, TimersSame DEF aioVars
  <1>9. Users \cup Workers \cup {Poller} = Users \cup Runners /\ Workers \cup {Poller} = Runners
    BY DEF Runners
  <1> QED BY <1>1, <1>2, <1>3, <1>4, <1>5, <1>6, <1>7, <1>8, <1>9 DEF AioNext

\* The timer's list is in the order of the deadlines, and whoever can be cancelled and has
\* a deadline is in it, so that it is enough to wait for the first (aio.c:525-602).
THEOREM TimersAreInOrder == AioSpec => []TimersInOrder
  <1>1. AioInit => TimerInv
    BY DEF AioInit, TimerInv, TimersInOrder, Listed, ToSet
  <1>2. TimerInv => TimersInOrder BY DEF TimerInv
  <1> QED BY <1>1, <1>2, TimersStep, AioInvariance, PTL DEF AioSpec

\* The variables keep their types: in particular no counter of a task is ever less than
\* zero, which nni_task_exec and nni_taskq_thread do not look at (taskq.c:42-86, 148-200).
THEOREM AioTypeCorrect == AioSpec => []AioTypeOK
  <1>1. AioInv => AioTypeOK BY DEF AioInv
  <1> QED BY <1>1, AioInvariance, PTL

\* Each operation that was begun is called back once, however completions, aborts, stops,
\* releases and the timer race (aio.c:353-609); none is outstanding when a task is idle.
THEOREM CompletesOnce == AioSpec => []CompletedOnce
  <1>1. AioInv => CompletedOnce
    <2> SUFFICES ASSUME AioInv, NEW a \in Aios
                 PROVE  called[a] <= begun[a] /\ (task[a].busy = 0 => called[a] = begun[a])
      BY DEF CompletedOnce
    <2>1. Counted(a) BY DEF AioInv, PlaceInv
    <2>2. called[a] \in Nat BY DEF AioInv, AioTypeOK
    <2>3. Open(a) \in {0, 1} BY DEF Open
    <2>4. Cardinality(CallbackThreads(a)) \in Nat BY <2>1, FS_CardinalityType DEF Counted
    <2> HIDE DEF Open
    <2>5. begun[a] = called[a] + Open(a) /\ task[a].busy = Cardinality(CallbackThreads(a)) + Open(a)
      BY <2>1 DEF Counted
    <2> QED BY <2>2, <2>3, <2>4, <2>5
  <1> QED BY <1>1, AioInvariance, PTL

\* When nni_aio_fini has returned, the aio is on no list, the timer does not hold it and no
\* thread is about to use it, its own returning callback excepted (aio.c:137-183).
THEOREM ReleasedAreUnused == AioSpec => []ReleasedIsUnused
  <1>1. AioInv => ReleasedIsUnused
    <2> SUFFICES ASSUME AioInv, NEW a \in freed
                 PROVE  /\ ~Listed(waiting, a) /\ ~Listed(expireList, a) /\ ~Listed(tasks, a)
                        /\ expireAio # a
                        /\ \A t \in Threads : thr[t].aio = a => thr[t].at \in {"idle", "ret", "gone"}
      BY DEF ReleasedIsUnused
    <2>1. a \in Aios BY DEF AioInv, AioTypeOK
    <2>2. /\ ~Pending(a) /\ expireAio # a
          /\ \A t \in Threads : thr[t].aio = a => thr[t].at \in {"idle", "ret", "gone"}
      BY DEF AioInv, FreeInv
    <2>3. ~Waits(a) /\ ~Sleeps(a) /\ ~InQueue(a) BY <2>2 DEF Pending, Prepared
    <2>4. ~Listed(expireList, a) BY <2>1, <2>3 DEF AioInv, ListInv
    <2> QED BY <2>2, <2>3, <2>4 DEF Waits, InQueue
  <1> QED BY <1>1, AioInvariance, PTL

-----------------------------------------------------------------------------
(* The endpoint: what its invariant consists of.                           *)

\* The result of the connect aio is that of its last callback, and it is one of the two
\* after which the dialer stops only for a cause.
Causes ==
    /\ con = [at |-> con.at, rv |-> con.rv]
    /\ con.at # "cb" => con.rv = "ok"
    /\ con.rv = "closed" => cutOff \/ closing
    /\ con.rv = "canceled" => closing

\* The only reference to a pipe is that of the callback that adds it.
HeldByCallback == held = IF con.at = "adding" THEN {dpipe} ELSE {}

\* There is an ipctran_pipe in the making from connect() until nni_dialer_add_pipe has
\* it, and no attempt on an endpoint that is closed.
Attempt ==
    /\ tpipe # NoPipe <=> dial \in {"greet", "answer", "closed"} \/ con = Result("ok")
    /\ con = Result("ok") => dial = "idle"
    /\ dial \in {"connect", "greet", "answer"} => sock \in {"open", "began"}
    /\ dial \in {"closed", "aborted"} => sock \notin {"open", "began"}
    /\ con.at = "wait" => sock = "open"
    /\ tpipe \notin listed

\* What is left of the dialer and its endpoint at each stage of nn_close.
Stages ==
    /\ sock \in {"open", "began", "shut"} <=> dialer = "listed"
    /\ dialer \in {"removed", "freed"} => con = Idle /\ timer = "idle" /\ listed = {}
    /\ sock = "gone" => dialer \in {"removed", "freed"}
    /\ ep = "used" <=> dialer # "freed"
    /\ ep = "freed" => tran = {} /\ dial = "idle"

\* The reaper has each closed pipe, the closed dialer and the endpoint that waits for
\* nothing once, and no ipctran_pipe that is freed or in the making.
Items == Pipes \cup {Dialer, Ep}

Queued ==
    /\ reapq \in Seq(Items) /\ IsInjective(reapq) /\ reaping \notin ToSet(reapq)
    /\ WithReaper \cap listed = listed \cap closed
    /\ WithReaper \cap Pipes \subseteq tran \ {tpipe}
    /\ Dialer \in WithReaper <=> dialer \in {"closed", "removed"}
    /\ dialer = "removed" => reaping = Dialer
    /\ Ep \in WithReaper <=> ep = "fini" /\ tran = {}

EndpointInv ==
    /\ TypeOK /\ OneAttempt /\ Causes /\ HeldByCallback
    /\ Attempt /\ Stages /\ StopsOnlyCutOff /\ Queued

-----------------------------------------------------------------------------
(* Sequences.                                                              *)

LEMMA EmptyToSeq == SetToSeq({}) = <<>>
  <1>1. Cardinality({}) = 0 BY FS_EmptySet
  <1>2. [1..Cardinality({}) -> {}] = {<<>>}
    <2>1. <<>> \in [1..0 -> {}] BY EmptySeq, LenProperties
    <2>2. \A f \in [1..0 -> {}] : f = <<>>
      <3> TAKE f \in [1..0 -> {}]
      <3>1. DOMAIN f = DOMAIN <<>> /\ DOMAIN f = {} BY <2>1
      <3> QED BY <3>1, SMT
    <2> QED BY <1>1, <2>1, <2>2
  <1>3. IsInjective(<<>>) BY DEF IsInjective
  <1> QED BY <1>2, <1>3 DEF SetToSeq

LEMMA SingletonToSeq == ASSUME NEW x PROVE SetToSeq({x}) = <<x>>
  <1>1. Cardinality({x}) = 1 BY FS_Singleton
  <1>2. [1..Cardinality({x}) -> {x}] = {<<x>>} BY <1>1, SMT
  <1>3. IsInjective(<<x>>) BY DEF IsInjective
  <1> QED BY <1>2, <1>3 DEF SetToSeq

LEMMA Extended ==
    ASSUME NEW S, NEW q \in Seq(S), IsInjective(q),
           NEW T \in SUBSET S, T \cap ToSet(q) = {}, \A x, y \in T : x = y
    PROVE  /\ q \o SetToSeq(T) \in Seq(S) /\ IsInjective(q \o SetToSeq(T))
           /\ ToSet(q \o SetToSeq(T)) = ToSet(q) \cup T
  <1>1. CASE T = {}
    <2>1. q \o SetToSeq(T) = q BY <1>1, EmptyToSeq, ConcatEmptySeq
    <2> QED BY <1>1, <2>1
  <1>2. CASE T # {}
    <2>1. PICK x \in T : T = {x} BY <1>2
    <2>2. x \in S /\ x \notin ToSet(q) BY <2>1
    <2>3. SetToSeq(T) = <<x>> BY <2>1, SingletonToSeq
    <2>4. q \o SetToSeq(T) = Append(q, x) BY <2>2, <2>3, Appended
    <2>5. /\ Append(q, x) \in Seq(S) /\ IsInjective(Append(q, x))
          /\ ToSet(Append(q, x)) = ToSet(q) \cup {x}
      BY <2>2, Appended
    <2> QED BY <2>1, <2>4, <2>5
  <1> QED BY <1>1, <1>2

-----------------------------------------------------------------------------
(* The invariant is inductive.                                             *)

LEMMA EndpointInitInv == Init => EndpointInv
  <1> SUFFICES ASSUME Init PROVE EndpointInv OBVIOUS
  <1> USE DEF Init
  <1>1. TypeOK /\ OneAttempt BY DEF TypeOK, OneAttempt
  <1>2. Causes /\ HeldByCallback BY DEF Causes, HeldByCallback
  <1>3. Attempt /\ Stages BY DEF Attempt, Stages, Result
  <1>4. StopsOnlyCutOff BY DEF StopsOnlyCutOff, Trying
  <1>5. Queued
    <2>1. ToSet(<<>>) = {} BY DEF ToSet
    <2>2. IsInjective(<<>>) BY DEF IsInjective
    <2>3. reapq \in Seq(Items) BY EmptySeq
    <2>4. WithReaper = {} BY <2>1 DEF WithReaper
    <2> QED BY <2>1, <2>2, <2>3, <2>4 DEF Queued
  <1> QED BY <1>1, <1>2, <1>3, <1>4, <1>5 DEF EndpointInv

LEMMA TypesKept ==
    ASSUME TypeOK, OneAttempt, Attempt, Queued, [Next]_vars
    PROVE  TypeOK'
  <1> USE EndpointAssumption
  <1> USE DEF TypeOK, OneAttempt
  <1> USE DEF vars, dialing, pipes, ipctran, Result, Idle
  <1>1. CASE PeerUp BY <1>1 DEF PeerUp
  <1>2. CASE PeerDown
    <2>1. peer' \in BOOLEAN /\ alive' \subseteq Pipes BY <1>2 DEF PeerDown
    <2>2. /\ sock' = sock /\ closing' = closing /\ dialer' = dialer /\ con' = con
          /\ timer' = timer /\ dial' = dial /\ cutOff' = cutOff /\ ep' = ep
          /\ tpipe' = tpipe /\ tran' = tran /\ dpipe' = dpipe /\ listed' = listed
          /\ closed' = closed /\ started' = started /\ reaping' = reaping
      BY <1>2 DEF PeerDown
    <2> QED BY <2>1, <2>2
  <1>3. CASE Shutdown BY <1>3 DEF Shutdown
  <1>4. CASE DialOk BY <1>4 DEF DialOk
  <1>5. CASE DialRefused BY <1>5 DEF DialRefused, DialFails
  <1>6. CASE Greet BY <1>6 DEF Greet
  <1>7. CASE GreetCutOff BY <1>7 DEF GreetCutOff, NegoFails, DialFails
  <1>8. CASE NoAnswer BY <1>8 DEF NoAnswer, NegoFails, DialFails
  <1>9. CASE NegoClosed BY <1>9 DEF NegoClosed, NegoFails, DialFails
  <1>10. CASE DialAborted BY <1>10 DEF DialAborted
  <1>11. CASE Answer BY <1>11 DEF Answer
  <1>12. CASE TimerFires BY <1>12 DEF TimerFires
  <1>13. CASE TimerCb BY <1>13 DEF TimerCb
  <1>14. CASE ConnectFailed BY <1>14 DEF ConnectFailed, TimerStart
  <1>15. CASE ConnectOk
    <2>1. tpipe \in tran BY <1>15 DEF ConnectOk, Attempt
    <2> QED BY <1>15, <2>1 DEF ConnectOk
  <1>16. CASE AddPipe BY <1>16 DEF AddPipe
  <1>17. CASE PipeRefused BY <1>17 DEF PipeRefused, ClosePipes
  <1>18. CASE ReaperTakes
    <2>1. reapq # <<>> /\ reapq \in Seq(Items) /\ IsInjective(reapq)
      BY <1>18 DEF ReaperTakes, Queued
    <2>2. Head(reapq) \in Items BY <2>1, Taken
    <2> QED BY <1>18, <2>2 DEF ReaperTakes, Items
  <1>19. CASE ReapPipe BY <1>19 DEF ReapPipe, TimerStart
  <1>20. CASE PipeFreed
    <2>1. reaping # tpipe /\ reaping \notin listed BY <1>20 DEF PipeFreed, Queued, WithReaper
    <2> QED BY <1>20, <2>1 DEF PipeFreed
  <1>21. CASE ReapDialer BY <1>21 DEF ReapDialer
  <1>22. CASE DialerDestroyed BY <1>22 DEF DialerDestroyed
  <1>23. CASE EpFreed BY <1>23 DEF EpFreed
  <1>24. CASE CloseTransport
    <2>1. /\ sock = "began" /\ sock' = "shut" /\ closed' \subseteq Pipes
          /\ dial' \in {"aborted", "closed", "idle"}
      BY <1>24 DEF CloseTransport, ClosePipes
    <2>2. con.at # "wait"
      BY <1>24 DEF CloseTransport, Attempt
    <2>3. /\ peer' = peer /\ closing' = closing /\ dialer' = dialer /\ con' = con
          /\ timer' = timer /\ cutOff' = cutOff /\ ep' = ep
          /\ tpipe' = tpipe /\ tran' = tran /\ dpipe' = dpipe /\ listed' = listed
          /\ alive' = alive /\ started' = started /\ reaping' = reaping
      BY <1>24 DEF CloseTransport
    <2> QED BY <2>1, <2>2, <2>3
  <1>25. CASE CloseEndpoints BY <1>25 DEF CloseEndpoints
  <1>26. CASE SocketGone BY <1>26 DEF SocketGone
  <1>27. ASSUME NEW p \in Pipes, PipeBreaks(p) PROVE TypeOK'
    BY <1>27 DEF PipeBreaks, ClosePipes
  <1>28. CASE UNCHANGED vars BY <1>28
  <1> QED
    BY <1>1, <1>2, <1>3, <1>4, <1>5, <1>6, <1>7, <1>8, <1>9, <1>10, <1>11, <1>12,
       <1>13, <1>14, <1>15, <1>16, <1>17, <1>18, <1>19, <1>20, <1>21, <1>22, <1>23,
       <1>24, <1>25, <1>26, <1>27, <1>28
    DEF Next, Transport, Callbacks, Reaper, Closing

LEMMA OneAttemptKept ==
    ASSUME TypeOK, OneAttempt, HeldByCallback, Attempt, Causes, [Next]_vars
    PROVE  OneAttempt'
  <1> USE EndpointAssumption
  <1> USE DEF TypeOK, OneAttempt, HeldByCallback, Attempt, Causes
  <1> USE DEF vars, dialing, pipes, ipctran, Result, Idle
  <1>1. CASE PeerUp BY <1>1 DEF PeerUp
  <1>2. CASE PeerDown BY <1>2 DEF PeerDown
  <1>3. CASE Shutdown BY <1>3 DEF Shutdown
  <1>4. CASE DialOk BY <1>4 DEF DialOk
  <1>5. CASE DialRefused BY <1>5 DEF DialRefused, DialFails
  <1>6. CASE Greet BY <1>6 DEF Greet
  <1>7. CASE GreetCutOff BY <1>7 DEF GreetCutOff, NegoFails, DialFails
  <1>8. CASE NoAnswer BY <1>8 DEF NoAnswer, NegoFails, DialFails
  <1>9. CASE NegoClosed BY <1>9 DEF NegoClosed, NegoFails, DialFails
  <1>10. CASE DialAborted BY <1>10 DEF DialAborted
  <1>11. CASE Answer BY <1>11 DEF Answer
  <1>12. CASE TimerFires BY <1>12 DEF TimerFires
  <1>13. CASE TimerCb BY <1>13 DEF TimerCb
  <1>14. CASE ConnectFailed BY <1>14 DEF ConnectFailed, TimerStart
  <1>15. CASE ConnectOk BY <1>15 DEF ConnectOk
  <1>16. CASE AddPipe BY <1>16 DEF AddPipe
  <1>17. CASE PipeRefused BY <1>17 DEF PipeRefused, ClosePipes
  <1>18. CASE ReaperTakes BY <1>18 DEF ReaperTakes
  <1>19. CASE ReapPipe BY <1>19 DEF ReapPipe, TimerStart
  <1>20. CASE PipeFreed BY <1>20 DEF PipeFreed
  <1>21. CASE ReapDialer BY <1>21 DEF ReapDialer
  <1>22. CASE DialerDestroyed BY <1>22 DEF DialerDestroyed
  <1>23. CASE EpFreed BY <1>23 DEF EpFreed
  <1>24. CASE CloseTransport BY <1>24 DEF CloseTransport, ClosePipes
  <1>25. CASE CloseEndpoints BY <1>25 DEF CloseEndpoints
  <1>26. CASE SocketGone BY <1>26 DEF SocketGone
  <1>27. ASSUME NEW p \in Pipes, PipeBreaks(p) PROVE OneAttempt'
    BY <1>27 DEF PipeBreaks, ClosePipes
  <1>28. CASE UNCHANGED vars BY <1>28
  <1> QED
    BY <1>1, <1>2, <1>3, <1>4, <1>5, <1>6, <1>7, <1>8, <1>9, <1>10, <1>11, <1>12,
       <1>13, <1>14, <1>15, <1>16, <1>17, <1>18, <1>19, <1>20, <1>21, <1>22, <1>23,
       <1>24, <1>25, <1>26, <1>27, <1>28
    DEF Next, Transport, Callbacks, Reaper, Closing

LEMMA HeldKept ==
    ASSUME TypeOK, OneAttempt, HeldByCallback, [Next]_vars
    PROVE  HeldByCallback'
  <1> USE EndpointAssumption
  <1> USE DEF TypeOK, OneAttempt, HeldByCallback
  <1> USE DEF vars, dialing, pipes, ipctran, Result, Idle
  <1>1. CASE PeerUp BY <1>1 DEF PeerUp
  <1>2. CASE PeerDown BY <1>2 DEF PeerDown
  <1>3. CASE Shutdown BY <1>3 DEF Shutdown
  <1>4. CASE DialOk BY <1>4 DEF DialOk
  <1>5. CASE DialRefused BY <1>5 DEF DialRefused, DialFails
  <1>6. CASE Greet BY <1>6 DEF Greet
  <1>7. CASE GreetCutOff BY <1>7 DEF GreetCutOff, NegoFails, DialFails
  <1>8. CASE NoAnswer BY <1>8 DEF NoAnswer, NegoFails, DialFails
  <1>9. CASE NegoClosed BY <1>9 DEF NegoClosed, NegoFails, DialFails
  <1>10. CASE DialAborted BY <1>10 DEF DialAborted
  <1>11. CASE Answer BY <1>11 DEF Answer
  <1>12. CASE TimerFires BY <1>12 DEF TimerFires
  <1>13. CASE TimerCb BY <1>13 DEF TimerCb
  <1>14. CASE ConnectFailed BY <1>14 DEF ConnectFailed, TimerStart
  <1>15. CASE ConnectOk BY <1>15 DEF ConnectOk
  <1>16. CASE AddPipe BY <1>16 DEF AddPipe
  <1>17. CASE PipeRefused BY <1>17 DEF PipeRefused, ClosePipes
  <1>18. CASE ReaperTakes BY <1>18 DEF ReaperTakes
  <1>19. CASE ReapPipe BY <1>19 DEF ReapPipe, TimerStart
  <1>20. CASE PipeFreed BY <1>20 DEF PipeFreed
  <1>21. CASE ReapDialer BY <1>21 DEF ReapDialer
  <1>22. CASE DialerDestroyed BY <1>22 DEF DialerDestroyed
  <1>23. CASE EpFreed BY <1>23 DEF EpFreed
  <1>24. CASE CloseTransport BY <1>24 DEF CloseTransport, ClosePipes
  <1>25. CASE CloseEndpoints BY <1>25 DEF CloseEndpoints
  <1>26. CASE SocketGone BY <1>26 DEF SocketGone
  <1>27. ASSUME NEW p \in Pipes, PipeBreaks(p) PROVE HeldByCallback'
    BY <1>27 DEF PipeBreaks, ClosePipes
  <1>28. CASE UNCHANGED vars BY <1>28
  <1> QED
    BY <1>1, <1>2, <1>3, <1>4, <1>5, <1>6, <1>7, <1>8, <1>9, <1>10, <1>11, <1>12,
       <1>13, <1>14, <1>15, <1>16, <1>17, <1>18, <1>19, <1>20, <1>21, <1>22, <1>23,
       <1>24, <1>25, <1>26, <1>27, <1>28
    DEF Next, Transport, Callbacks, Reaper, Closing

LEMMA CausesKept ==
    ASSUME TypeOK, Causes, [Next]_vars
    PROVE  Causes'
  <1> USE DEF TypeOK, Causes
  <1> USE DEF vars, dialing, pipes, ipctran, Result, Idle
  <1>1. CASE PeerUp BY <1>1 DEF PeerUp
  <1>2. CASE PeerDown BY <1>2 DEF PeerDown
  <1>3. CASE Shutdown BY <1>3 DEF Shutdown
  <1>4. CASE DialOk BY <1>4 DEF DialOk
  <1>5. CASE DialRefused BY <1>5 DEF DialRefused, DialFails
  <1>6. CASE Greet BY <1>6 DEF Greet
  <1>7. CASE GreetCutOff BY <1>7 DEF GreetCutOff, NegoFails, DialFails
  <1>8. CASE NoAnswer BY <1>8 DEF NoAnswer, NegoFails, DialFails
  <1>9. CASE NegoClosed BY <1>9 DEF NegoClosed, NegoFails, DialFails
  <1>10. CASE DialAborted BY <1>10 DEF DialAborted
  <1>11. CASE Answer BY <1>11 DEF Answer
  <1>12. CASE TimerFires BY <1>12 DEF TimerFires
  <1>13. CASE TimerCb BY <1>13 DEF TimerCb
  <1>14. CASE ConnectFailed BY <1>14 DEF ConnectFailed, TimerStart
  <1>15. CASE ConnectOk BY <1>15 DEF ConnectOk
  <1>16. CASE AddPipe BY <1>16 DEF AddPipe
  <1>17. CASE PipeRefused BY <1>17 DEF PipeRefused, ClosePipes
  <1>18. CASE ReaperTakes BY <1>18 DEF ReaperTakes
  <1>19. CASE ReapPipe BY <1>19 DEF ReapPipe, TimerStart
  <1>20. CASE PipeFreed BY <1>20 DEF PipeFreed
  <1>21. CASE ReapDialer BY <1>21 DEF ReapDialer
  <1>22. CASE DialerDestroyed BY <1>22 DEF DialerDestroyed
  <1>23. CASE EpFreed BY <1>23 DEF EpFreed
  <1>24. CASE CloseTransport BY <1>24 DEF CloseTransport, ClosePipes
  <1>25. CASE CloseEndpoints BY <1>25 DEF CloseEndpoints
  <1>26. CASE SocketGone BY <1>26 DEF SocketGone
  <1>27. ASSUME NEW p \in Pipes, PipeBreaks(p) PROVE Causes'
    BY <1>27 DEF PipeBreaks, ClosePipes
  <1>28. CASE UNCHANGED vars BY <1>28
  <1> QED
    BY <1>1, <1>2, <1>3, <1>4, <1>5, <1>6, <1>7, <1>8, <1>9, <1>10, <1>11, <1>12,
       <1>13, <1>14, <1>15, <1>16, <1>17, <1>18, <1>19, <1>20, <1>21, <1>22, <1>23,
       <1>24, <1>25, <1>26, <1>27, <1>28
    DEF Next, Transport, Callbacks, Reaper, Closing

LEMMA TryingKept ==
    ASSUME TypeOK, OneAttempt, HeldByCallback, Attempt, Causes, StopsOnlyCutOff, [Next]_vars
    PROVE  StopsOnlyCutOff'
  <1> USE EndpointAssumption
  <1> USE DEF TypeOK, OneAttempt, HeldByCallback, Attempt, Causes, StopsOnlyCutOff, Trying
  <1> USE DEF vars, dialing, pipes, ipctran, Result, Idle
  <1>1. CASE PeerUp BY <1>1 DEF PeerUp
  <1>2. CASE PeerDown BY <1>2 DEF PeerDown
  <1>3. CASE Shutdown BY <1>3 DEF Shutdown
  <1>4. CASE DialOk BY <1>4 DEF DialOk
  <1>5. CASE DialRefused BY <1>5 DEF DialRefused, DialFails
  <1>6. CASE Greet BY <1>6 DEF Greet
  <1>7. CASE GreetCutOff BY <1>7 DEF GreetCutOff, NegoFails, DialFails
  <1>8. CASE NoAnswer BY <1>8 DEF NoAnswer, NegoFails, DialFails
  <1>9. CASE NegoClosed BY <1>9 DEF NegoClosed, NegoFails, DialFails
  <1>10. CASE DialAborted BY <1>10 DEF DialAborted
  <1>11. CASE Answer BY <1>11 DEF Answer
  <1>12. CASE TimerFires BY <1>12 DEF TimerFires
  <1>13. CASE TimerCb BY <1>13 DEF TimerCb
  <1>14. CASE ConnectFailed BY <1>14 DEF ConnectFailed, TimerStart
  <1>15. CASE ConnectOk BY <1>15 DEF ConnectOk
  <1>16. CASE AddPipe BY <1>16 DEF AddPipe
  <1>17. CASE PipeRefused BY <1>17 DEF PipeRefused, ClosePipes
  <1>18. CASE ReaperTakes BY <1>18 DEF ReaperTakes
  <1>19. CASE ReapPipe BY <1>19 DEF ReapPipe, TimerStart
  <1>20. CASE PipeFreed BY <1>20 DEF PipeFreed
  <1>21. CASE ReapDialer BY <1>21 DEF ReapDialer
  <1>22. CASE DialerDestroyed BY <1>22 DEF DialerDestroyed
  <1>23. CASE EpFreed BY <1>23 DEF EpFreed
  <1>24. CASE CloseTransport BY <1>24 DEF CloseTransport, ClosePipes
  <1>25. CASE CloseEndpoints BY <1>25 DEF CloseEndpoints
  <1>26. CASE SocketGone BY <1>26 DEF SocketGone
  <1>27. ASSUME NEW p \in Pipes, PipeBreaks(p) PROVE StopsOnlyCutOff'
    BY <1>27 DEF PipeBreaks, ClosePipes
  <1>28. CASE UNCHANGED vars BY <1>28
  <1> QED
    BY <1>1, <1>2, <1>3, <1>4, <1>5, <1>6, <1>7, <1>8, <1>9, <1>10, <1>11, <1>12,
       <1>13, <1>14, <1>15, <1>16, <1>17, <1>18, <1>19, <1>20, <1>21, <1>22, <1>23,
       <1>24, <1>25, <1>26, <1>27, <1>28
    DEF Next, Transport, Callbacks, Reaper, Closing

LEMMA AttemptKept ==
    ASSUME TypeOK, OneAttempt, Causes, Attempt, [Next]_vars
    PROVE  Attempt'
  <1> USE EndpointAssumption
  <1> USE DEF TypeOK, OneAttempt, Causes, Attempt
  <1> USE DEF vars, dialing, pipes, ipctran, Result, Idle
  <1>1. CASE PeerUp BY <1>1 DEF PeerUp
  <1>2. CASE PeerDown BY <1>2 DEF PeerDown
  <1>3. CASE Shutdown BY <1>3 DEF Shutdown
  <1>4. CASE DialOk BY <1>4 DEF DialOk
  <1>5. CASE DialRefused BY <1>5 DEF DialRefused, DialFails
  <1>6. CASE Greet BY <1>6 DEF Greet
  <1>7. CASE GreetCutOff BY <1>7 DEF GreetCutOff, NegoFails, DialFails
  <1>8. CASE NoAnswer BY <1>8 DEF NoAnswer, NegoFails, DialFails
  <1>9. CASE NegoClosed BY <1>9 DEF NegoClosed, NegoFails, DialFails
  <1>10. CASE DialAborted BY <1>10 DEF DialAborted
  <1>11. CASE Answer BY <1>11 DEF Answer
  <1>12. CASE TimerFires BY <1>12 DEF TimerFires
  <1>13. CASE TimerCb BY <1>13 DEF TimerCb
  <1>14. CASE ConnectFailed BY <1>14 DEF ConnectFailed, TimerStart
  <1>15. CASE ConnectOk BY <1>15 DEF ConnectOk
  <1>16. CASE AddPipe BY <1>16 DEF AddPipe
  <1>17. CASE PipeRefused BY <1>17 DEF PipeRefused, ClosePipes
  <1>18. CASE ReaperTakes BY <1>18 DEF ReaperTakes
  <1>19. CASE ReapPipe BY <1>19 DEF ReapPipe, TimerStart
  <1>20. CASE PipeFreed BY <1>20 DEF PipeFreed
  <1>21. CASE ReapDialer BY <1>21 DEF ReapDialer
  <1>22. CASE DialerDestroyed BY <1>22 DEF DialerDestroyed
  <1>23. CASE EpFreed BY <1>23 DEF EpFreed
  <1>24. CASE CloseTransport BY <1>24 DEF CloseTransport, ClosePipes
  <1>25. CASE CloseEndpoints BY <1>25 DEF CloseEndpoints
  <1>26. CASE SocketGone BY <1>26 DEF SocketGone
  <1>27. ASSUME NEW p \in Pipes, PipeBreaks(p) PROVE Attempt'
    BY <1>27 DEF PipeBreaks, ClosePipes
  <1>28. CASE UNCHANGED vars BY <1>28
  <1> QED
    BY <1>1, <1>2, <1>3, <1>4, <1>5, <1>6, <1>7, <1>8, <1>9, <1>10, <1>11, <1>12,
       <1>13, <1>14, <1>15, <1>16, <1>17, <1>18, <1>19, <1>20, <1>21, <1>22, <1>23,
       <1>24, <1>25, <1>26, <1>27, <1>28
    DEF Next, Transport, Callbacks, Reaper, Closing

LEMMA StagesKept ==
    ASSUME TypeOK, OneAttempt, Attempt, Causes, Queued, Stages, [Next]_vars
    PROVE  Stages'
  <1> USE EndpointAssumption
  <1> USE DEF TypeOK, OneAttempt, Causes, Stages
  <1> USE DEF vars, dialing, pipes, ipctran, Result, Idle
  <1>1. CASE PeerUp BY <1>1 DEF PeerUp
  <1>2. CASE PeerDown BY <1>2 DEF PeerDown
  <1>3. CASE Shutdown BY <1>3 DEF Shutdown
  <1>4. CASE DialOk BY <1>4 DEF DialOk, Attempt
  <1>5. CASE DialRefused BY <1>5 DEF DialRefused, DialFails
  <1>6. CASE Greet BY <1>6 DEF Greet
  <1>7. CASE GreetCutOff BY <1>7 DEF GreetCutOff, NegoFails, DialFails
  <1>8. CASE NoAnswer BY <1>8 DEF NoAnswer, NegoFails, DialFails
  <1>9. CASE NegoClosed BY <1>9 DEF NegoClosed, NegoFails, DialFails
  <1>10. CASE DialAborted BY <1>10 DEF DialAborted
  <1>11. CASE Answer BY <1>11 DEF Answer
  <1>12. CASE TimerFires BY <1>12 DEF TimerFires
  <1>13. CASE TimerCb BY <1>13 DEF TimerCb
  <1>14. CASE ConnectFailed BY <1>14 DEF ConnectFailed, TimerStart
  <1>15. CASE ConnectOk BY <1>15 DEF ConnectOk
  <1>16. CASE AddPipe BY <1>16 DEF AddPipe
  <1>17. CASE PipeRefused BY <1>17 DEF PipeRefused, ClosePipes
  <1>18. CASE ReaperTakes BY <1>18 DEF ReaperTakes
  <1>19. CASE ReapPipe
    <2>1. reaping \in listed /\ closing' = closing /\ sock' = sock /\ dialer' = dialer /\ con' = con
      BY <1>19 DEF ReapPipe
    <2>2. dialer \notin {"removed", "freed"} BY <2>1
    <2> QED BY <1>19, <2>1, <2>2 DEF ReapPipe
  <1>20. CASE PipeFreed BY <1>20 DEF PipeFreed
  <1>21. CASE ReapDialer BY <1>21 DEF ReapDialer
  <1>22. CASE DialerDestroyed BY <1>22 DEF DialerDestroyed, Attempt
  <1>23. CASE EpFreed
    <2>1. ep = "fini" /\ tran = {} BY <1>23 DEF EpFreed, Queued, WithReaper
    <2> QED BY <1>23, <2>1 DEF EpFreed, Attempt
  <1>24. CASE CloseTransport BY <1>24 DEF CloseTransport, ClosePipes
  <1>25. CASE CloseEndpoints BY <1>25 DEF CloseEndpoints
  <1>26. CASE SocketGone BY <1>26 DEF SocketGone
  <1>27. ASSUME NEW p \in Pipes, PipeBreaks(p) PROVE Stages'
    BY <1>27 DEF PipeBreaks, ClosePipes
  <1>28. CASE UNCHANGED vars BY <1>28
  <1> QED
    BY <1>1, <1>2, <1>3, <1>4, <1>5, <1>6, <1>7, <1>8, <1>9, <1>10, <1>11, <1>12,
       <1>13, <1>14, <1>15, <1>16, <1>17, <1>18, <1>19, <1>20, <1>21, <1>22, <1>23,
       <1>24, <1>25, <1>26, <1>27, <1>28
    DEF Next, Transport, Callbacks, Reaper, Closing

LEMMA NoPipeNotQueued == ASSUME Queued PROVE NoPipe \notin ToSet(reapq)
  <1>1. ToSet(reapq) \subseteq Items BY DEF Queued, ToSet
  <1> QED BY <1>1, EndpointAssumption DEF Items

\* A greeting that failed: its ipctran_pipe joins the queue.
LEMMA GreetingReaped ==
    ASSUME TypeOK, Attempt, Queued, tpipe \in tran,
           reapq' = Append(reapq, tpipe), reaping' = reaping, tpipe' = NoPipe, tran' = tran,
           listed' = listed, closed' = closed, dialer' = dialer, ep' = ep
    PROVE  Queued'
  <1> USE EndpointAssumption DEF TypeOK, Attempt, Queued, Items
  <1>1. tpipe \notin WithReaper /\ tpipe \in Pipes OBVIOUS
  <1>2. tpipe \notin ToSet(reapq) /\ reaping # tpipe BY <1>1 DEF WithReaper
  <1>3. /\ reapq' \in Seq(Items) /\ IsInjective(reapq')
        /\ ToSet(reapq') = ToSet(reapq) \cup {tpipe}
    BY <1>1, <1>2, Appended
  <1>4. WithReaper' = WithReaper \cup {tpipe} BY <1>1, <1>3 DEF WithReaper
  <1> QED BY <1>1, <1>2, <1>3, <1>4

\* Listed pipes are closed: those that were not yet join the queue.
LEMMA ClosedReaped ==
    ASSUME TypeOK, OneAttempt, Attempt, Queued, NEW ps, ps \subseteq listed,
           reapq' = reapq \o SetToSeq(ps \ closed), closed' = closed \cup ps,
           reaping' = reaping, listed' = listed, tran' = tran, tpipe' = tpipe,
           dialer' = dialer, ep' = ep
    PROVE  Queued'
  <1> USE EndpointAssumption DEF TypeOK, OneAttempt, Attempt, Queued, Items
  <1> DEFINE T == ps \ closed
  <1>1. T \in SUBSET Items /\ T \cap WithReaper = {} /\ \A x, y \in T : x = y OBVIOUS
  <1>2. T \cap ToSet(reapq) = {} /\ reaping \notin T /\ T \subseteq Pipes
    BY <1>1, NoPipeNotQueued DEF WithReaper
  <1>3. reapq' = reapq \o SetToSeq(T) /\ T = ps \ closed OBVIOUS
  <1> HIDE DEF T
  <1>4. /\ reapq' \in Seq(Items) /\ IsInjective(reapq')
        /\ ToSet(reapq') = ToSet(reapq) \cup T
    <2>1. reapq \in Seq(Items) /\ IsInjective(reapq) OBVIOUS
    <2> HIDE DEF TypeOK, OneAttempt, Attempt, Queued, Items
    <2> QED BY <1>1, <1>2, <1>3, <2>1, Extended
  <1>5. WithReaper' = WithReaper \cup T BY <1>2, <1>4 DEF WithReaper
  <1>6. T \subseteq tran /\ tpipe \notin T BY <1>3
  <1>7. reaping' \notin ToSet(reapq') BY <1>2, <1>4
  <1>8. WithReaper' \cap listed' = listed' \cap closed' BY <1>3, <1>5
  <1>9. WithReaper' \cap Pipes \subseteq tran' \ {tpipe'} BY <1>5, <1>6
  <1>10. Dialer \in WithReaper' <=> dialer' \in {"closed", "removed"} BY <1>2, <1>5
  <1>11. Ep \in WithReaper' <=> ep' = "fini" /\ tran' = {} BY <1>2, <1>5
  <1> QED BY <1>4, <1>7, <1>8, <1>9, <1>10, <1>11

LEMMA QueuedKept ==
    ASSUME TypeOK, OneAttempt, Attempt, Stages, Queued, [Next]_vars
    PROVE  Queued'
  <1> USE EndpointAssumption
  <1> USE DEF TypeOK, OneAttempt, Queued, Items
  <1> USE DEF vars, dialing, pipes, ipctran, Result, Idle
  <1>1. CASE PeerUp
    <2>1. reapq' = reapq /\ reaping' = reaping BY <1>1 DEF PeerUp
    <2>2. WithReaper' = WithReaper BY <2>1 DEF WithReaper
    <2> QED BY <1>1, <2>1, <2>2 DEF PeerUp
  <1>2. CASE PeerDown
    <2>1. reapq' = reapq /\ reaping' = reaping BY <1>2 DEF PeerDown
    <2>2. WithReaper' = WithReaper BY <2>1 DEF WithReaper
    <2> QED BY <1>2, <2>1, <2>2 DEF PeerDown
  <1>3. CASE Shutdown
    <2>1. reapq' = reapq /\ reaping' = reaping BY <1>3 DEF Shutdown
    <2>2. WithReaper' = WithReaper BY <2>1 DEF WithReaper
    <2> QED BY <1>3, <2>1, <2>2 DEF Shutdown
  <1>4. CASE DialOk
    <2>1. reapq' = reapq /\ reaping' = reaping BY <1>4 DEF DialOk
    <2>2. WithReaper' = WithReaper BY <2>1 DEF WithReaper
    <2>3. PICK p \in Pipes \ tran : tpipe' = p /\ tran' = tran \cup {p} BY <1>4 DEF DialOk
    <2>4. p \notin WithReaper BY <2>3
    <2>5. sock \in {"open", "began"} /\ ep = "used" BY <1>4 DEF DialOk, Attempt, Stages
    <2>6. listed' = listed /\ closed' = closed /\ dialer' = dialer /\ ep' = ep BY <1>4 DEF DialOk
    <2> QED BY <2>1, <2>2, <2>3, <2>4, <2>5, <2>6
  <1>5. CASE DialRefused
    <2>1. reapq' = reapq /\ reaping' = reaping BY <1>5 DEF DialRefused, DialFails
    <2>2. WithReaper' = WithReaper BY <2>1 DEF WithReaper
    <2> QED BY <1>5, <2>1, <2>2 DEF DialRefused, DialFails
  <1>6. CASE Greet
    <2>1. reapq' = reapq /\ reaping' = reaping BY <1>6 DEF Greet
    <2>2. WithReaper' = WithReaper BY <2>1 DEF WithReaper
    <2> QED BY <1>6, <2>1, <2>2 DEF Greet
  <1>7. CASE GreetCutOff
    <2>1. /\ reapq' = Append(reapq, tpipe) /\ reaping' = reaping /\ tpipe' = NoPipe
          /\ tran' = tran /\ listed' = listed /\ closed' = closed /\ dialer' = dialer /\ ep' = ep
      BY <1>7 DEF GreetCutOff, NegoFails, DialFails
    <2>2. tpipe \in Pipes /\ tpipe \in tran BY <1>7 DEF GreetCutOff, Attempt
    <2> QED BY <2>1, <2>2, GreetingReaped
  <1>8. CASE NoAnswer
    <2>1. /\ reapq' = Append(reapq, tpipe) /\ reaping' = reaping /\ tpipe' = NoPipe
          /\ tran' = tran /\ listed' = listed /\ closed' = closed /\ dialer' = dialer /\ ep' = ep
      BY <1>8 DEF NoAnswer, NegoFails, DialFails
    <2>2. tpipe \in Pipes /\ tpipe \in tran BY <1>8 DEF NoAnswer, Attempt
    <2> QED BY <2>1, <2>2, GreetingReaped
  <1>9. CASE NegoClosed
    <2>1. /\ reapq' = Append(reapq, tpipe) /\ reaping' = reaping /\ tpipe' = NoPipe
          /\ tran' = tran /\ listed' = listed /\ closed' = closed /\ dialer' = dialer /\ ep' = ep
      BY <1>9 DEF NegoClosed, NegoFails, DialFails
    <2>2. tpipe \in Pipes /\ tpipe \in tran BY <1>9 DEF NegoClosed, Attempt
    <2> QED BY <2>1, <2>2, GreetingReaped
  <1>10. CASE DialAborted
    <2>1. reapq' = reapq /\ reaping' = reaping BY <1>10 DEF DialAborted
    <2>2. WithReaper' = WithReaper BY <2>1 DEF WithReaper
    <2> QED BY <1>10, <2>1, <2>2 DEF DialAborted
  <1>11. CASE Answer
    <2>1. reapq' = reapq /\ reaping' = reaping BY <1>11 DEF Answer
    <2>2. WithReaper' = WithReaper BY <2>1 DEF WithReaper
    <2> QED BY <1>11, <2>1, <2>2 DEF Answer
  <1>12. CASE TimerFires
    <2>1. reapq' = reapq /\ reaping' = reaping BY <1>12 DEF TimerFires
    <2>2. WithReaper' = WithReaper BY <2>1 DEF WithReaper
    <2> QED BY <1>12, <2>1, <2>2 DEF TimerFires
  <1>13. CASE TimerCb
    <2>1. reapq' = reapq /\ reaping' = reaping BY <1>13 DEF TimerCb
    <2>2. WithReaper' = WithReaper BY <2>1 DEF WithReaper
    <2> QED BY <1>13, <2>1, <2>2 DEF TimerCb
  <1>14. CASE ConnectFailed
    <2>1. reapq' = reapq /\ reaping' = reaping BY <1>14 DEF ConnectFailed, TimerStart
    <2>2. WithReaper' = WithReaper BY <2>1 DEF WithReaper
    <2> QED BY <1>14, <2>1, <2>2 DEF ConnectFailed, TimerStart
  <1>15. CASE ConnectOk
    <2>1. reapq' = reapq /\ reaping' = reaping BY <1>15 DEF ConnectOk
    <2>2. WithReaper' = WithReaper BY <2>1 DEF WithReaper
    <2>3. tran' = tran /\ tpipe' = NoPipe /\ dialer' = dialer /\ ep' = ep BY <1>15 DEF ConnectOk
    <2>4. WithReaper \cap listed' = listed' \cap closed'
      <3>1. CASE closing BY <1>15, <3>1 DEF ConnectOk
      <3>2. CASE ~closing
        <4>1. listed' = listed \cup {tpipe} /\ closed' = closed \ {tpipe} BY <1>15, <3>2 DEF ConnectOk
        <4>2. listed = {} /\ tpipe \in Pipes BY <1>15 DEF ConnectOk, Attempt
        <4> QED BY <4>1, <4>2
      <3> QED BY <3>1, <3>2
    <2> QED BY <2>1, <2>2, <2>3, <2>4
  <1>16. CASE AddPipe
    <2>1. reapq' = reapq /\ reaping' = reaping BY <1>16 DEF AddPipe
    <2>2. WithReaper' = WithReaper BY <2>1 DEF WithReaper
    <2> QED BY <1>16, <2>1, <2>2 DEF AddPipe
  <1>17. CASE PipeRefused
    <2> DEFINE ps == {dpipe}
    <2>1. /\ reapq' = reapq \o SetToSeq(ps \ closed) /\ closed' = closed \cup ps
          /\ reaping' = reaping /\ listed' = listed /\ tran' = tran /\ tpipe' = tpipe
          /\ dialer' = dialer /\ ep' = ep
      BY <1>17 DEF PipeRefused, ClosePipes
    <2>2. ps \subseteq listed BY <1>17 DEF PipeRefused
    <2> HIDE DEF ps, TypeOK, OneAttempt, Queued
    <2> QED BY <2>1, <2>2, ClosedReaped
  <1>18. CASE ReaperTakes
    <2>1. reapq # <<>> /\ reaping = NoPipe BY <1>18 DEF ReaperTakes
    <2>2. /\ Tail(reapq) \in Seq(Items) /\ IsInjective(Tail(reapq))
          /\ Head(reapq) \in ToSet(reapq) /\ Head(reapq) \in Items
          /\ ToSet(Tail(reapq)) = ToSet(reapq) \ {Head(reapq)}
      BY <2>1, Taken
    <2>3. reapq' = Tail(reapq) /\ reaping' = Head(reapq) BY <1>18 DEF ReaperTakes
    <2>4. WithReaper' = WithReaper BY <2>1, <2>2, <2>3 DEF WithReaper
    <2>5. dialer # "removed" BY <2>1
    <2>6. /\ listed' = listed /\ closed' = closed /\ tran' = tran /\ tpipe' = tpipe
          /\ dialer' = dialer /\ ep' = ep
      BY <1>18 DEF ReaperTakes
    <2> QED BY <2>2, <2>3, <2>4, <2>5, <2>6
  <1>19. CASE ReapPipe
    <2>1. reapq' = reapq /\ reaping' = reaping BY <1>19 DEF ReapPipe
    <2>2. WithReaper' = WithReaper BY <2>1 DEF WithReaper
    <2>3. /\ listed' = listed \ {reaping} /\ closed' = closed
          /\ tran' = tran /\ tpipe' = tpipe /\ dialer' = dialer /\ ep' = ep
      BY <1>19 DEF ReapPipe
    <2> QED BY <2>1, <2>2, <2>3
  <1>20. CASE PipeFreed
    <2>1. reaping \in Pipes /\ reaping \notin listed /\ reaping' = NoPipe BY <1>20 DEF PipeFreed
    <2>2. /\ tran' = tran \ {reaping} /\ tpipe' = tpipe /\ listed' = listed /\ closed' = closed
          /\ dialer' = dialer /\ ep' = ep
      BY <1>20 DEF PipeFreed
    <2>3. reaping \in tran BY <2>1 DEF WithReaper
    <2>4. Ep \notin WithReaper /\ dialer # "removed" BY <2>1, <2>3
    <2>5. ToSet(reapq) = WithReaper \ {reaping} BY NoPipeNotQueued DEF WithReaper
    <2>6. CASE ep = "fini" /\ tran' = {}
      <3>1. reapq' = Append(reapq, Ep) BY <1>20, <2>6 DEF PipeFreed
      <3>2. Ep \notin ToSet(reapq) /\ Ep \in Items BY <2>4, <2>5
      <3>3. /\ reapq' \in Seq(Items) /\ IsInjective(reapq')
            /\ ToSet(reapq') = ToSet(reapq) \cup {Ep}
        BY <3>1, <3>2, Appended
      <3>4. WithReaper' = (WithReaper \ {reaping}) \cup {Ep}
        BY <2>1, <2>5, <3>3 DEF WithReaper
      <3>5. reaping' \notin ToSet(reapq') BY <2>1, <3>3, NoPipeNotQueued
      <3> QED BY <2>1, <2>2, <2>4, <2>6, <3>3, <3>4, <3>5
    <2>7. CASE ~(ep = "fini" /\ tran' = {})
      <3>1. reapq' = reapq BY <1>20, <2>7 DEF PipeFreed
      <3>2. WithReaper' = WithReaper \ {reaping} BY <2>1, <2>5, <3>1, NoPipeNotQueued DEF WithReaper
      <3>3. reaping' \notin ToSet(reapq') BY <2>1, <3>1, NoPipeNotQueued
      <3> QED BY <2>1, <2>2, <2>4, <2>7, <3>1, <3>2, <3>3
    <2> QED BY <2>6, <2>7
  <1>21. CASE ReapDialer
    <2>1. /\ reaping = Dialer /\ dialer = "closed"
          /\ listed' = listed /\ tran' = tran /\ tpipe' = tpipe /\ ep' = ep
      BY <1>21 DEF ReapDialer
    <2>2. CASE listed = {}
      <3>1. reapq' = reapq /\ reaping' = reaping /\ closed' = closed /\ dialer' = "removed"
        BY <1>21, <2>2 DEF ReapDialer
      <3>2. WithReaper' = WithReaper BY <3>1 DEF WithReaper
      <3> QED BY <2>1, <3>1, <3>2
    <2>3. CASE listed # {}
      <3> DEFINE T == listed \ closed
      <3> DEFINE q == reapq \o SetToSeq(T)
      <3>1. /\ reapq' = Append(q, Dialer) /\ reaping' = NoPipe
            /\ closed' = closed \cup listed /\ dialer' = dialer
        BY <1>21, <2>3 DEF ReapDialer
      <3>2. T \in SUBSET Items /\ T \cap ToSet(reapq) = {} /\ \A x, y \in T : x = y
        BY DEF WithReaper
      <3>3. T = listed \ closed OBVIOUS
      <3> HIDE DEF T
      <3>4. q \in Seq(Items) /\ IsInjective(q) /\ ToSet(q) = ToSet(reapq) \cup T
        BY <3>2, Extended
      <3> HIDE DEF q
      <3>5. Dialer \notin ToSet(q) /\ Dialer \in Items BY <2>1, <3>3, <3>4
      <3>6. /\ reapq' \in Seq(Items) /\ IsInjective(reapq')
            /\ ToSet(reapq') = ToSet(q) \cup {Dialer}
        BY <3>1, <3>4, <3>5, Appended
      <3>7. NoPipe \notin ToSet(reapq') BY <3>3, <3>4, <3>6, NoPipeNotQueued
      <3>8. WithReaper' = WithReaper \cup T
        BY <2>1, <3>1, <3>4, <3>6, <3>7, NoPipeNotQueued DEF WithReaper
      <3>9. T \subseteq Pipes /\ T \subseteq tran /\ tpipe \notin T BY <3>3 DEF Attempt
      <3> QED BY <2>1, <3>1, <3>3, <3>6, <3>7, <3>8, <3>9
    <2> QED BY <2>2, <2>3
  <1>22. CASE DialerDestroyed
    <2>1. /\ reaping = Dialer /\ reaping' = NoPipe /\ reapq' = reapq /\ dialer' = "freed"
          /\ listed' = listed /\ closed' = closed /\ tran' = tran /\ tpipe' = tpipe
          /\ ep' = IF tran # {} THEN "fini" ELSE "freed"
      BY <1>22 DEF DialerDestroyed
    <2>2. WithReaper' = WithReaper \ {Dialer} BY <2>1, NoPipeNotQueued DEF WithReaper
    <2>3. ep = "used" BY <1>22 DEF DialerDestroyed, Stages
    <2>4. reaping' \notin ToSet(reapq') BY <2>1, NoPipeNotQueued
    <2> QED BY <2>1, <2>2, <2>3, <2>4
  <1>23. CASE EpFreed
    <2>1. /\ reaping = Ep /\ reaping' = NoPipe /\ reapq' = reapq /\ ep' = "freed"
          /\ listed' = listed /\ closed' = closed /\ tran' = tran /\ tpipe' = tpipe
          /\ dialer' = dialer
      BY <1>23 DEF EpFreed
    <2>2. WithReaper' = WithReaper \ {Ep} BY <2>1, NoPipeNotQueued DEF WithReaper
    <2>3. reaping' \notin ToSet(reapq') BY <2>1, NoPipeNotQueued
    <2> QED BY <2>1, <2>2, <2>3
  <1>24. CASE CloseTransport
    <2> DEFINE ps == listed
    <2>1. /\ reapq' = reapq \o SetToSeq(ps \ closed) /\ closed' = closed \cup ps
          /\ reaping' = reaping /\ listed' = listed /\ tran' = tran /\ tpipe' = tpipe
          /\ dialer' = dialer /\ ep' = ep
      BY <1>24 DEF CloseTransport, ClosePipes
    <2>2. ps \subseteq listed OBVIOUS
    <2> HIDE DEF ps, TypeOK, OneAttempt, Queued
    <2> QED BY <2>1, <2>2, ClosedReaped
  <1>25. CASE CloseEndpoints
    <2>1. /\ dialer = "listed" /\ dialer' = "closed" /\ reaping' = reaping
          /\ closed' = closed \cup listed /\ listed' = listed /\ tran' = tran
          /\ tpipe' = tpipe /\ ep' = ep
      BY <1>25 DEF CloseEndpoints, Stages
    <2> DEFINE q == Append(reapq, Dialer)
    <2> DEFINE T == listed \ closed
    <2>2. Dialer \notin ToSet(reapq) /\ reaping # Dialer /\ Dialer \in Items
      BY <2>1 DEF WithReaper
    <2>3. q \in Seq(Items) /\ IsInjective(q) /\ ToSet(q) = ToSet(reapq) \cup {Dialer}
      BY <2>2, Appended
    <2>4. T \in SUBSET Items /\ T \cap ToSet(q) = {} /\ \A x, y \in T : x = y
      BY <2>3 DEF WithReaper
    <2>5. T = listed \ closed /\ reapq' = q \o SetToSeq(T) BY <1>25 DEF CloseEndpoints
    <2> HIDE DEF q, T
    <2>6. /\ reapq' \in Seq(Items) /\ IsInjective(reapq')
          /\ ToSet(reapq') = ToSet(q) \cup T
      <3>1. /\ q \o SetToSeq(T) \in Seq(Items) /\ IsInjective(q \o SetToSeq(T))
            /\ ToSet(q \o SetToSeq(T)) = ToSet(q) \cup T
        <4> HIDE DEF TypeOK, OneAttempt, Queued, Items
        <4> QED BY <2>3, <2>4, Extended
      <3> QED BY <2>5, <3>1
    <2>7. reaping \notin T BY <2>5 DEF WithReaper
    <2>8. WithReaper' = WithReaper \cup {Dialer} \cup T
      <3>1. ToSet(reapq') = ToSet(reapq) \cup {Dialer} \cup T BY <2>3, <2>6
      <3>2. NoPipe # Dialer /\ NoPipe \notin T BY <2>4
      <3> HIDE DEF TypeOK, OneAttempt, Queued, Items
      <3> QED BY <2>1, <3>1, <3>2 DEF WithReaper
    <2>9. T \subseteq Pipes /\ T \subseteq tran /\ tpipe \notin T BY <2>5 DEF Attempt
    <2> QED BY <2>1, <2>2, <2>3, <2>5, <2>6, <2>7, <2>8, <2>9, ZenonT(60)
  <1>26. CASE SocketGone
    <2>1. reapq' = reapq /\ reaping' = reaping BY <1>26 DEF SocketGone
    <2>2. WithReaper' = WithReaper BY <2>1 DEF WithReaper
    <2> QED BY <1>26, <2>1, <2>2 DEF SocketGone
  <1>27. ASSUME NEW p \in Pipes, PipeBreaks(p) PROVE Queued'
    <2> DEFINE ps == {p}
    <2>1. /\ reapq' = reapq \o SetToSeq(ps \ closed) /\ closed' = closed \cup ps
          /\ reaping' = reaping /\ listed' = listed /\ tran' = tran /\ tpipe' = tpipe
          /\ dialer' = dialer /\ ep' = ep
      BY <1>27 DEF PipeBreaks, ClosePipes
    <2>2. ps \subseteq listed BY <1>27 DEF PipeBreaks
    <2> HIDE DEF ps, TypeOK, OneAttempt, Queued
    <2> QED BY <2>1, <2>2, ClosedReaped
  <1>28. CASE UNCHANGED vars BY <1>28 DEF WithReaper
  <1> QED
    BY <1>1, <1>2, <1>3, <1>4, <1>5, <1>6, <1>7, <1>8, <1>9, <1>10, <1>11, <1>12,
       <1>13, <1>14, <1>15, <1>16, <1>17, <1>18, <1>19, <1>20, <1>21, <1>22, <1>23,
       <1>24, <1>25, <1>26, <1>27, <1>28
    DEF Next, Transport, Callbacks, Reaper, Closing

-----------------------------------------------------------------------------
(* The theorems.                                                           *)

LEMMA EndpointInvariance == Spec => []EndpointInv
  <1>1. ASSUME EndpointInv, [Next]_vars PROVE EndpointInv'
    <2>1. TypeOK' /\ OneAttempt' /\ HeldByCallback'
      BY <1>1, TypesKept, OneAttemptKept, HeldKept DEF EndpointInv
    <2>2. Causes' /\ StopsOnlyCutOff' BY <1>1, CausesKept, TryingKept DEF EndpointInv
    <2>3. Attempt' /\ Stages' BY <1>1, AttemptKept, StagesKept DEF EndpointInv
    <2>4. Queued' BY <1>1, QueuedKept DEF EndpointInv
    <2> QED BY <2>1, <2>2, <2>3, <2>4 DEF EndpointInv
  <1> QED BY <1>1, EndpointInitInv, PTL DEF Spec

\* The variables keep their types, and d_pipe is always a pipe of the list: nothing
\* writes through a pointer to a destroyed pipe.
THEOREM EndpointTypeCorrect == Spec => []TypeOK
  <1>1. EndpointInv => TypeOK BY DEF EndpointInv
  <1> QED BY <1>1, EndpointInvariance, PTL

\* A dialer never has two of: an attempt to connect, a running timer, a pipe
\* (dialer.c, socket.c:1366-1444, 1654-1682).
THEOREM OneThingAtATime == Spec => []OneAttempt
  <1>1. EndpointInv => OneAttempt BY DEF EndpointInv
  <1> QED BY <1>1, EndpointInvariance, PTL

\* A held pipe is not destroyed, every closed pipe is with the reaper once, and the
\* reaper has no ipctran_pipe that is freed or in the making (pipe.c:59-175, reap.c,
\* ipc.c:132-168).
THEOREM HeldPipesAreNotDestroyed == Spec => []HeldIsListed
  <1>1. EndpointInv => HeldIsListed
    <2> SUFFICES ASSUME EndpointInv PROVE HeldIsListed OBVIOUS
    <2>1. held \subseteq listed BY EndpointAssumption DEF EndpointInv, HeldByCallback, TypeOK, OneAttempt
    <2> QED BY <2>1 DEF EndpointInv, Queued, HeldIsListed
  <1> QED BY <1>1, EndpointInvariance, PTL

\* The dialer of an open socket goes on for ever unless its greeting met a closed
\* connection: there is no other way to the "No further action" of dialer.c:341-343.
THEOREM OnlyACutOffStopsIt == Spec => []StopsOnlyCutOff
  <1>1. EndpointInv => StopsOnlyCutOff BY DEF EndpointInv
  <1> QED BY <1>1, EndpointInvariance, PTL

\* When nn_close has freed the socket, no pipe, dialer or callback is left that would
\* use it, and the reaper is past the part of pipe_destroy and nni_dialer_reap that does
\* (socket.c:740-811, 1504-1511, pipe.c:88-98); and the endpoint that outlives the socket
\* is freed once, after all that uses it (ipc.c:132-157, 686-706).
THEOREM NothingUsesAFreedSocket == Spec => []GoneIsUnused
  <1>1. EndpointInv => GoneIsUnused
    <2> SUFFICES ASSUME EndpointInv PROVE GoneIsUnused OBVIOUS
    <2> USE DEF EndpointInv
    <2>1. ASSUME sock = "gone"
          PROVE  /\ listed = {} /\ dialer \in {"removed", "freed"}
                 /\ con = Idle /\ timer = "idle"
      BY <2>1 DEF Stages
    <2>2. ASSUME sock = "gone", Dialer \in WithReaper
          PROVE  reaping = Dialer /\ dialer = "removed"
      BY <2>1, <2>2 DEF Queued
    <2>3. ASSUME ep = "freed"
          PROVE  dialer = "freed" /\ tran = {} /\ dial = "idle" /\ Ep \notin WithReaper
      BY <2>3 DEF Stages, TypeOK, Queued
    <2> QED BY <2>1, <2>2, <2>3 DEF GoneIsUnused
  <1> QED BY <1>1, EndpointInvariance, PTL
=============================================================================
