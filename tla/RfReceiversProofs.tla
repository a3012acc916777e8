------------------------- MODULE RfReceiversProofs -------------------------
(***************************************************************************)
(* Proofs about RfReceivers, for any number of changes, requests and       *)
(* failures: what the page holds is well typed, no row stays disabled, and *)
(* an answer to a refresh is what the first rows show.                     *)
(*                                                                         *)
(* mergeReceivers() is a loop, and what holds after it is shown by         *)
(* induction on its turns (TurnsKeepList).  Rows and requests are counted  *)
(* rather than named: a disabled row has no request of its own, there are  *)
(* only at least as many requests of its object as rows of it that wait.   *)
(***************************************************************************)
EXTENDS RfReceivers, FiniteSetTheorems, SequenceTheorems, WellFoundedInduction, TLAPS

-----------------------------------------------------------------------------
(* Natural numbers *)

\* Every non-empty set of natural numbers has a least element.
LEMMA Least ==
  ASSUME NEW S \in SUBSET Nat, S # {}
  PROVE  \E m \in S : \A k \in S : m <= k
<1> DEFINE T == {0 .. n : n \in S}
           R == StrictSubsetOrdering(Nat)
<1>1. IsWellFoundedOn(R, FiniteSubsetsOf(Nat))
  BY FS_StrictSubsetOrderingWellFounded, Zenon
<1>2. T \subseteq FiniteSubsetsOf(Nat) /\ T # {}
  <2>1. \A n \in Nat : 0 .. n \in FiniteSubsetsOf(Nat)
    BY FS_Interval DEF FiniteSubsetsOf
  <2> QED
    BY <2>1
<1> HIDE DEF R
<1>3. PICK x \in T : \A y \in T : ~ (<<y, x>> \in R)
  BY <1>1, <1>2, WFMin
<1>4. PICK m \in S : x = 0 .. m
  OBVIOUS
<1>5. ASSUME NEW k \in S, k < m PROVE FALSE
  <2>1. 0 .. k \subseteq 0 .. m /\ 0 .. k # 0 .. m /\ 0 .. k \subseteq Nat /\ 0 .. m \subseteq Nat
    BY <1>5
  <2>2. <<0 .. k, 0 .. m>> \in R
    BY <2>1 DEF R, StrictSubsetOrdering
  <2> QED
    BY <1>3, <1>4, <2>2
<1> QED
  BY <1>5

\* Induction, with the numbers for which a formula holds as a set.
LEMMA Induction ==
  ASSUME NEW S, 0 \in S, \A n \in Nat : n \in S => n + 1 \in S
  PROVE  Nat \subseteq S
<1> DEFINE T == {n \in Nat : n \notin S}
<1> SUFFICES ASSUME T # {} PROVE FALSE
  OBVIOUS
<1>1. PICK m \in T : \A k \in T : m <= k
  BY Least
<1>2. m \in Nat /\ m # 0 /\ m - 1 \in Nat /\ m - 1 \notin T
  BY <1>1
<1>3. (m - 1) + 1 \in S
  BY <1>2
<1> QED
  BY <1>2, <1>3

\* Min() picks a member of a set of positions.
LEMMA MinIsMember ==
  ASSUME NEW S \in SUBSET Nat, S # {}
  PROVE  Min(S) \in S /\ \A k \in S : Min(S) <= k
BY Least DEF Min

-----------------------------------------------------------------------------
(* Sequences *)

Inserted(p, T, s, i, e) ==
  /\ p \in Seq(T) /\ Len(p) = Len(s) + 1
  /\ p[i] = e
  /\ \A j \in 1 .. i - 1 : p[j] = s[j]
  /\ \A j \in i + 1 .. Len(s) + 1 : p[j] = s[j - 1]

LEMMA InsertAtIs ==
  ASSUME NEW T, NEW s \in Seq(T), NEW i \in 1 .. Len(s) + 1, NEW e \in T
  PROVE  Inserted(InsertAt(s, i, e), T, s, i, e)
<1> DEFINE a == SubSeq(s, 1, i - 1)
           b == SubSeq(s, i, Len(s))
<1>1. a \in Seq(T) /\ Len(a) = i - 1 /\ \A j \in 1 .. i - 1 : a[j] = s[j]
  OBVIOUS
<1>2. b \in Seq(T) /\ Len(b) = Len(s) - i + 1 /\ \A j \in 1 .. Len(s) - i + 1 : b[j] = s[i + j - 1]
  OBVIOUS
<1>3. InsertAt(s, i, e) = (a \o <<e>>) \o b
  BY DEF InsertAt
<1> HIDE DEF a, b
<1> DEFINE c == a \o <<e>>
<1>4. c \in Seq(T) /\ Len(c) = i /\ c[i] = e /\ \A j \in 1 .. i - 1 : c[j] = s[j]
  <2>1. <<e>> \in Seq(T) /\ Len(<<e>>) = 1 /\ <<e>>[1] = e
    OBVIOUS
  <2>2. c \in Seq(T) /\ Len(c) = Len(a) + 1
    BY <1>1, <2>1, ConcatProperties
  <2>3. \A j \in 1 .. Len(a) + 1 : c[j] = IF j <= Len(a) THEN a[j] ELSE <<e>>[j - Len(a)]
    BY <1>1, <2>1, ConcatProperties
  <2> HIDE DEF c
  <2>4. i - 1 \in Nat /\ Len(a) + 1 = i /\ <<e>>[i - Len(a)] = e
    BY <1>1, <2>1
  <2> QED
    BY <1>1, <2>2, <2>3, <2>4
<1>5. InsertAt(s, i, e) = c \o b
  BY <1>3
<1> HIDE DEF c
<1>6. c \o b \in Seq(T) /\ Len(c \o b) = Len(s) + 1
  <2>1. c \o b \in Seq(T) /\ Len(c \o b) = Len(c) + Len(b)
    BY <1>2, <1>4, ConcatProperties
  <2>2. Len(s) \in Nat
    OBVIOUS
  <2> QED
    BY <1>2, <1>4, <2>1, <2>2
<1>7. ASSUME NEW j \in 1 .. Len(s) + 1
      PROVE  (c \o b)[j] = IF j < i THEN s[j] ELSE IF j = i THEN e ELSE s[j - 1]
  <2>1. (c \o b)[j] = IF j <= i THEN c[j] ELSE b[j - i]
    BY <1>2, <1>4, ConcatProperties
  <2>2. j > i => j - i \in 1 .. Len(s) - i + 1 /\ b[j - i] = s[j - 1]
    BY <1>2
  <2> QED
    BY <1>4, <2>1, <2>2
<1> QED
  BY <1>5, <1>6, <1>7 DEF Inserted

Removed(p, T, s, i) ==
  /\ p \in Seq(T) /\ Len(p) = Len(s) - 1
  /\ \A j \in 1 .. Len(s) - 1 : p[j] = IF j < i THEN s[j] ELSE s[j + 1]

LEMMA RemoveAtIs ==
  ASSUME NEW T, NEW s \in Seq(T), NEW i \in DOMAIN s
  PROVE  Removed(RemoveAt(s, i), T, s, i) /\ RemoveAt(s, i) \in Seq(T)
<1> DEFINE a == SubSeq(s, 1, i - 1)
           b == SubSeq(s, i + 1, Len(s))
<1>1. a \in Seq(T) /\ Len(a) = i - 1 /\ \A j \in 1 .. i - 1 : a[j] = s[j]
  OBVIOUS
<1>2. b \in Seq(T) /\ Len(b) = Len(s) - i /\ \A j \in 1 .. Len(s) - i : b[j] = s[i + j]
  OBVIOUS
<1>3. RemoveAt(s, i) = a \o b
  BY DEF RemoveAt
<1> HIDE DEF a, b
<1>4. a \o b \in Seq(T) /\ Len(a \o b) = Len(s) - 1
  <2>1. a \o b \in Seq(T) /\ Len(a \o b) = Len(a) + Len(b)
    BY <1>1, <1>2, ConcatProperties
  <2>2. Len(s) \in Nat
    OBVIOUS
  <2> QED
    BY <1>1, <1>2, <2>1, <2>2
<1>5. ASSUME NEW j \in 1 .. Len(s) - 1
      PROVE  (a \o b)[j] = IF j < i THEN s[j] ELSE s[j + 1]
  <2>1. (a \o b)[j] = IF j < i THEN a[j] ELSE b[j - (i - 1)]
    BY <1>1, <1>2, ConcatProperties
  <2>2. j >= i => j - (i - 1) \in 1 .. Len(s) - i /\ b[j - (i - 1)] = s[j + 1]
    BY <1>2
  <2> QED
    BY <1>1, <2>1, <2>2
<1> QED
  BY <1>3, <1>4, <1>5 DEF Removed

\* Cutting out the positions from i to n.
LEMMA CutIs ==
  ASSUME NEW T, NEW s \in Seq(T), NEW i \in 1 .. Len(s) + 1, NEW n \in i - 1 .. Len(s)
  PROVE  LET c == SubSeq(s, 1, i - 1) \o SubSeq(s, n + 1, Len(s)) IN
         /\ c \in Seq(T)
         /\ Len(c) = Len(s) - (n + 1 - i)
         /\ \A j \in 1 .. Len(c) : c[j] = IF j < i THEN s[j] ELSE s[j + (n + 1 - i)]
<1> DEFINE a == SubSeq(s, 1, i - 1)
           b == SubSeq(s, n + 1, Len(s))
<1>1. a \in Seq(T) /\ Len(a) = i - 1 /\ \A j \in 1 .. i - 1 : a[j] = s[j]
  OBVIOUS
<1>2. b \in Seq(T) /\ Len(b) = Len(s) - n /\ \A j \in 1 .. Len(s) - n : b[j] = s[n + j]
  OBVIOUS
<1> HIDE DEF a, b
<1>3. a \o b \in Seq(T) /\ Len(a \o b) = Len(s) - (n + 1 - i)
  <2>1. a \o b \in Seq(T) /\ Len(a \o b) = Len(a) + Len(b)
    BY <1>1, <1>2, ConcatProperties
  <2>2. Len(s) \in Nat
    OBVIOUS
  <2> QED
    BY <1>1, <1>2, <2>1, <2>2
<1>4. ASSUME NEW j \in 1 .. Len(a \o b)
      PROVE  (a \o b)[j] = IF j < i THEN s[j] ELSE s[j + (n + 1 - i)]
  <2>1. (a \o b)[j] = IF j < i THEN a[j] ELSE b[j - (i - 1)]
    <3>1. j \in 1 .. Len(a) + Len(b)
      BY <1>1, <1>2, <1>3
    <3>2. (a \o b)[j] = IF j <= Len(a) THEN a[j] ELSE b[j - Len(a)]
      BY <1>1, <1>2, <3>1, ConcatProperties
    <3> QED
      BY <1>1, <3>2
  <2>2. j >= i => j - (i - 1) \in 1 .. Len(s) - n /\ b[j - (i - 1)] = s[j + (n + 1 - i)]
    <3>1. ASSUME j >= i PROVE j - (i - 1) \in 1 .. Len(s) - n /\ n + (j - (i - 1)) = j + (n + 1 - i)
      BY <1>3, <3>1
    <3> QED
      BY <1>2, <3>1
  <2> QED
    BY <1>1, <1>3, <2>1, <2>2
<1> QED
  BY <1>3, <1>4 DEF a, b

-----------------------------------------------------------------------------
(* Counting *)

\* The positions of q at which there is a member of S, and their number.
Positions(q, S) == {k \in DOMAIN q : q[k] \in S}
Number(q, S) == Cardinality(Positions(q, S))

LEMMA NumberIsNat ==
  ASSUME NEW T, NEW q \in Seq(T), NEW S
  PROVE  IsFiniteSet(Positions(q, S)) /\ Number(q, S) \in Nat /\ Positions(q, S) \subseteq 1 .. Len(q)
<1>1. Positions(q, S) \subseteq 1 .. Len(q) /\ Len(q) \in Int
  BY DEF Positions
<1>2. IsFiniteSet(1 .. Len(q))
  BY <1>1, FS_Interval
<1>3. IsFiniteSet(Positions(q, S))
  BY <1>1, <1>2, FS_Subset
<1> QED
  BY <1>1, <1>3, FS_CardinalityType DEF Number

LEMMA CountAppend ==
  ASSUME NEW T, NEW q \in Seq(T), NEW x \in T, NEW S
  PROVE  Number(Append(q, x), S) = IF x \in S THEN Number(q, S) + 1 ELSE Number(q, S)
<1>1. /\ Append(q, x) \in Seq(T) /\ Len(Append(q, x)) = Len(q) + 1 /\ Len(q) \in Nat
      /\ Append(q, x)[Len(q) + 1] = x
      /\ \A k \in 1 .. Len(q) : Append(q, x)[k] = q[k]
  OBVIOUS
<1>2. Positions(Append(q, x), S) =
        IF x \in S THEN Positions(q, S) \cup {Len(q) + 1} ELSE Positions(q, S)
  BY <1>1 DEF Positions
<1>3. Len(q) + 1 \notin Positions(q, S) /\ IsFiniteSet(Positions(q, S))
  BY NumberIsNat, <1>1
<1> QED
  BY <1>2, <1>3, FS_AddElement DEF Number

\* Replacing the member at one position.
LEMMA CountReplace ==
  ASSUME NEW T, NEW q \in Seq(T), NEW p \in Seq(T), NEW k \in DOMAIN q, NEW S,
         DOMAIN p = DOMAIN q, \A j \in DOMAIN q : j # k => p[j] = q[j]
  PROVE  /\ p[k] \in S /\ q[k] \notin S => Number(p, S) = Number(q, S) + 1
         /\ p[k] \notin S /\ q[k] \in S => Number(p, S) = Number(q, S) - 1
         /\ (p[k] \in S <=> q[k] \in S) => Number(p, S) = Number(q, S)
<1> DEFINE P == Positions(q, S) \ {k}
<1>1. Positions(q, S) = IF q[k] \in S THEN P \cup {k} ELSE P
  BY DEF Positions
<1>2. Positions(p, S) = IF p[k] \in S THEN P \cup {k} ELSE P
  BY DEF Positions
<1>3. IsFiniteSet(P) /\ k \notin P /\ Cardinality(P) \in Nat
  BY NumberIsNat, FS_RemoveElement, FS_CardinalityType
<1>4. Cardinality(P \cup {k}) = Cardinality(P) + 1
  BY <1>3, FS_AddElement
<1> HIDE DEF P
<1>5. Number(p, S) = IF p[k] \in S THEN Cardinality(P) + 1 ELSE Cardinality(P)
  BY <1>2, <1>4 DEF Number
<1>6. Number(q, S) = IF q[k] \in S THEN Cardinality(P) + 1 ELSE Cardinality(P)
  BY <1>1, <1>4 DEF Number
<1> QED
  BY <1>3, <1>5, <1>6

LEMMA CountRemove ==
  ASSUME NEW T, NEW q \in Seq(T), NEW k \in DOMAIN q, NEW S
  PROVE  Number(RemoveAt(q, k), S) = IF q[k] \in S THEN Number(q, S) - 1 ELSE Number(q, S)
<1> DEFINE p == RemoveAt(q, k)
           P == Positions(q, S) \ {k}
           f == [j \in P |-> IF j < k THEN j ELSE j - 1]
<1>1. p \in Seq(T) /\ Len(p) = Len(q) - 1 /\ \A j \in 1 .. Len(q) - 1 : p[j] = IF j < k THEN q[j] ELSE q[j + 1]
  <2>1. Removed(p, T, q, k)
    BY RemoveAtIs
  <2> HIDE DEF p
  <2> QED
    BY <2>1 DEF Removed
<1> HIDE DEF p
<1>2. k \in 1 .. Len(q) /\ DOMAIN q = 1 .. Len(q) /\ DOMAIN p = 1 .. Len(q) - 1 /\ Len(q) \in Nat
  BY <1>1
<1>3. \A j \in P : j \in 1 .. Len(q) /\ j # k /\ q[j] \in S
  BY <1>2 DEF Positions
<1>4. f \in Bijection(P, Positions(p, S))
  <2>1. ASSUME NEW j \in P PROVE f[j] \in Positions(p, S)
    BY <1>1, <1>2, <1>3 DEF Positions
  <2>2. \A i, j \in P : f[i] = f[j] => i = j
    BY <1>2, <1>3
  <2>3. ASSUME NEW j \in Positions(p, S) PROVE \E i \in P : f[i] = j
    <3>1. j \in 1 .. Len(q) - 1 /\ p[j] \in S
      BY <1>2 DEF Positions
    <3>2. CASE j < k
      <4>1. j \in P /\ p[j] = q[j]
        BY <1>1, <1>2, <3>1, <3>2 DEF Positions
      <4> QED
        BY <3>2, <4>1
    <3>3. CASE j >= k
      <4>1. j \in Nat /\ j + 1 \in 1 .. Len(q) /\ j + 1 # k /\ ~(j + 1 < k) /\ (j + 1) - 1 = j
        BY <1>2, <3>1, <3>3
      <4>2. q[j + 1] \in S
        BY <1>1, <3>1, <3>3, <4>1
      <4>3. j + 1 \in P
        BY <1>2, <4>1, <4>2 DEF Positions
      <4>4. f[j + 1] = j
        BY <4>1, <4>3
      <4> QED
        BY <4>3, <4>4
    <3> QED
      BY <3>1, <3>2, <3>3, <1>2
  <2> QED
    BY <2>1, <2>2, <2>3 DEF Bijection, Injection, Surjection, IsInjective
<1>5. IsFiniteSet(P) /\ Cardinality(P) = IF q[k] \in S THEN Number(q, S) - 1 ELSE Number(q, S)
  <2>1. k \in Positions(q, S) <=> q[k] \in S
    BY DEF Positions
  <2> QED
    BY <2>1, NumberIsNat, FS_RemoveElement DEF Number
<1>6. Cardinality(Positions(p, S)) = Cardinality(P)
  <2>1. ExistsBijection(P, Positions(p, S))
    BY <1>4, Zenon DEF ExistsBijection
  <2> QED
    BY <1>5, <2>1, FS_Bijection
<1> QED
  BY <1>5, <1>6 DEF Number, p

\* Members that are put in or left out do not count.
LEMMA CountInsert ==
  ASSUME NEW T, NEW q \in Seq(T), NEW i \in 1 .. Len(q) + 1, NEW x \in T, NEW S, x \notin S
  PROVE  Number(InsertAt(q, i, x), S) <= Number(q, S)
<1> DEFINE p == InsertAt(q, i, x)
<1>10. Inserted(p, T, q, i, x)
  BY InsertAtIs
<1> HIDE DEF p
<1>1. /\ p \in Seq(T) /\ Len(p) = Len(q) + 1
      /\ p[i] = x
      /\ \A j \in 1 .. i - 1 : p[j] = q[j]
      /\ \A j \in i + 1 .. Len(q) + 1 : p[j] = q[j - 1]
  BY ONLY <1>10 DEF Inserted
<1> DEFINE f == [j \in Positions(p, S) |-> IF j < i THEN j ELSE j - 1]
<1>2. DOMAIN q = 1 .. Len(q) /\ DOMAIN p = 1 .. Len(q) + 1 /\ Len(q) \in Nat
  BY <1>1
<1>3. \A j \in Positions(p, S) : j \in 1 .. Len(q) + 1 /\ j # i /\ p[j] \in S
  BY <1>1, <1>2 DEF Positions
<1>4. ASSUME NEW j \in Positions(p, S) PROVE f[j] \in Positions(q, S)
  <2>1. CASE j < i
    BY <1>1, <1>2, <1>3, <2>1 DEF Positions
  <2>2. CASE j > i
    <3>1. j - 1 \in 1 .. Len(q) /\ f[j] = j - 1 /\ p[j] = q[j - 1]
      BY <1>1, <1>2, <1>3, <2>2
    <3> QED
      BY <1>2, <1>3, <3>1 DEF Positions
  <2> QED
    BY <1>2, <1>3, <2>1, <2>2
<1>5. \A j, k \in Positions(p, S) : f[j] = f[k] => j = k
  BY <1>2, <1>3
<1>6. f \in Injection(Positions(p, S), Positions(q, S))
  BY <1>4, <1>5 DEF Injection, IsInjective
<1> QED
  BY <1>6, NumberIsNat, FS_Injection DEF Number, p

LEMMA CountCut ==
  ASSUME NEW T, NEW q \in Seq(T), NEW i \in 1 .. Len(q) + 1, NEW n \in i - 1 .. Len(q), NEW S
  PROVE  Number(SubSeq(q, 1, i - 1) \o SubSeq(q, n + 1, Len(q)), S) <= Number(q, S)
<1> DEFINE p == SubSeq(q, 1, i - 1) \o SubSeq(q, n + 1, Len(q))
           f == [j \in Positions(p, S) |-> IF j < i THEN j ELSE j + (n + 1 - i)]
<1>1. /\ p \in Seq(T) /\ Len(p) = Len(q) - (n + 1 - i)
      /\ \A j \in 1 .. Len(p) : p[j] = IF j < i THEN q[j] ELSE q[j + (n + 1 - i)]
  BY CutIs
<1> HIDE DEF p
<1>2. DOMAIN q = 1 .. Len(q) /\ DOMAIN p = 1 .. Len(p) /\ Len(q) \in Nat /\ Len(p) \in Nat
  BY <1>1
<1>3. \A j \in Positions(p, S) : j \in 1 .. Len(p) /\ p[j] \in S
  BY <1>1, <1>2 DEF Positions
<1>4. ASSUME NEW j \in Positions(p, S) PROVE f[j] \in Positions(q, S)
  <2>1. CASE j < i
    BY <1>1, <1>2, <1>3, <2>1, SMTT(30) DEF Positions
  <2>2. CASE j >= i
    <3>1. j + (n + 1 - i) \in 1 .. Len(q)
      BY <1>1, <1>2, <1>3, <2>2
    <3>2. f[j] = j + (n + 1 - i) /\ p[j] = q[j + (n + 1 - i)]
      BY <1>1, <1>2, <1>3, <2>2
    <3> QED
      BY <1>2, <1>3, <3>1, <3>2 DEF Positions
  <2> QED
    BY <1>2, <1>3, <2>1, <2>2
<1>5. \A j, k \in Positions(p, S) : f[j] = f[k] => j = k
  BY <1>2, <1>3
<1>6. f \in Injection(Positions(p, S), Positions(q, S))
  BY <1>4, <1>5 DEF Injection, IsInjective
<1> QED
  BY <1>6, NumberIsNat, FS_Injection DEF Number, p

LEMMA CountFewer ==
  ASSUME NEW T, NEW U, NEW p \in Seq(T), NEW q \in Seq(U), NEW S,
         \A k \in DOMAIN p : p[k] \in S => k \in DOMAIN q /\ q[k] \in S
  PROVE  Number(p, S) <= Number(q, S)
<1>1. Positions(p, S) \subseteq Positions(q, S)
  BY DEF Positions
<1> QED
  BY <1>1, NumberIsNat, FS_Subset DEF Number

-----------------------------------------------------------------------------
(* The invariant *)

\* A receiver in an answer of the server, and a request.
Answers == [id : Nat \ {0}, active : BOOLEAN]
Requests == [kind : {"all", "create", "save", "del"}, obj : Nat, id : Nat, active : BOOLEAN,
             stage : {"sent", "answered", "failed"}, list : Seq(Answers)]

TypeInv ==
  /\ lastId \in Nat \ {0} /\ store \in [DOMAIN store -> BOOLEAN] /\ DOMAIN store \subseteq 1 .. lastId
  /\ rows \in Seq(Rows) /\ requests \in Seq(Requests)
  /\ changesLeft \in 0 .. MaxChanges /\ failuresLeft \in 0 .. MaxFailures

\* What a request lacks while it is on its way, it has when its callback runs.
RequestInv(r, n) ==
  /\ r.id <= n
  /\ \A j \in DOMAIN r.list : r.list[j].id <= n
  /\ r.kind # "all" => r.obj # 0
  /\ r.kind \in {"save", "del"} \/ (r.kind = "create" /\ r.stage = "answered") => r.id # 0

\* The identifiers in use have been given by the server.
IdInv ==
  /\ \A i \in DOMAIN rows : rows[i].id <= lastId
  /\ \A k \in DOMAIN requests : RequestInv(requests[k], lastId)

\* Each identifier to come takes one of the changes that are left or a request on its way.
Unserved == {r \in Requests : r.kind = "create" /\ r.stage = "sent"}
BudgetInv == lastId + changesLeft + Number(requests, Unserved) <= MaxChanges + 1

\* The rows of an object that wait, and the requests that will let them go on.
Updating(o) == {r \in Rows : r.obj = o /\ r.updating = TRUE}
Saves(o) == {r \in Requests : r.obj = o /\ r.kind = "save"}
StuckInv == \A o \in Nat : Number(rows, Updating(o)) <= Number(requests, Saves(o))

\* An object has one identifier, whichever row or request names it; one that is
\* being created is in no row and no other request.
OneId(l) == \A i, j \in DOMAIN l : l[i].obj = l[j].obj => l[i].id = l[j].id
Acquainted(r, s) ==
  r.obj = s.obj /\ r.obj # 0 =>
    r.kind \in {"save", "del"} /\ s.kind \in {"save", "del"} /\ r.id = s.id
ObjInv ==
  /\ OneId(rows)
  /\ \A i \in DOMAIN rows, k \in DOMAIN requests :
       rows[i].obj = requests[k].obj =>
         requests[k].kind \in {"save", "del"} /\ rows[i].id = requests[k].id
  /\ \A j, k \in DOMAIN requests : j # k => Acquainted(requests[j], requests[k])

\* The server answers with ascending identifiers.
Ascending(l) == \A i, j \in DOMAIN l : i < j => l[i].id < l[j].id
AnswerInv == \A k \in DOMAIN requests : Ascending(requests[k].list)

IInv == TypeInv /\ IdInv /\ BudgetInv /\ StuckInv /\ ObjInv /\ AnswerInv

-----------------------------------------------------------------------------
(* The answer of the server *)

\* The store is answered in full and in order: each rank has its identifier.
LEMMA AllReceiversIs ==
  ASSUME TypeInv
  PROVE  /\ AllReceivers \in Seq(Answers) /\ Ascending(AllReceivers)
         /\ \A i \in DOMAIN AllReceivers : AllReceivers[i].id \in DOMAIN store
<1> DEFINE D == DOMAIN store
           UpTo(j) == {k \in D : k <= j}
           n == Cardinality(D)
           rank == [j \in D |-> Cardinality(UpTo(j))]
           pick(i) == CHOOSE j \in D : Cardinality(UpTo(j)) = i
<1>1. D \subseteq Nat \ {0} /\ IsFiniteSet(D) /\ n \in Nat /\ \A j \in D : store[j] \in BOOLEAN
  <2>1. D \subseteq 1 .. lastId /\ lastId \in Int /\ \A j \in D : store[j] \in BOOLEAN
    BY DEF TypeInv
  <2>2. IsFiniteSet(1 .. lastId)
    BY <2>1, FS_Interval
  <2> QED
    BY <2>1, <2>2, FS_Subset, FS_CardinalityType
<1>2. AllReceivers = [i \in 1 .. n |-> [id |-> pick(i), active |-> store[pick(i)]]]
  BY Zenon DEF AllReceivers
<1> HIDE DEF D
<1>3. \A j \in D : IsFiniteSet(UpTo(j)) /\ Cardinality(UpTo(j)) \in 1 .. n
  <2> SUFFICES ASSUME NEW j \in D PROVE IsFiniteSet(UpTo(j)) /\ Cardinality(UpTo(j)) \in 1 .. n
    OBVIOUS
  <2>1. IsFiniteSet(UpTo(j)) /\ Cardinality(UpTo(j)) <= n /\ Cardinality(UpTo(j)) \in Nat
    BY <1>1, FS_Subset, FS_CardinalityType
  <2>2. j \in UpTo(j)
    BY <1>1
  <2>3. Cardinality(UpTo(j)) # 0
    BY <2>1, <2>2, FS_EmptySet
  <2> QED
    BY <1>1, <2>1, <2>3
<1>4. \A j, k \in D : j < k => Cardinality(UpTo(j)) < Cardinality(UpTo(k))
  <2> SUFFICES ASSUME NEW j \in D, NEW k \in D, j < k
               PROVE  Cardinality(UpTo(j)) < Cardinality(UpTo(k))
    OBVIOUS
  <2>1. UpTo(j) \subseteq UpTo(k) /\ k \in UpTo(k) /\ k \notin UpTo(j)
    <3>1. j \in Nat /\ k \in Nat /\ k <= k /\ ~(k <= j)
      BY <1>1
    <3>2. \A e \in D : e <= j => e <= k
      BY <1>1, <3>1
    <3> QED
      BY <3>1, <3>2, Zenon
  <2>2. Cardinality(UpTo(j)) <= Cardinality(UpTo(k)) /\ Cardinality(UpTo(j)) # Cardinality(UpTo(k))
    BY <1>3, <2>1, FS_Subset
  <2> QED
    BY <1>3, <2>2
<1> HIDE DEF UpTo
<1>5. rank \in Injection(D, 1 .. n)
  <2>1. \A j, k \in D : rank[j] = rank[k] => j = k
    BY <1>1, <1>3, <1>4
  <2> QED
    BY <1>3, <2>1 DEF Injection, IsInjective
<1>6. rank \in Surjection(D, 1 .. n)
  <2>1. IsFiniteSet(1 .. n) /\ Cardinality(1 .. n) = n
    BY <1>1, FS_Interval
  <2> QED
    BY <1>5, <2>1, FS_Injection
<1>7. \A i \in 1 .. n : pick(i) \in D /\ Cardinality(UpTo(pick(i))) = i
  <2>1. \A i \in 1 .. n : \E j \in D : Cardinality(UpTo(j)) = i
    BY <1>6 DEF Surjection
  <2> QED
    BY <2>1
<1> HIDE DEF n, pick
<1>8. ASSUME NEW i \in 1 .. n, NEW j \in 1 .. n, i < j PROVE pick(i) < pick(j)
  <2>1. pick(i) \in Nat /\ pick(j) \in Nat /\ i \in Int /\ j \in Int
    <3>1. pick(i) \in D /\ pick(j) \in D
      BY <1>7
    <3>2. i \in Int /\ j \in Int
      BY <1>1
    <3> QED
      BY <1>1, <3>1, <3>2
  <2>2. ~(pick(j) < pick(i)) /\ pick(j) # pick(i)
    <3>1. pick(i) \in D /\ pick(j) \in D /\ Cardinality(UpTo(pick(i))) = i /\ Cardinality(UpTo(pick(j))) = j
      BY <1>7
    <3>2. pick(j) < pick(i) => j < i
      BY <1>4, <3>1
    <3>3. pick(j) = pick(i) => j = i
      BY <3>1, Zenon
    <3> QED
      BY <1>8, <2>1, <3>2, <3>3
  <2> QED
    BY <2>1, <2>2
<1>9. AllReceivers \in [1 .. n -> Answers]
  BY <1>1, <1>2, <1>7 DEF Answers
<1>10. AllReceivers \in Seq(Answers) /\ DOMAIN AllReceivers = 1 .. n
  BY <1>1, <1>9, Zenon, SeqDef
<1> QED
  BY <1>1, <1>2, <1>7, <1>8, <1>10 DEF Ascending, D

-----------------------------------------------------------------------------
(* Objects *)

LEMMA ObjsIsFinite ==
  ASSUME NEW T, NEW l \in Seq(T)
  PROVE  IsFiniteSet(Objs(l))
<1> DEFINE f == [i \in DOMAIN l |-> l[i].obj]
<1>1. f \in Surjection(DOMAIN l, Objs(l))
  BY Zenon DEF Surjection, Objs
<1>2. IsFiniteSet(DOMAIN l)
  <2>1. DOMAIN l = 1 .. Len(l) /\ Len(l) \in Int
    OBVIOUS
  <2> QED
    BY <2>1, FS_Interval
<1> QED
  BY <1>1, <1>2, FS_Surjection

\* There is an object that is not in use.
LEMMA FreshIs ==
  ASSUME NEW U, IsFiniteSet(U)
  PROVE  Fresh(U) \in Nat \ {0} /\ Fresh(U) \notin U
<1> DEFINE n == Cardinality(U)
<1>1. n \in Nat
  BY FS_CardinalityType
<1>2. \E o \in 1 .. n + 1 : o \notin U
  <2> SUFFICES ASSUME 1 .. n + 1 \subseteq U PROVE FALSE
    BY Zenon
  <2>1. Cardinality(1 .. n + 1) = n + 1
    BY <1>1, FS_Interval
  <2>2. Cardinality(1 .. n + 1) <= n
    BY FS_Subset
  <2> QED
    BY <1>1, <2>1, <2>2
<1>3. Fresh(U) \in 1 .. n + 1 /\ Fresh(U) \notin U
  BY <1>2 DEF Fresh
<1> QED
  BY <1>1, <1>3

\* A receiver's settings are copied to the object o, in each row that shows it.
Copied(l, o, active) ==
  [k \in DOMAIN l |-> IF l[k].obj = o THEN [l[k] EXCEPT !.active = active] ELSE l[k]]

LEMMA CopiedIs ==
  ASSUME NEW l \in Seq(Rows), NEW o, NEW active \in BOOLEAN
  PROVE  LET c == Copied(l, o, active) IN
         /\ c \in Seq(Rows) /\ DOMAIN c = DOMAIN l /\ Len(c) = Len(l)
         /\ \A k \in DOMAIN l :
              /\ c[k].obj = l[k].obj /\ c[k].id = l[k].id /\ c[k].updating = l[k].updating
              /\ c[k].active = IF l[k].obj = o THEN active ELSE l[k].active
         /\ \A u : Number(c, Updating(u)) <= Number(l, Updating(u))
<1> DEFINE c == Copied(l, o, active)
<1>1. \A k \in DOMAIN l : l[k] \in Rows
  OBVIOUS
<1>2. \A r \in Rows : [r EXCEPT !.active = active] \in Rows
  BY DEF Rows
<1>3. DOMAIN c = DOMAIN l /\ DOMAIN l = 1 .. Len(l) /\ Len(l) \in Nat
  BY DEF Copied
<1>4. c \in [1 .. Len(l) -> Rows]
  BY <1>1, <1>2, <1>3, Zenon DEF Copied
<1>5. c \in Seq(Rows) /\ Len(c) = Len(l)
  BY <1>3, <1>4
<1>6. ASSUME NEW k \in DOMAIN l
      PROVE  /\ c[k].obj = l[k].obj /\ c[k].id = l[k].id /\ c[k].updating = l[k].updating
             /\ c[k].active = IF l[k].obj = o THEN active ELSE l[k].active
  <2>1. c[k] = IF l[k].obj = o THEN [l[k] EXCEPT !.active = active] ELSE l[k]
    BY DEF Copied
  <2>2. l[k] \in [obj : Nat \ {0}, id : Nat \ {0}, active : BOOLEAN, updating : BOOLEAN]
    BY <1>1, Zenon DEF Rows
  <2>3. CASE l[k].obj = o
    <3>1. c[k] = [l[k] EXCEPT !.active = active]
      BY <2>1, <2>3
    <3> QED
      BY <2>2, <2>3, <3>1, Zenon
  <2>4. CASE l[k].obj # o
    BY <2>1, <2>4, Zenon
  <2> QED
    BY <2>3, <2>4
<1> HIDE DEF c
<1>7. ASSUME NEW u PROVE Number(c, Updating(u)) <= Number(l, Updating(u))
  <2>1. \A k \in DOMAIN c : c[k] \in Updating(u) => k \in DOMAIN l /\ l[k] \in Updating(u)
    BY <1>1, <1>3, <1>6 DEF Updating
  <2> QED
    BY <1>5, <2>1, CountFewer
<1> QED
  BY <1>3, <1>5, <1>6, <1>7 DEF c

\* A row that is new does not wait.
LEMMA RowIs ==
  ASSUME NEW o \in Nat \ {0}, NEW id \in Nat \ {0}, NEW active \in BOOLEAN
  PROVE  /\ Row(o, id, active) \in Rows
         /\ Row(o, id, active).obj = o /\ Row(o, id, active).id = id
         /\ Row(o, id, active).active = active
         /\ \A u : Row(o, id, active) \notin Updating(u)
<1>1. Row(o, id, active).updating = FALSE
  BY DEF Row
<1> QED
  BY <1>1 DEF Row, Rows, Updating

-----------------------------------------------------------------------------
(* The loop of mergeReceivers() *)

\* After some turns the first rows show what was read of the answer, the objects
\* are those of rows that have been there, with their identifiers, or new ones,
\* and no more rows wait than before.
LoopInv(m, answer) ==
  /\ m \in Loop /\ m.i1 = m.i2 /\ m.i1 \in 1 .. Len(answer) + 1
  /\ m.len1 <= Len(m.list) /\ m.i1 <= Len(m.list) + 1
  /\ \A j \in 1 .. m.i1 - 1 : m.list[j].id = answer[j].id /\ m.list[j].active = answer[j].active
  /\ \A j \in DOMAIN m.list : m.list[j].id <= lastId
  /\ OneId(m.list)
  /\ \A j \in DOMAIN m.list : m.list[j].obj \in Busy =>
       \E i \in DOMAIN rows : rows[i].obj = m.list[j].obj /\ rows[i].id = m.list[j].id
  /\ \A o \in Nat : Number(m.list, Updating(o)) <= Number(rows, Updating(o))

\* What is left to do.
Rest(m, answer) == Len(answer) + 1 - m.i1 + m.len1

\* The answer of a server whose last identifier is lastId.
IsAnswer(answer) ==
  answer \in Seq(Answers) /\ Ascending(answer) /\ \A j \in DOMAIN answer : answer[j].id <= lastId

LEMMA BusyIsFinite ==
  ASSUME TypeInv
  PROVE  IsFiniteSet(Busy)
BY ObjsIsFinite, FS_Union DEF Busy, TypeInv

\* The loop goes on with the list l behind row i, or with a shorter list.
Passed(m, i, l) == [[m EXCEPT !.i1 = i + 1, !.i2 = i + 1] EXCEPT !.list = l]
Shortened(m, l) == [m EXCEPT !.list = l, !.len1 = m.len1 - 1]

LEMMA PassedIs ==
  ASSUME NEW m \in Loop, NEW l \in Seq(Rows), NEW i \in Nat
  PROVE  LET x == Passed(m, i, l) IN
         x \in Loop /\ x.list = l /\ x.len1 = m.len1 /\ x.i1 = i + 1 /\ x.i2 = i + 1
<1>1. ASSUME NEW j \in Nat, NEW x, x = [[m EXCEPT !.i1 = j, !.i2 = j] EXCEPT !.list = l]
      PROVE  x \in Loop /\ x.list = l /\ x.len1 = m.len1 /\ x.i1 = j /\ x.i2 = j
  BY <1>1 DEF Loop
<1>2. i + 1 \in Nat
  OBVIOUS
<1> QED
  BY <1>1, <1>2, Zenon DEF Passed

LEMMA ShortenedIs ==
  ASSUME NEW m \in Loop, NEW l \in Seq(Rows), m.len1 - 1 \in Nat
  PROVE  LET x == Shortened(m, l) IN
         x \in Loop /\ x.list = l /\ x.len1 = m.len1 - 1 /\ x.i1 = m.i1 /\ x.i2 = m.i2
BY DEF Loop, Shortened

\* What a turn reads: the next receiver of the answer, and the row before it.
New(m, r2) == Row(Fresh(Busy \cup Objs(m.list)), r2.id, r2.active)

LEMMA TurnIs ==
  ASSUME NEW answer, NEW m \in Loop
  PROVE  LET r2 == answer[m.i2]
             r1 == m.list[m.i1]
             passed == [m EXCEPT !.i1 = m.i1 + 1, !.i2 = m.i2 + 1]
         IN MergeTurn(answer)[m] =
              IF m.i2 > Len(answer) THEN m
              ELSE IF m.i1 > m.len1 \/ r1.id > r2.id
                     THEN [passed EXCEPT !.list = InsertAt(passed.list, m.i1, New(m, r2))]
              ELSE IF r1.id < r2.id
                     THEN [m EXCEPT !.list = RemoveAt(m.list, m.i1), !.len1 = m.len1 - 1]
              ELSE [passed EXCEPT !.list = Copied(m.list, r1.obj, r2.active)]
BY Zenon DEF MergeTurn, New, Copied

\* The four ways a turn goes: i1 and i2 are the same position.
LEMMA TurnCases ==
  ASSUME NEW answer, NEW m \in Loop, NEW i, m.i1 = i, m.i2 = i,
         NEW x, x = MergeTurn(answer)[m]
  PROVE  LET r2 == answer[i]
             r1 == m.list[i]
         IN /\ i > Len(answer) => x = m
            /\ ~(i > Len(answer)) /\ (i > m.len1 \/ r1.id > r2.id) =>
                 x = Passed(m, i, InsertAt(m.list, i, New(m, r2)))
            /\ ~(i > Len(answer)) /\ ~(i > m.len1 \/ r1.id > r2.id) /\ r1.id < r2.id =>
                 x = Shortened(m, RemoveAt(m.list, i))
            /\ ~(i > Len(answer)) /\ ~(i > m.len1 \/ r1.id > r2.id) /\ ~(r1.id < r2.id) =>
                 x = Passed(m, i, Copied(m.list, r1.obj, r2.active))
<1> DEFINE passed(a, b, l) == [[m EXCEPT !.i1 = a + 1, !.i2 = b + 1] EXCEPT !.list = l]
           read(b) == b > Len(answer)
           more(a, b) == a > m.len1 \/ m.list[a].id > answer[b].id
           less(a, b) == m.list[a].id < answer[b].id
           add(a, b) == InsertAt([m EXCEPT !.i1 = a + 1, !.i2 = b + 1].list, a, New(m, answer[b]))
           drop(a) == Shortened(m, RemoveAt(m.list, a))
           share(a, b) == Copied(m.list, m.list[a].obj, answer[b].active)
<1>1. x = IF read(m.i2) THEN m
          ELSE IF more(m.i1, m.i2) THEN passed(m.i1, m.i2, add(m.i1, m.i2))
          ELSE IF less(m.i1, m.i2) THEN drop(m.i1) ELSE passed(m.i1, m.i2, share(m.i1, m.i2))
  BY TurnIs, Zenon DEF Shortened
<1>2. add(i, i) = InsertAt(m.list, i, New(m, answer[i]))
  <2>1. [m EXCEPT !.i1 = i + 1, !.i2 = i + 1].list = m.list
    BY DEF Loop
  <2> QED
    BY <2>1, Zenon
<1>3. \A l : passed(i, i, l) = Passed(m, i, l)
  BY Zenon DEF Passed
<1> HIDE DEF read, more, less, add, drop, share, passed
<1>4. x = IF read(i) THEN m ELSE IF more(i, i) THEN passed(i, i, add(i, i))
          ELSE IF less(i, i) THEN drop(i) ELSE passed(i, i, share(i, i))
  BY <1>1
<1>5. /\ read(i) => x = m
      /\ ~read(i) /\ more(i, i) => x = passed(i, i, add(i, i))
      /\ ~read(i) /\ ~more(i, i) /\ less(i, i) => x = drop(i)
      /\ ~read(i) /\ ~more(i, i) /\ ~less(i, i) => x = passed(i, i, share(i, i))
  BY <1>4, Zenon
<1>6. /\ read(i) => x = m
      /\ ~read(i) /\ more(i, i) => x = Passed(m, i, InsertAt(m.list, i, New(m, answer[i])))
      /\ ~read(i) /\ ~more(i, i) /\ less(i, i) => x = drop(i)
      /\ ~read(i) /\ ~more(i, i) /\ ~less(i, i) => x = Passed(m, i, share(i, i))
  BY <1>2, <1>3, <1>5
<1> QED
  BY <1>6, Zenon DEF read, more, less, drop, share

LEMMA AnswerIs ==
  ASSUME NEW answer, IsAnswer(answer)
  PROVE  /\ DOMAIN answer = 1 .. Len(answer) /\ Len(answer) \in Nat
         /\ \A k \in DOMAIN answer : /\ answer[k].id \in Nat \ {0} /\ answer[k].active \in BOOLEAN
                                     /\ answer[k].id <= lastId
<1>1. answer \in Seq(Answers) /\ \A k \in DOMAIN answer : answer[k].id <= lastId
  BY DEF IsAnswer
<1>2. DOMAIN answer = 1 .. Len(answer) /\ Len(answer) \in Nat /\ \A k \in DOMAIN answer : answer[k] \in Answers
  BY <1>1
<1>3. \A r \in Answers : r.id \in Nat \ {0} /\ r.active \in BOOLEAN
  BY DEF Answers
<1> QED
  BY <1>1, <1>2, <1>3

\* Putting a row in, and taking one out.
LEMMA ListAdded ==
  ASSUME NEW l \in Seq(Rows), NEW i \in 1 .. Len(l) + 1, NEW new \in Rows
  PROVE  LET c == InsertAt(l, i, new) IN
         /\ c \in Seq(Rows) /\ Len(c) = Len(l) + 1 /\ DOMAIN c = 1 .. Len(l) + 1
         /\ c[i] = new /\ \A j \in 1 .. i - 1 : c[j] = l[j]
         /\ \A j \in DOMAIN c : c[j] = new \/ \E k \in DOMAIN l : c[j] = l[k]
<1> DEFINE c == InsertAt(l, i, new)
<1>1. /\ c \in Seq(Rows) /\ Len(c) = Len(l) + 1 /\ Len(l) \in Nat /\ c[i] = new
      /\ \A j \in 1 .. i - 1 : c[j] = l[j]
      /\ \A j \in i + 1 .. Len(l) + 1 : c[j] = l[j - 1]
  <2>1. Inserted(c, Rows, l, i, new)
    BY InsertAtIs
  <2> HIDE DEF c
  <2> QED
    BY <2>1 DEF Inserted
<1> HIDE DEF c
<1>2. DOMAIN c = 1 .. Len(l) + 1 /\ DOMAIN l = 1 .. Len(l)
  BY <1>1
<1>3. ASSUME NEW j \in DOMAIN c
      PROVE  c[j] = new \/ \E k \in DOMAIN l : c[j] = l[k]
  <2>1. CASE j < i
    <3>1. j \in DOMAIN l /\ c[j] = l[j]
      BY <1>1, <1>2, <2>1
    <3> QED
      BY <3>1
  <2>2. CASE j > i
    <3>1. j - 1 \in DOMAIN l /\ c[j] = l[j - 1]
      BY <1>1, <1>2, <2>2
    <3> QED
      BY <3>1
  <2> QED
    BY <1>1, <1>2, <2>1, <2>2
<1> QED
  BY <1>1, <1>2, <1>3 DEF c

LEMMA ListDropped ==
  ASSUME NEW l \in Seq(Rows), NEW i \in 1 .. Len(l)
  PROVE  LET c == RemoveAt(l, i) IN
         /\ c \in Seq(Rows) /\ Len(c) = Len(l) - 1 /\ DOMAIN c = 1 .. Len(l) - 1
         /\ \A j \in 1 .. i - 1 : c[j] = l[j]
         /\ \A j \in DOMAIN c : \E k \in DOMAIN l : c[j] = l[k]
<1> DEFINE c == RemoveAt(l, i)
<1>1. /\ c \in Seq(Rows) /\ Len(c) = Len(l) - 1 /\ Len(l) \in Nat
      /\ \A j \in 1 .. Len(l) - 1 : c[j] = IF j < i THEN l[j] ELSE l[j + 1]
  <2>1. Removed(c, Rows, l, i)
    BY RemoveAtIs
  <2> HIDE DEF c
  <2> QED
    BY <2>1 DEF Removed
<1> HIDE DEF c
<1>2. DOMAIN c = 1 .. Len(l) - 1 /\ DOMAIN l = 1 .. Len(l)
  BY <1>1
<1>3. ASSUME NEW j \in DOMAIN c PROVE \E k \in DOMAIN l : c[j] = l[k]
  <2>1. j \in DOMAIN l /\ j + 1 \in DOMAIN l
    BY <1>1, <1>2
  <2> QED
    BY <1>1, <1>2, <2>1
<1>4. \A j \in 1 .. i - 1 : c[j] = l[j]
  BY <1>1
<1> QED
  BY <1>1, <1>2, <1>3, <1>4 DEF c

\* A list of rows of l, and of rows of an object that l does not have.
LEMMA OneIdKept ==
  ASSUME NEW l, OneId(l), NEW c,
         \A j, k \in DOMAIN c :
           /\ (\E i \in DOMAIN l : c[j].obj = l[i].obj /\ c[j].id = l[i].id)
                \/ c[j].obj \notin Objs(l)
           /\ c[j].obj = c[k].obj /\ c[j].obj \notin Objs(l) => c[j].id = c[k].id
  PROVE  OneId(c)
<1> SUFFICES ASSUME NEW a \in DOMAIN c, NEW b \in DOMAIN c, c[a].obj = c[b].obj
             PROVE  c[a].id = c[b].id
  BY DEF OneId
<1>1. CASE c[a].obj \notin Objs(l)
  BY <1>1, Zenon
<1>2. CASE c[a].obj \in Objs(l)
  <2>1. PICK i \in DOMAIN l : c[a].obj = l[i].obj /\ c[a].id = l[i].id
    BY <1>2, Zenon
  <2>2. PICK j \in DOMAIN l : c[b].obj = l[j].obj /\ c[b].id = l[j].id
    BY <1>2, Zenon
  <2>3. l[i].obj = l[j].obj
    BY <2>1, <2>2, Zenon
  <2>4. l[i].id = l[j].id
    BY <2>3 DEF OneId
  <2> QED
    BY <2>1, <2>2, <2>4, Zenon
<1> QED
  BY <1>1, <1>2

\* The rows of the loop come from the page, or are new.
Known(r) == r.obj \in Busy => \E k \in DOMAIN rows : rows[k].obj = r.obj /\ rows[k].id = r.id

\* A row is put in: what is behind it stays behind.
LEMMA AddKeeps ==
  ASSUME TypeInv, NEW answer, IsAnswer(answer), NEW m, LoopInv(m, answer), m.i1 <= Len(answer),
         NEW x \in Loop, x.list = InsertAt(m.list, m.i1, New(m, answer[m.i1])),
         x.len1 = m.len1, x.i1 = m.i1 + 1, x.i2 = m.i1 + 1
  PROVE  LoopInv(x, answer)
<1> DEFINE i == m.i1
           l == m.list
           c == x.list
           r2 == answer[i]
           new == New(m, r2)
<1>1. /\ l \in Seq(Rows) /\ Len(l) \in Nat /\ DOMAIN l = 1 .. Len(l)
      /\ i \in 1 .. Len(l) + 1 /\ i \in Nat /\ m.len1 \in Nat /\ m.len1 <= Len(l)
      /\ i \in DOMAIN answer /\ i <= Len(answer) /\ Len(answer) \in Nat
  BY AnswerIs DEF LoopInv, Loop
<1>2. r2.id \in Nat \ {0} /\ r2.active \in BOOLEAN /\ r2.id <= lastId
  BY <1>1, AnswerIs
<1>3. /\ OneId(l) /\ \A j \in DOMAIN l : l[j].id <= lastId /\ Known(l[j])
      /\ \A j \in 1 .. i - 1 : l[j].id = answer[j].id /\ l[j].active = answer[j].active
      /\ \A o \in Nat : Number(l, Updating(o)) <= Number(rows, Updating(o))
  BY Zenon DEF LoopInv, Known
<1>4. /\ c = InsertAt(l, i, new) /\ x.i1 = i + 1 /\ x.i2 = i + 1 /\ x.len1 = m.len1 /\ x \in Loop
      /\ new = Row(Fresh(Busy \cup Objs(l)), r2.id, r2.active)
  BY Zenon DEF New
<1> HIDE DEF new, l, i, c, r2
<1>5. Fresh(Busy \cup Objs(l)) \in Nat \ {0} /\ Fresh(Busy \cup Objs(l)) \notin Busy \cup Objs(l)
  BY <1>1, BusyIsFinite, ObjsIsFinite, FS_Union, FreshIs
<1>6. /\ new \in Rows /\ new.id = r2.id /\ new.active = r2.active /\ \A u : new \notin Updating(u)
      /\ Known(new) /\ new.obj \notin Objs(l)
  <2>1. new.obj = Fresh(Busy \cup Objs(l)) /\ new \in Rows /\ new.id = r2.id /\ new.active = r2.active
    BY <1>2, <1>4, <1>5, RowIs
  <2>2. \A u : new \notin Updating(u)
    BY <1>2, <1>4, <1>5, RowIs
  <2> QED
    BY <1>5, <2>1, <2>2, Zenon DEF Known
<1>7. /\ c \in Seq(Rows) /\ Len(c) = Len(l) + 1 /\ DOMAIN c = 1 .. Len(l) + 1
      /\ c[i] = new /\ \A j \in 1 .. i - 1 : c[j] = l[j]
      /\ \A j \in DOMAIN c : c[j] = new \/ \E k \in DOMAIN l : c[j] = l[k]
  <2>1. l \in Seq(Rows) /\ i \in 1 .. Len(l) + 1 /\ new \in Rows /\ c = InsertAt(l, i, new)
    BY <1>1, <1>4, <1>6
  <2> QED
    BY ONLY <2>1, ListAdded
<1>12. OneId(c)
  <2>1. \A j \in DOMAIN c : c[j].obj \notin Objs(l) => c[j].id = new.id
    BY <1>7, Zenon DEF Objs
  <2> QED
    BY <1>3, <1>6, <1>7, <2>1, OneIdKept, ZenonT(60)
<1>8. ASSUME NEW j \in 1 .. i PROVE c[j].id = answer[j].id /\ c[j].active = answer[j].active
  <2>1. CASE j = i
    <3>1. answer[j] = r2
      BY <2>1 DEF r2
    <3> QED
      BY <1>6, <1>7, <2>1, <3>1, Zenon
  <2>2. CASE j # i
    <3>1. j \in 1 .. i - 1
      BY <1>1, <2>2
    <3> QED
      BY <1>3, <1>7, <3>1, Zenon
  <2> QED
    BY <2>1, <2>2
<1>9. \A j \in DOMAIN c : c[j].id <= lastId /\ Known(c[j])
  BY <1>2, <1>3, <1>6, <1>7
<1>10. ASSUME NEW o \in Nat PROVE Number(c, Updating(o)) <= Number(rows, Updating(o))
  <2>1. Number(c, Updating(o)) <= Number(l, Updating(o)) /\ Number(l, Updating(o)) <= Number(rows, Updating(o))
    BY <1>1, <1>3, <1>4, <1>6, CountInsert
  <2>2. Number(c, Updating(o)) \in Nat /\ Number(l, Updating(o)) \in Nat /\ Number(rows, Updating(o)) \in Nat
    BY <1>1, <1>7, NumberIsNat DEF TypeInv
  <2> QED
    BY <2>1, <2>2
<1>11. x.i1 = x.i2 /\ x.i1 \in 1 .. Len(answer) + 1 /\ x.len1 <= Len(c) /\ x.i1 <= Len(c) + 1 /\ x.i1 - 1 = i
  BY <1>1, <1>4, <1>7, SMTT(30)
<1> QED
  <2>1. \A j \in 1 .. x.i1 - 1 : c[j].id = answer[j].id /\ c[j].active = answer[j].active
    BY <1>8, <1>11
  <2> QED
    BY <1>4, <1>7, <1>9, <1>10, <1>11, <1>12, <2>1, Zenon DEF LoopInv, Known, c

\* A row is taken out: what was before it stays.
LEMMA DropKeeps ==
  ASSUME TypeInv, NEW answer, IsAnswer(answer), NEW m, LoopInv(m, answer), m.i1 <= m.len1,
         NEW x \in Loop, x.list = RemoveAt(m.list, m.i1),
         x.len1 = m.len1 - 1, x.i1 = m.i1, x.i2 = m.i1
  PROVE  LoopInv(x, answer)
<1> DEFINE i == m.i1
           l == m.list
           c == x.list
<1>1. /\ l \in Seq(Rows) /\ Len(l) \in Nat /\ DOMAIN l = 1 .. Len(l)
      /\ m.len1 \in Nat /\ m.len1 <= Len(l) /\ i \in 1 .. Len(l) /\ i \in Nat /\ i <= m.len1
      /\ i \in 1 .. Len(answer) + 1
  BY DEF LoopInv, Loop
<1>2. /\ OneId(l) /\ \A j \in DOMAIN l : l[j].id <= lastId /\ Known(l[j])
      /\ \A j \in 1 .. i - 1 : l[j].id = answer[j].id /\ l[j].active = answer[j].active
      /\ \A o \in Nat : Number(l, Updating(o)) <= Number(rows, Updating(o))
  BY Zenon DEF LoopInv, Known
<1>3. c = RemoveAt(l, i) /\ x.i1 = i /\ x.i2 = i /\ x.len1 = m.len1 - 1 /\ x \in Loop
  BY Zenon
<1> HIDE DEF i, l, c
<1>4. /\ c \in Seq(Rows) /\ Len(c) = Len(l) - 1 /\ DOMAIN c = 1 .. Len(l) - 1
      /\ \A j \in 1 .. i - 1 : c[j] = l[j]
      /\ \A j \in DOMAIN c : \E k \in DOMAIN l : c[j] = l[k]
  <2>1. l \in Seq(Rows) /\ i \in 1 .. Len(l) /\ c = RemoveAt(l, i)
    BY <1>1, <1>3
  <2> QED
    BY ONLY <2>1, ListDropped
<1>9. OneId(c)
  <2>1. \A j \in DOMAIN c : \E k \in DOMAIN l : c[j].obj = l[k].obj /\ c[j].id = l[k].id
    BY <1>4
  <2>2. \A j \in DOMAIN c : c[j].obj \in Objs(l)
    BY <2>1, Zenon DEF Objs
  <2> QED
    BY <1>2, <2>1, <2>2, OneIdKept, Zenon
<1>5. \A j \in 1 .. i - 1 : c[j].id = answer[j].id /\ c[j].active = answer[j].active
  BY <1>2, <1>4
<1>6. \A j \in DOMAIN c : c[j].id <= lastId /\ Known(c[j])
  BY <1>2, <1>4
<1>7. ASSUME NEW o \in Nat PROVE Number(c, Updating(o)) <= Number(rows, Updating(o))
  <2>1. Number(c, Updating(o)) = IF l[i] \in Updating(o) THEN Number(l, Updating(o)) - 1
                                 ELSE Number(l, Updating(o))
    BY <1>1, <1>3, CountRemove
  <2>2. Number(l, Updating(o)) <= Number(rows, Updating(o))
    BY <1>2
  <2>3. Number(l, Updating(o)) \in Nat /\ Number(rows, Updating(o)) \in Nat
    BY <1>1, NumberIsNat DEF TypeInv
  <2> QED
    BY <2>1, <2>2, <2>3
<1>8. x.i1 = x.i2 /\ x.i1 \in 1 .. Len(answer) + 1 /\ x.len1 <= Len(c) /\ x.i1 <= Len(c) + 1
  BY <1>1, <1>3, <1>4
<1> QED
  BY <1>3, <1>4, <1>5, <1>6, <1>7, <1>8, <1>9, Zenon DEF LoopInv, Known, c

\* A row takes what the answer says of its receiver, and with it the other rows
\* of its object: none of those that are done is one of them.
LEMMA ShareKeeps ==
  ASSUME TypeInv, NEW answer, IsAnswer(answer), NEW m, LoopInv(m, answer),
         m.i1 <= Len(answer), m.i1 <= m.len1, m.list[m.i1].id = answer[m.i1].id,
         NEW x \in Loop, x.list = Copied(m.list, m.list[m.i1].obj, answer[m.i1].active),
         x.len1 = m.len1, x.i1 = m.i1 + 1, x.i2 = m.i1 + 1
  PROVE  LoopInv(x, answer)
<1> DEFINE i == m.i1
           l == m.list
           c == x.list
           r2 == answer[i]
<1>1. /\ l \in Seq(Rows) /\ Len(l) \in Nat /\ DOMAIN l = 1 .. Len(l)
      /\ i \in DOMAIN l /\ i \in Nat /\ m.len1 \in Nat /\ m.len1 <= Len(l)
      /\ i \in DOMAIN answer /\ i <= Len(answer) /\ Len(answer) \in Nat
      /\ DOMAIN answer = 1 .. Len(answer)
  BY AnswerIs DEF LoopInv, Loop
<1>2. r2.active \in BOOLEAN /\ l[i].id = r2.id
  BY <1>1, AnswerIs
<1>3. /\ OneId(l) /\ \A j \in DOMAIN l : l[j].id <= lastId /\ Known(l[j])
      /\ \A j \in 1 .. i - 1 : l[j].id = answer[j].id /\ l[j].active = answer[j].active
      /\ \A o \in Nat : Number(l, Updating(o)) <= Number(rows, Updating(o))
  BY Zenon DEF LoopInv, Known
<1>4. c = Copied(l, l[i].obj, r2.active) /\ x.i1 = i + 1 /\ x.i2 = i + 1 /\ x.len1 = m.len1 /\ x \in Loop
  BY Zenon
<1>5. \A j \in 1 .. i - 1 : answer[j].id < r2.id
  BY <1>1 DEF IsAnswer, Ascending
<1>6. \A j \in DOMAIN answer : answer[j].id \in Nat
  BY AnswerIs
<1> HIDE DEF l, i, c
<1>7. /\ c \in Seq(Rows) /\ DOMAIN c = DOMAIN l /\ Len(c) = Len(l)
      /\ \A k \in DOMAIN l :
           /\ c[k].obj = l[k].obj /\ c[k].id = l[k].id
           /\ c[k].active = IF l[k].obj = l[i].obj THEN r2.active ELSE l[k].active
      /\ \A u : Number(c, Updating(u)) <= Number(l, Updating(u))
  BY <1>1, <1>2, <1>4, CopiedIs
<1>8. ASSUME NEW j \in 1 .. i PROVE c[j].id = answer[j].id /\ c[j].active = answer[j].active
  <2>1. CASE j = i
    <3>1. answer[j] = r2
      BY <2>1 DEF r2
    <3> QED
      BY <1>1, <1>2, <1>7, <2>1, <3>1, Zenon
  <2>2. CASE j # i
    <3>1. j \in 1 .. i - 1 /\ j \in DOMAIN l /\ j \in DOMAIN answer
      BY <1>1, <2>2
    <3>2. l[j].id # l[i].id
      BY <1>1, <1>2, <1>3, <1>5, <1>6, <3>1
    <3>3. l[j].obj # l[i].obj
      BY <1>1, <1>3, <3>1, <3>2, Zenon DEF OneId
    <3> QED
      BY <1>3, <1>7, <3>1, <3>3, Zenon
  <2> QED
    BY <2>1, <2>2
<1>9. ASSUME NEW j \in DOMAIN c PROVE c[j].id <= lastId /\ Known(c[j])
  <2>1. c[j].obj = l[j].obj /\ c[j].id = l[j].id /\ l[j].id <= lastId /\ Known(l[j])
    BY <1>3, <1>7
  <2> QED
    BY <2>1 DEF Known
<1>10. OneId(c)
  <2>1. \A j \in DOMAIN c : j \in DOMAIN l /\ c[j].obj = l[j].obj /\ c[j].id = l[j].id
    BY <1>7
  <2> QED
    BY <1>3, <2>1 DEF OneId
<1>11. ASSUME NEW o \in Nat PROVE Number(c, Updating(o)) <= Number(rows, Updating(o))
  <2>1. Number(c, Updating(o)) <= Number(l, Updating(o)) /\ Number(l, Updating(o)) <= Number(rows, Updating(o))
    BY <1>3, <1>7
  <2>2. Number(c, Updating(o)) \in Nat /\ Number(l, Updating(o)) \in Nat /\ Number(rows, Updating(o)) \in Nat
    BY <1>1, <1>7, NumberIsNat DEF TypeInv
  <2> QED
    BY <2>1, <2>2
<1>12. x.i1 = x.i2 /\ x.i1 \in 1 .. Len(answer) + 1 /\ x.len1 <= Len(c) /\ x.i1 <= Len(c) + 1 /\ x.i1 - 1 = i
  BY <1>1, <1>4, <1>7
<1> QED
  <2>1. \A j \in 1 .. x.i1 - 1 : c[j].id = answer[j].id /\ c[j].active = answer[j].active
    BY <1>8, <1>12
  <2> QED
    BY <1>4, <1>7, <1>9, <1>10, <1>11, <1>12, <2>1, Zenon DEF LoopInv, Known, c

\* A turn keeps the invariant of the loop, and what is left gets less.
LEMMA TurnKeeps ==
  ASSUME TypeInv, NEW answer, IsAnswer(answer), NEW m, LoopInv(m, answer),
         NEW x, x = MergeTurn(answer)[m]
  PROVE  /\ LoopInv(x, answer)
         /\ m.i1 = Len(answer) + 1 => x = m
         /\ m.i1 # Len(answer) + 1 => Rest(x, answer) < Rest(m, answer)
<1> DEFINE i == m.i1
           l == m.list
           r2 == answer[i]
           new == New(m, r2)
<1>1. /\ m \in Loop /\ l \in Seq(Rows) /\ Len(l) \in Nat /\ i \in Nat /\ m.i1 = i /\ m.i2 = i /\ l = m.list
      /\ m.len1 \in Nat /\ m.len1 <= Len(l) /\ i \in 1 .. Len(l) + 1
      /\ i \in 1 .. Len(answer) + 1 /\ Len(answer) \in Nat
  BY AnswerIs DEF LoopInv, Loop
<1> HIDE DEF i
<1>2. /\ i > Len(answer) => x = m
      /\ ~(i > Len(answer)) /\ (i > m.len1 \/ l[i].id > r2.id) =>
           x = Passed(m, i, InsertAt(l, i, new))
      /\ ~(i > Len(answer)) /\ ~(i > m.len1 \/ l[i].id > r2.id) /\ l[i].id < r2.id =>
           x = Shortened(m, RemoveAt(l, i))
      /\ ~(i > Len(answer)) /\ ~(i > m.len1 \/ l[i].id > r2.id) /\ ~(l[i].id < r2.id) =>
           x = Passed(m, i, Copied(l, l[i].obj, r2.active))
  <2>1. m \in Loop /\ m.i1 = i /\ m.i2 = i /\ x = MergeTurn(answer)[m]
    BY <1>1
  <2> QED
    BY ONLY <2>1, TurnCases, ZenonT(60) DEF l, r2, new
<1> HIDE DEF l, r2, new
<1>3. CASE i > Len(answer)
  <2>1. x = m /\ m.i1 = Len(answer) + 1
    BY <1>1, <1>2, <1>3
  <2> QED
    BY <2>1
<1>4. CASE ~(i > Len(answer)) /\ (i > m.len1 \/ l[i].id > r2.id)
  <2>2. x = Passed(m, i, InsertAt(l, i, new))
    BY <1>2, <1>4, Zenon
  <2>3. i <= Len(answer) /\ i \in DOMAIN answer
    BY <1>1, <1>4, AnswerIs
  <2>4. new \in Rows
    <3>1. r2.id \in Nat \ {0} /\ r2.active \in BOOLEAN
      BY <2>3, AnswerIs, Zenon DEF r2
    <3> QED
      BY <1>1, <3>1, BusyIsFinite, ObjsIsFinite, FS_Union, FreshIs, RowIs DEF New, new, l
  <2>5. InsertAt(l, i, new) \in Seq(Rows)
    <3>1. l \in Seq(Rows) /\ i \in 1 .. Len(l) + 1
      BY <1>1
    <3> QED
      BY ONLY <2>4, <3>1, ListAdded
  <2>6. /\ x \in Loop /\ x.list = InsertAt(l, i, new) /\ x.len1 = m.len1
        /\ x.i1 = i + 1 /\ x.i2 = i + 1
    <3>1. m \in Loop /\ i \in Nat
      BY <1>1
    <3> QED
      BY ONLY <2>2, <2>5, <3>1, PassedIs
  <2>7. LoopInv(x, answer)
    BY <2>3, <2>6, AddKeeps, Zenon DEF i, l, r2, new
  <2>8. Rest(x, answer) < Rest(m, answer)
    BY <1>1, <2>6 DEF Rest
  <2>9. i # Len(answer) + 1
    BY <1>1, <2>3
  <2> QED
    BY <2>7, <2>8, <2>9, <1>1
<1>5. CASE ~(i > Len(answer)) /\ ~(i > m.len1 \/ l[i].id > r2.id) /\ l[i].id < r2.id
  <2>1. x = Shortened(m, RemoveAt(l, i))
    BY <1>2, <1>5, Zenon
  <2>2. i <= m.len1 /\ i \in 1 .. Len(l) /\ m.len1 - 1 \in Nat
    BY <1>1, <1>5
  <2>3. RemoveAt(l, i) \in Seq(Rows)
    BY ONLY <1>1, <2>2, ListDropped
  <2>4. /\ x \in Loop /\ x.list = RemoveAt(l, i) /\ x.len1 = m.len1 - 1
        /\ x.i1 = i /\ x.i2 = i
    <3>1. m \in Loop /\ m.i1 = i /\ m.i2 = i
      BY <1>1
    <3> QED
      BY ONLY <2>1, <2>2, <2>3, <3>1, ShortenedIs
  <2>5. LoopInv(x, answer)
    BY <2>2, <2>4, DropKeeps, Zenon DEF i, l
  <2>6. Rest(x, answer) < Rest(m, answer)
    BY <1>1, <2>4 DEF Rest
  <2>7. i # Len(answer) + 1
    BY <1>1, <1>5
  <2> QED
    BY <2>5, <2>6, <2>7, <1>1
<1>6. CASE ~(i > Len(answer)) /\ ~(i > m.len1 \/ l[i].id > r2.id) /\ ~(l[i].id < r2.id)
  <2>1. x = Passed(m, i, Copied(l, l[i].obj, r2.active))
    BY <1>2, <1>6, Zenon
  <2>2. i <= Len(answer) /\ i \in DOMAIN answer /\ i <= m.len1 /\ i \in 1 .. Len(l)
    BY <1>1, <1>6, AnswerIs
  <2>3. r2.active \in BOOLEAN /\ r2.id \in Nat
    BY <2>2, AnswerIs DEF r2
  <2>4. l[i].id = r2.id
    <3>1. l[i] \in Rows
      BY <1>1, <2>2
    <3>2. l[i].id \in Nat
      BY <3>1 DEF Rows
    <3> QED
      BY <1>6, <2>3, <3>2
  <2>5. Copied(l, l[i].obj, r2.active) \in Seq(Rows)
    <3>1. l \in Seq(Rows)
      BY <1>1
    <3> QED
      BY ONLY <2>3, <3>1, CopiedIs, Zenon
  <2>6. /\ x \in Loop /\ x.list = Copied(l, l[i].obj, r2.active) /\ x.len1 = m.len1
        /\ x.i1 = i + 1 /\ x.i2 = i + 1
    <3>1. m \in Loop /\ i \in Nat
      BY <1>1
    <3> QED
      BY ONLY <2>1, <2>5, <3>1, PassedIs
  <2>7. LoopInv(x, answer)
    BY <2>2, <2>4, <2>6, ShareKeeps, Zenon DEF i, l, r2
  <2>8. Rest(x, answer) < Rest(m, answer)
    BY <1>1, <2>6 DEF Rest
  <2>9. i # Len(answer) + 1
    BY <1>1, <2>2
  <2> QED
    BY <2>7, <2>8, <2>9, <1>1
<1> QED
  BY <1>3, <1>4, <1>5, <1>6, Zenon

\* A function is defined by its first value and the value after each.
Stepwise(m, start, F, N) == m = [t \in 0 .. N |-> IF t = 0 THEN start ELSE F[m[t - 1]]]

LEMMA Steps ==
  ASSUME NEW start, NEW F, NEW N \in Nat
  PROVE  \E m : Stepwise(m, start, F, N)
<1> DEFINE S == {n \in Nat : \E m : m = [t \in 0 .. n |-> IF t = 0 THEN start ELSE F[m[t - 1]]]}
<1>1. 0 \in S
  <2> DEFINE m == [t \in 0 .. 0 |-> start]
  <2>1. m = [t \in 0 .. 0 |-> IF t = 0 THEN start ELSE F[m[t - 1]]]
    OBVIOUS
  <2> QED
    BY <2>1
<1>2. ASSUME NEW n \in Nat, n \in S PROVE n + 1 \in S
  <2>1. PICK m : m = [t \in 0 .. n |-> IF t = 0 THEN start ELSE F[m[t - 1]]]
    BY <1>2
  <2> DEFINE x == [t \in 0 .. n + 1 |-> IF t = 0 THEN start ELSE F[m[t - 1]]]
  <2>2. \A k \in 0 .. n : x[k] = m[k]
    <3> SUFFICES ASSUME NEW k \in 0 .. n PROVE x[k] = m[k]
      OBVIOUS
    <3>1. m[k] = IF k = 0 THEN start ELSE F[m[k - 1]]
      BY <2>1
    <3>2. k \in 0 .. n + 1
      OBVIOUS
    <3> QED
      BY <3>1, <3>2, Zenon
  <2>3. \A t \in 0 .. n + 1 : x[t] = IF t = 0 THEN start ELSE F[x[t - 1]]
    <3> SUFFICES ASSUME NEW t \in 0 .. n + 1 PROVE x[t] = IF t = 0 THEN start ELSE F[x[t - 1]]
      OBVIOUS
    <3>1. CASE t = 0
      BY <3>1
    <3>2. CASE t # 0
      <4>1. t - 1 \in 0 .. n
        BY <3>2
      <4>2. x[t - 1] = m[t - 1]
        BY <2>2, <4>1, Zenon
      <4>3. x[t] = F[m[t - 1]]
        BY <3>2, Zenon
      <4> QED
        BY <3>2, <4>2, <4>3, Zenon
    <3> QED
      BY <3>1, <3>2
  <2>4. x = [t \in 0 .. n + 1 |-> IF t = 0 THEN start ELSE F[x[t - 1]]]
    BY <2>3, Zenon
  <2>5. n + 1 \in Nat
    OBVIOUS
  <2> HIDE DEF x
  <2> QED
    BY <2>4, <2>5, Zenon
<1>3. Nat \subseteq S
  BY <1>1, <1>2, Induction
<1> QED
  BY <1>3 DEF Stepwise

LEMMA TurnsAre ==
  ASSUME NEW answer, NEW N \in Nat, N = Len(rows) + Len(answer), NEW m, m = Turns(answer)
  PROVE  /\ m[0] = [list |-> rows, len1 |-> Len(rows), i1 |-> 1, i2 |-> 1]
         /\ \A t \in 1 .. N : m[t] = MergeTurn(answer)[m[t - 1]]
<1> DEFINE start == [list |-> rows, len1 |-> Len(rows), i1 |-> 1, i2 |-> 1]
           F == MergeTurn(answer)
<1>1. m = CHOOSE f : f = [t \in 0 .. Len(rows) + Len(answer) |-> IF t = 0 THEN start ELSE F[f[t - 1]]]
  BY Zenon DEF Turns
<1> HIDE DEF start, F
<1>2. m = CHOOSE f : Stepwise(f, start, F, N)
  BY <1>1, Zenon DEF Stepwise
<1>3. m = [t \in 0 .. N |-> IF t = 0 THEN start ELSE F[m[t - 1]]]
  <2>1. \E f : Stepwise(f, start, F, N)
    BY Steps, Zenon
  <2>2. Stepwise(m, start, F, N)
    BY <1>2, <2>1, Zenon
  <2> QED
    BY <2>2, Zenon DEF Stepwise
<1>4. m[0] = start
  BY <1>3
<1>5. \A t \in 1 .. N : m[t] = F[m[t - 1]]
  BY <1>3
<1> QED
  BY <1>4, <1>5, Zenon DEF start, F

\* The loop ends with what it read of the answer first: the whole of it.
LEMMA TurnsKeepList ==
  ASSUME TypeInv, IdInv, OneId(rows), NEW answer, IsAnswer(answer), NEW x, x = Looped(answer)
  PROVE  LoopInv(x, answer) /\ x.i1 = Len(answer) + 1
<1> DEFINE N == Len(rows) + Len(answer)
           m == Turns(answer)
           Good(t) == LoopInv(m[t], answer)
                        /\ (m[t].i1 = Len(answer) + 1 \/ Rest(m[t], answer) <= N - t)
           S == {t \in Nat : t <= N => Good(t)}
<1>1. rows \in Seq(Rows) /\ Len(rows) \in Nat /\ Len(answer) \in Nat /\ N \in Nat /\ DOMAIN rows = 1 .. Len(rows)
  <2>1. rows \in Seq(Rows) /\ Len(answer) \in Nat
    BY AnswerIs DEF TypeInv
  <2> QED
    BY <2>1
<1>9. N = Len(rows) + Len(answer) /\ m = Turns(answer)
  BY Zenon
<1>3. x = m[N]
  BY Zenon DEF Looped
<1> HIDE DEF m, N
<1>2. /\ m[0] = [list |-> rows, len1 |-> Len(rows), i1 |-> 1, i2 |-> 1]
      /\ \A t \in 1 .. N : m[t] = MergeTurn(answer)[m[t - 1]]
  <2>1. N \in Nat
    BY <1>1
  <2> QED
    BY ONLY <1>9, <2>1, TurnsAre
<1>4. Good(0)
  <2>1. m[0] \in Loop /\ m[0].list = rows /\ m[0].len1 = Len(rows) /\ m[0].i1 = 1 /\ m[0].i2 = 1
    BY <1>1, <1>2 DEF Loop
  <2>2. \A j \in DOMAIN rows : rows[j].id <= lastId
    BY DEF IdInv
  <2>3. \A o \in Nat : Number(rows, Updating(o)) <= Number(rows, Updating(o))
    BY <1>1, NumberIsNat
  <2>4. 1 \in 1 .. Len(answer) + 1 /\ Len(rows) <= Len(rows) /\ 1 <= Len(rows) + 1
    BY <1>1
  <2>5. \A j \in 1 .. 1 - 1 : FALSE
    OBVIOUS
  <2>6. LoopInv(m[0], answer)
    BY <2>1, <2>2, <2>3, <2>4, <2>5, Zenon DEF LoopInv
  <2>7. Rest(m[0], answer) = N
    BY <1>1, <2>1 DEF Rest, N
  <2> QED
    BY <1>1, <2>6, <2>7
<1>5. ASSUME NEW t \in Nat, t \in S PROVE t + 1 \in S
  <2> SUFFICES ASSUME t + 1 <= N PROVE Good(t + 1)
    OBVIOUS
  <2>1. Good(t)
    BY <1>1, <1>5
  <2>2. m[t + 1] = MergeTurn(answer)[m[t]]
    <3>1. t + 1 \in 1 .. N /\ (t + 1) - 1 = t
      BY <1>1
    <3> QED
      BY <1>2, <3>1
  <2>3. /\ LoopInv(m[t + 1], answer)
        /\ m[t].i1 = Len(answer) + 1 => m[t + 1] = m[t]
        /\ m[t].i1 # Len(answer) + 1 => Rest(m[t + 1], answer) < Rest(m[t], answer)
    BY <2>1, <2>2, TurnKeeps, Zenon
  <2>4. Rest(m[t + 1], answer) \in Int /\ Rest(m[t], answer) \in Int
    <3>1. \A e : LoopInv(e, answer) => Rest(e, answer) \in Int
      BY <1>1 DEF Rest, LoopInv, Loop
    <3> QED
      BY <2>1, <2>3, <3>1
  <2>5. CASE m[t].i1 = Len(answer) + 1
    BY <2>3, <2>5
  <2>6. CASE m[t].i1 # Len(answer) + 1
    BY <1>1, <2>1, <2>3, <2>4, <2>6
  <2> QED
    BY <2>5, <2>6
<1>6. Nat \subseteq S
  BY <1>1, <1>4, <1>5, Induction
<1>7. Good(N)
  BY <1>1, <1>6
<1>8. x.i1 = Len(answer) + 1
  <2>1. LoopInv(x, answer) /\ (x.i1 = Len(answer) + 1 \/ Rest(x, answer) <= 0)
    BY <1>1, <1>3, <1>7
  <2>2. x.len1 \in Nat /\ x.i1 \in 1 .. Len(answer) + 1
    BY <2>1 DEF LoopInv, Loop
  <2> QED
    BY <1>1, <2>1, <2>2 DEF Rest
<1> QED
  BY <1>3, <1>7, <1>8

\* What is left behind the answer is cut off, and the answer is shown.
LEMMA MergedIs ==
  ASSUME TypeInv, IdInv, OneId(rows), NEW answer, IsAnswer(answer), NEW c, c = Merged(answer)
  PROVE  /\ c \in Seq(Rows) /\ Len(answer) <= Len(c)
         /\ \A j \in 1 .. Len(answer) : c[j].id = answer[j].id /\ c[j].active = answer[j].active
         /\ \A j \in DOMAIN c : c[j].id <= lastId /\ Known(c[j])
         /\ OneId(c)
         /\ \A o \in Nat : Number(c, Updating(o)) <= Number(rows, Updating(o))
<1> DEFINE x == Looped(answer)
           l == x.list
           i == x.i1
           n == x.len1
<1>1. LoopInv(x, answer) /\ i = Len(answer) + 1
  BY TurnsKeepList, Zenon
<1>2. c = IF i > n THEN l ELSE SubSeq(l, 1, i - 1) \o SubSeq(l, n + 1, Len(l))
  BY Zenon DEF Merged, Spliced
<1> HIDE DEF x
<1>3. /\ l \in Seq(Rows) /\ Len(l) \in Nat /\ n \in Nat /\ n <= Len(l) /\ i \in 1 .. Len(l) + 1
      /\ Len(answer) \in Nat
  BY <1>1, AnswerIs DEF LoopInv, Loop
<1>4. /\ OneId(l) /\ \A j \in DOMAIN l : l[j].id <= lastId /\ Known(l[j])
      /\ \A j \in 1 .. i - 1 : l[j].id = answer[j].id /\ l[j].active = answer[j].active
      /\ \A o \in Nat : Number(l, Updating(o)) <= Number(rows, Updating(o))
  BY <1>1, Zenon DEF LoopInv, Known
<1> HIDE DEF i, l, n
<1>5. CASE i > n
  <2>1. c = l /\ i - 1 = Len(answer) /\ Len(answer) <= Len(l)
    BY <1>1, <1>2, <1>3, <1>5
  <2> QED
    BY <1>3, <1>4, <2>1
<1>6. CASE i <= n
  <2>1. c = SubSeq(l, 1, i - 1) \o SubSeq(l, n + 1, Len(l)) /\ n \in i - 1 .. Len(l)
    <3>1. ~(i > n) /\ n \in i - 1 .. Len(l)
      BY <1>3, <1>6
    <3> QED
      BY <1>2, <3>1, Zenon
  <2>2. /\ c \in Seq(Rows) /\ Len(c) = Len(l) - (n + 1 - i)
        /\ \A j \in 1 .. Len(c) : c[j] = IF j < i THEN l[j] ELSE l[j + (n + 1 - i)]
    <3>1. l \in Seq(Rows) /\ i \in 1 .. Len(l) + 1
      BY <1>3
    <3> QED
      BY ONLY <2>1, <3>1, CutIs
  <2>3. DOMAIN c = 1 .. Len(c) /\ Len(c) \in Nat /\ DOMAIN l = 1 .. Len(l) /\ i - 1 = Len(answer)
    BY <1>1, <1>3, <2>2
  <2>4. Len(answer) <= Len(c)
    <3>1. i \in Nat /\ n \in Nat /\ Len(l) \in Nat /\ n <= Len(l) /\ Len(answer) = i - 1
      BY <1>3, <2>3
    <3> QED
      BY <2>2, <3>1
  <2>5. ASSUME NEW j \in DOMAIN c PROVE \E k \in DOMAIN l : c[j] = l[k]
    <3>1. CASE j < i
      <4>1. j \in DOMAIN l /\ c[j] = l[j]
        BY <1>3, <2>2, <2>3, <3>1
      <4> QED
        BY <4>1
    <3>2. CASE j >= i
      <4>1. i \in Nat /\ n \in Nat /\ Len(l) \in Nat /\ n <= Len(l) /\ i <= n
            /\ j \in 1 .. Len(c) /\ j \in Nat /\ j <= Len(l) - (n + 1 - i)
        BY <1>3, <1>6, <2>2, <2>3
      <4>2. j + (n + 1 - i) \in 1 .. Len(l)
        BY <3>2, <4>1
      <4>3. c[j] = l[j + (n + 1 - i)]
        BY <2>2, <3>2, <4>1
      <4> QED
        BY <2>3, <4>2, <4>3
    <3> QED
      BY <1>3, <2>3, <3>1, <3>2
  <2>6. ASSUME NEW j \in 1 .. Len(answer) PROVE c[j] = l[j] /\ j \in 1 .. i - 1
    BY <1>3, <2>2, <2>3, <2>4
  <2>7. OneId(c)
    <3>1. \A j \in DOMAIN c : \E k \in DOMAIN l : c[j].obj = l[k].obj /\ c[j].id = l[k].id
      BY <2>5
    <3>2. \A j \in DOMAIN c : c[j].obj \in Objs(l)
      BY <3>1, Zenon DEF Objs
    <3> QED
      BY <1>4, <3>1, <3>2, OneIdKept, Zenon
  <2>8. ASSUME NEW o \in Nat PROVE Number(c, Updating(o)) <= Number(rows, Updating(o))
    <3>1. Number(c, Updating(o)) <= Number(l, Updating(o)) /\ Number(l, Updating(o)) <= Number(rows, Updating(o))
      BY <1>3, <1>4, <2>1, CountCut
    <3>2. Number(c, Updating(o)) \in Nat /\ Number(l, Updating(o)) \in Nat /\ Number(rows, Updating(o)) \in Nat
      BY <1>3, <2>2, NumberIsNat DEF TypeInv
    <3> QED
      BY <3>1, <3>2
  <2>9. \A j \in DOMAIN c : c[j].id <= lastId /\ Known(c[j])
    BY <1>4, <2>5
  <2> QED
    BY <1>4, <2>2, <2>4, <2>6, <2>7, <2>8, <2>9
<1> QED
  BY <1>3, <1>5, <1>6

-----------------------------------------------------------------------------
(* What the callbacks do to the rows *)

\* At most one position more.
LEMMA CountOneMore ==
  ASSUME NEW T, NEW U, NEW p \in Seq(T), NEW q \in Seq(U), NEW S, NEW i,
         \A k \in DOMAIN p : p[k] \in S => k = i \/ (k \in DOMAIN q /\ q[k] \in S)
  PROVE  Number(p, S) <= Number(q, S) + 1
<1>1. Positions(p, S) \subseteq Positions(q, S) \cup {i}
  BY DEF Positions
<1>2. IsFiniteSet(Positions(q, S)) /\ Number(q, S) \in Nat /\ Number(p, S) \in Nat
  BY NumberIsNat
<1>3. /\ IsFiniteSet(Positions(q, S) \cup {i})
      /\ \/ Cardinality(Positions(q, S) \cup {i}) = Number(q, S)
         \/ Cardinality(Positions(q, S) \cup {i}) = Number(q, S) + 1
  BY <1>2, FS_AddElement DEF Number
<1>4. Number(p, S) <= Cardinality(Positions(q, S) \cup {i})
  BY <1>1, <1>3, FS_Subset DEF Number
<1> QED
  BY <1>2, <1>3, <1>4

LEMMA NoneIsZero ==
  ASSUME NEW T, NEW q \in Seq(T), NEW S
  PROVE  Number(q, S) = 0 <=> Positions(q, S) = {}
BY NumberIsNat, FS_EmptySet DEF Number

\* endUpdate() lets one of the rows of the object go on, if one waits.
LEMMA EndUpdateIs ==
  ASSUME NEW l \in Seq(Rows), NEW o, NEW c, c = EndUpdate(l, o)
  PROVE  /\ c \in Seq(Rows) /\ DOMAIN c = DOMAIN l
         /\ \A k \in DOMAIN l : c[k].obj = l[k].obj /\ c[k].id = l[k].id /\ c[k].active = l[k].active
         /\ \A u : Number(c, Updating(u)) <= Number(l, Updating(u))
         /\ Number(l, Updating(o)) = 0 \/ Number(c, Updating(o)) = Number(l, Updating(o)) - 1
<1> DEFINE mine == {k \in DOMAIN l : l[k].obj = o /\ l[k].updating}
           k == Min(mine)
           x == [l[k] EXCEPT !.updating = FALSE]
<1>1. mine = Positions(l, Updating(o))
  <2>1. \A j \in DOMAIN l : l[j] \in Rows /\ l[j].updating \in BOOLEAN
    <3>1. \A j \in DOMAIN l : l[j] \in Rows
      OBVIOUS
    <3>2. \A r \in Rows : r.updating \in BOOLEAN
      BY DEF Rows
    <3> QED
      BY <3>1, <3>2
  <2>2. \A j \in DOMAIN l : l[j].updating <=> l[j].updating = TRUE
    BY <2>1, Zenon
  <2> QED
    BY <2>1, <2>2, Zenon DEF Positions, Updating
<1>2. CASE mine = {}
  <2>1. c = l
    BY <1>2, Zenon DEF EndUpdate
  <2>2. Number(l, Updating(o)) = 0
    BY <1>1, <1>2, NoneIsZero
  <2>3. \A u : Number(c, Updating(u)) <= Number(l, Updating(u))
    BY <2>1, NumberIsNat
  <2> QED
    BY <2>1, <2>2, <2>3
<1>3. CASE mine # {}
  <2>1. k \in mine
    <3>1. mine \in SUBSET Nat
      OBVIOUS
    <3> HIDE DEF mine
    <3> QED
      BY <1>3, <3>1, MinIsMember
  <2>2. k \in DOMAIN l /\ l[k] \in Updating(o) /\ l[k] \in Rows
    BY <1>1, <2>1 DEF Positions
  <2>3. c = [l EXCEPT ![k] = x]
    BY <1>3, Zenon DEF EndUpdate
  <2> HIDE DEF k
  <2>4. x \in Rows /\ x.obj = l[k].obj /\ x.id = l[k].id /\ x.active = l[k].active /\ x.updating = FALSE
    BY <2>2 DEF Rows
  <2> HIDE DEF x, mine
  <2>5. c \in Seq(Rows) /\ DOMAIN c = DOMAIN l /\ c[k] = x /\ \A j \in DOMAIN l : j # k => c[j] = l[j]
    BY <2>2, <2>3, <2>4
  <2>6. \A u : x \notin Updating(u)
    BY <2>4 DEF Updating
  <2>7. ASSUME NEW u
        PROVE  Number(c, Updating(u)) = IF l[k] \in Updating(u) THEN Number(l, Updating(u)) - 1
                                        ELSE Number(l, Updating(u))
    <3>1. l \in Seq(Rows) /\ k \in DOMAIN l /\ c[k] \notin Updating(u)
      BY <2>2, <2>5, <2>6
    <3> QED
      BY ONLY <2>5, <3>1, CountReplace
  <2>8. \A u : Number(c, Updating(u)) <= Number(l, Updating(u))
    BY <2>7, NumberIsNat
  <2>9. \A j \in DOMAIN l : c[j].obj = l[j].obj /\ c[j].id = l[j].id /\ c[j].active = l[j].active
    BY <2>4, <2>5
  <2>10. Number(c, Updating(o)) = Number(l, Updating(o)) - 1
    BY <2>2, <2>7
  <2> QED
    BY <2>5, <2>8, <2>9, <2>10
<1> QED
  BY <1>2, <1>3

\* updateReceiver() keeps the rows or lets one of them show the object.
LEMMA UpdateReceiverIs ==
  ASSUME TypeInv, NEW r, r.obj \in Nat \ {0}, r.id \in Nat \ {0}, r.active \in BOOLEAN,
         NEW c, c = UpdateReceiver(r)
  PROVE  /\ c \in Seq(Rows) /\ DOMAIN c = DOMAIN rows
         /\ \A k \in DOMAIN rows : \/ c[k].obj = rows[k].obj /\ c[k].id = rows[k].id
                                   \/ c[k].obj = r.obj /\ c[k].id = r.id
         /\ \A u : Number(c, Updating(u)) <= Number(rows, Updating(u))
<1> DEFINE l == Copied(rows, r.obj, r.active)
           found == {k \in DOMAIN rows : rows[k].id = r.id}
           k == Min(found)
           x == Row(r.obj, r.id, r.active)
<1>1. rows \in Seq(Rows)
  BY DEF TypeInv
<1>2. /\ l \in Seq(Rows) /\ DOMAIN l = DOMAIN rows
      /\ \A j \in DOMAIN rows : l[j].obj = rows[j].obj /\ l[j].id = rows[j].id
      /\ \A u : Number(l, Updating(u)) <= Number(rows, Updating(u))
  BY <1>1, CopiedIs
<1>3. c = IF found = {} \/ rows[k].obj = r.obj THEN l ELSE [l EXCEPT ![k] = x]
  BY Zenon DEF UpdateReceiver, Copied
<1>4. found # {} => k \in DOMAIN rows
  <2>1. found \in SUBSET Nat
    BY <1>1
  <2>2. \A j \in found : j \in DOMAIN rows
    OBVIOUS
  <2> HIDE DEF found
  <2> QED
    BY <2>1, <2>2, MinIsMember
<1>5. x \in Rows /\ x.obj = r.obj /\ x.id = r.id /\ \A u : x \notin Updating(u)
  BY RowIs
<1> HIDE DEF l, found, k, x
<1>6. CASE found = {} \/ rows[k].obj = r.obj
  BY <1>2, <1>3, <1>6
<1>7. CASE ~(found = {} \/ rows[k].obj = r.obj)
  <2>1. k \in DOMAIN l /\ c = [l EXCEPT ![k] = x]
    BY <1>2, <1>3, <1>4, <1>7
  <2>2. c \in Seq(Rows) /\ DOMAIN c = DOMAIN l /\ c[k] = x /\ \A j \in DOMAIN l : j # k => c[j] = l[j]
    BY <1>2, <1>5, <2>1
  <2>3. ASSUME NEW u PROVE Number(c, Updating(u)) <= Number(rows, Updating(u))
    <3>1. Number(c, Updating(u)) = IF l[k] \in Updating(u) THEN Number(l, Updating(u)) - 1
                                   ELSE Number(l, Updating(u))
      <4>1. l \in Seq(Rows) /\ k \in DOMAIN l /\ c[k] \notin Updating(u)
        BY <1>2, <1>5, <2>1, <2>2
      <4> QED
        BY ONLY <2>2, <4>1, CountReplace
    <3>2. /\ Number(l, Updating(u)) \in Nat /\ Number(rows, Updating(u)) \in Nat
          /\ Number(l, Updating(u)) <= Number(rows, Updating(u))
      BY <1>1, <1>2, NumberIsNat
    <3> QED
      BY <3>1, <3>2
  <2> QED
    BY <1>2, <1>5, <2>2, <2>3
<1> QED
  BY <1>6, <1>7

\* Members that stay have been members before, at positions that differ.
LEMMA RemovedIs ==
  ASSUME NEW T, NEW q \in Seq(T), NEW k \in DOMAIN q, NEW c, c = RemoveAt(q, k)
  PROVE  /\ c \in Seq(T)
         /\ \A j \in DOMAIN c : \E i \in DOMAIN q : i # k /\ c[j] = q[i]
         /\ \A i, j \in DOMAIN c : i # j =>
              \E a, b \in DOMAIN q : a # k /\ b # k /\ a # b /\ c[i] = q[a] /\ c[j] = q[b]
<1>1. /\ c \in Seq(T) /\ Len(c) = Len(q) - 1 /\ Len(q) \in Nat
      /\ \A j \in 1 .. Len(q) - 1 : c[j] = IF j < k THEN q[j] ELSE q[j + 1]
  <2>1. Removed(c, T, q, k)
    BY RemoveAtIs
  <2> QED
    BY <2>1 DEF Removed
<1>2. DOMAIN c = 1 .. Len(q) - 1 /\ DOMAIN q = 1 .. Len(q) /\ k \in 1 .. Len(q)
  BY <1>1
<1> DEFINE at(j) == IF j < k THEN j ELSE j + 1
<1>3. \A j \in DOMAIN c : at(j) \in DOMAIN q /\ at(j) # k /\ c[j] = q[at(j)]
  BY <1>1, <1>2
<1>4. \A i, j \in DOMAIN c : i # j => at(i) # at(j)
  BY <1>1, <1>2
<1> HIDE DEF at
<1>5. ASSUME NEW i \in DOMAIN c, NEW j \in DOMAIN c, i # j
      PROVE  \E a, b \in DOMAIN q : a # k /\ b # k /\ a # b /\ c[i] = q[a] /\ c[j] = q[b]
  BY <1>3, <1>4, <1>5
<1> QED
  BY <1>1, <1>3, <1>5

\* The list c may follow the answer to request k.
Follows(k, c) ==
  /\ c \in Seq(Rows)
  /\ \A j \in DOMAIN c : c[j].id <= lastId
  /\ OneId(c)
  /\ \A j \in DOMAIN c, i \in DOMAIN requests \ {k} : c[j].obj = requests[i].obj =>
       requests[i].kind \in {"save", "del"} /\ c[j].id = requests[i].id
  /\ \A o \in Nat : Number(c, Updating(o)) <= Number(RemoveAt(requests, k), Saves(o))

\* What the invariant says of the requests, and of the saves that stay.
LEMMA RequestIs ==
  ASSUME IInv, NEW k \in DOMAIN requests
  PROVE  /\ requests[k] \in Requests /\ RequestInv(requests[k], lastId) /\ IsAnswer(requests[k].list)
         /\ \A S : Number(RemoveAt(requests, k), S) =
              IF requests[k] \in S THEN Number(requests, S) - 1 ELSE Number(requests, S)
         /\ \A S : Number(requests, S) \in Nat /\ Number(RemoveAt(requests, k), S) \in Nat
<1>1. requests \in Seq(Requests)
  BY DEF IInv, TypeInv
<1>2. requests[k] \in Requests
  BY <1>1
<1>3. RequestInv(requests[k], lastId) /\ Ascending(requests[k].list)
  BY DEF IInv, IdInv, AnswerInv
<1>4. requests[k].list \in Seq(Answers)
  BY <1>2 DEF Requests
<1>5. IsAnswer(requests[k].list)
  BY <1>3, <1>4 DEF IsAnswer, RequestInv
<1>6. ASSUME NEW S
      PROVE  /\ Number(RemoveAt(requests, k), S) =
                  IF requests[k] \in S THEN Number(requests, S) - 1 ELSE Number(requests, S)
             /\ Number(requests, S) \in Nat /\ Number(RemoveAt(requests, k), S) \in Nat
  <2>1. RemoveAt(requests, k) \in Seq(Requests)
    BY <1>1, RemoveAtIs
  <2> QED
    BY <1>1, <2>1, CountRemove, NumberIsNat
<1> QED
  BY <1>2, <1>3, <1>5, <1>6

\* A request that is not a save leaves the saves alone.
LEMMA SavesStay ==
  ASSUME IInv, NEW k \in DOMAIN requests, requests[k].kind # "save", NEW c \in Seq(Rows),
         \A o \in Nat : Number(c, Updating(o)) <= Number(rows, Updating(o))
  PROVE  \A o \in Nat : Number(c, Updating(o)) <= Number(RemoveAt(requests, k), Saves(o))
<1> SUFFICES ASSUME NEW o \in Nat
             PROVE  Number(c, Updating(o)) <= Number(RemoveAt(requests, k), Saves(o))
  OBVIOUS
<1>1. requests[k] \notin Saves(o)
  BY DEF Saves
<1>2. Number(RemoveAt(requests, k), Saves(o)) = Number(requests, Saves(o)) /\ Number(requests, Saves(o)) \in Nat
  BY <1>1, RequestIs
<1>3. Number(c, Updating(o)) <= Number(rows, Updating(o)) /\ Number(rows, Updating(o)) <= Number(requests, Saves(o))
  BY DEF IInv, StuckInv
<1>4. Number(c, Updating(o)) \in Nat /\ Number(rows, Updating(o)) \in Nat
  BY NumberIsNat DEF IInv, TypeInv
<1> QED
  BY <1>2, <1>3, <1>4

\* A save that is answered is one less, and so are the rows that wait for it.
LEMMA SaveEnds ==
  ASSUME IInv, NEW k \in DOMAIN requests, requests[k].kind = "save", NEW l \in Seq(Rows),
         \A o \in Nat : Number(l, Updating(o)) <= Number(rows, Updating(o)),
         NEW c, c = EndUpdate(l, requests[k].obj)
  PROVE  \A o \in Nat : Number(c, Updating(o)) <= Number(RemoveAt(requests, k), Saves(o))
<1> SUFFICES ASSUME NEW o \in Nat
             PROVE  Number(c, Updating(o)) <= Number(RemoveAt(requests, k), Saves(o))
  OBVIOUS
<1>1. /\ c \in Seq(Rows)
      /\ Number(c, Updating(o)) <= Number(l, Updating(o))
      /\ \/ Number(l, Updating(requests[k].obj)) = 0
         \/ Number(c, Updating(requests[k].obj)) = Number(l, Updating(requests[k].obj)) - 1
  BY EndUpdateIs
<1>2. Number(l, Updating(o)) <= Number(rows, Updating(o)) /\ Number(rows, Updating(o)) <= Number(requests, Saves(o))
  BY DEF IInv, StuckInv
<1>3. /\ Number(c, Updating(o)) \in Nat /\ Number(rows, Updating(o)) \in Nat
      /\ Number(l, Updating(o)) \in Nat /\ Number(requests, Saves(o)) \in Nat
      /\ Number(RemoveAt(requests, k), Saves(o)) \in Nat
  BY <1>1, NumberIsNat, RequestIs DEF IInv, TypeInv
<1>4. CASE o = requests[k].obj
  <2>1. requests[k] \in Saves(o)
    BY <1>4, RequestIs DEF Saves
  <2>2. Number(RemoveAt(requests, k), Saves(o)) = Number(requests, Saves(o)) - 1
    BY <2>1, RequestIs
  <2> QED
    BY <1>1, <1>2, <1>3, <1>4, <2>2
<1>5. CASE o # requests[k].obj
  <2>1. requests[k] \notin Saves(o)
    BY <1>5 DEF Saves
  <2>2. Number(RemoveAt(requests, k), Saves(o)) = Number(requests, Saves(o))
    BY <2>1, RequestIs
  <2> QED
    BY <1>1, <1>2, <1>3, <2>2
<1> QED
  BY <1>4, <1>5

\* A list of rows of the page, or of rows of the object of request k.
LEMMA RowsFollow ==
  ASSUME IInv, NEW k \in DOMAIN requests, NEW c \in Seq(Rows),
         \A j \in DOMAIN c :
           \/ \E i \in DOMAIN rows : c[j].obj = rows[i].obj /\ c[j].id = rows[i].id
           \/ requests[k].kind \in {"save", "del"}
                /\ c[j].obj = requests[k].obj /\ c[j].id = requests[k].id,
         \A o \in Nat : Number(c, Updating(o)) <= Number(RemoveAt(requests, k), Saves(o))
  PROVE  Follows(k, c)
<1> DEFINE r == requests[k]
           Old(j) == \E i \in DOMAIN rows : c[j].obj = rows[i].obj /\ c[j].id = rows[i].id
           Own(j) == r.kind \in {"save", "del"} /\ c[j].obj = r.obj /\ c[j].id = r.id
<1>1. \A j \in DOMAIN c : Old(j) \/ Own(j)
  OBVIOUS
<1>2. r \in Requests /\ RequestInv(r, lastId) /\ OneId(rows) /\ \A i \in DOMAIN rows : rows[i].id <= lastId
  BY RequestIs DEF IInv, IdInv, ObjInv
<1>3. \A i \in DOMAIN rows, j \in DOMAIN requests :
        rows[i].obj = requests[j].obj => requests[j].kind \in {"save", "del"} /\ rows[i].id = requests[j].id
  BY Zenon DEF IInv, ObjInv
<1>4. \A j \in DOMAIN requests : j # k => Acquainted(r, requests[j])
  BY Zenon DEF IInv, ObjInv
<1>5. r.id <= lastId
  BY <1>2 DEF RequestInv
<1>6. r.kind \in {"save", "del"} => r.obj # 0
  BY <1>2 DEF RequestInv
<1> HIDE DEF r
<1>7. \A j \in DOMAIN c : c[j].id <= lastId
  BY <1>1, <1>2, <1>5
<1>8. ASSUME NEW i \in DOMAIN c, NEW j \in DOMAIN c, c[i].obj = c[j].obj PROVE c[i].id = c[j].id
  <2>1. CASE Old(i) /\ Old(j)
    BY <1>2, <1>8, <2>1, ZenonT(60) DEF OneId
  <2>2. CASE Own(i) /\ Own(j)
    BY <2>2, Zenon
  <2>3. CASE Old(i) /\ Own(j)
    BY <1>3, <1>8, <2>3, Zenon DEF r
  <2>4. CASE Own(i) /\ Old(j)
    BY <1>3, <1>8, <2>4, Zenon DEF r
  <2> QED
    BY <1>1, <2>1, <2>2, <2>3, <2>4
<1>9. ASSUME NEW j \in DOMAIN c, NEW i \in DOMAIN requests \ {k}, c[j].obj = requests[i].obj
      PROVE  requests[i].kind \in {"save", "del"} /\ c[j].id = requests[i].id
  <2>1. CASE Old(j)
    BY <1>3, <1>9, <2>1, ZenonT(60)
  <2>2. CASE Own(j)
    <3>1. Acquainted(r, requests[i]) /\ r.obj = requests[i].obj /\ r.obj # 0
      BY <1>4, <1>6, <1>9, <2>2
    <3> QED
      BY <2>2, <3>1 DEF Acquainted
  <2> QED
    BY <1>1, <2>1, <2>2
<1> QED
  BY <1>7, <1>8, <1>9 DEF Follows, OneId

\* The answer to a refresh is merged.
LEMMA MergedFollows ==
  ASSUME IInv, NEW k \in DOMAIN requests, requests[k].kind = "all"
  PROVE  Follows(k, Merged(requests[k].list))
<1> DEFINE c == Merged(requests[k].list)
<1>1. TypeInv /\ IdInv /\ OneId(rows) /\ IsAnswer(requests[k].list)
  BY RequestIs DEF IInv, ObjInv
<1>2. /\ c \in Seq(Rows) /\ OneId(c)
      /\ \A j \in DOMAIN c : c[j].id <= lastId /\ Known(c[j])
      /\ \A o \in Nat : Number(c, Updating(o)) <= Number(rows, Updating(o))
  BY <1>1, MergedIs, Zenon
<1> HIDE DEF c
<1>3. \A o \in Nat : Number(c, Updating(o)) <= Number(RemoveAt(requests, k), Saves(o))
  BY <1>2, SavesStay
<1>4. ASSUME NEW j \in DOMAIN c, NEW i \in DOMAIN requests \ {k}, c[j].obj = requests[i].obj
      PROVE  requests[i].kind \in {"save", "del"} /\ c[j].id = requests[i].id
  <2>1. c[j].obj \in Busy
    BY <1>4, Zenon DEF Busy, Objs
  <2>2. PICK a \in DOMAIN rows : rows[a].obj = c[j].obj /\ rows[a].id = c[j].id
    BY <1>2, <2>1, Zenon DEF Known
  <2>3. rows[a].obj = requests[i].obj
    BY <1>4, <2>2
  <2>4. requests[i].kind \in {"save", "del"} /\ rows[a].id = requests[i].id
    BY <2>3, Zenon DEF IInv, ObjInv
  <2> QED
    BY <2>2, <2>4
<1>5. Follows(k, c)
  BY <1>2, <1>3, <1>4 DEF Follows
<1> QED
  BY <1>5 DEF c

\* A receiver that was created is a row of an object that no row shows yet.
LEMMA CreatedFollows ==
  ASSUME IInv, NEW k \in DOMAIN requests, requests[k].kind = "create", requests[k].stage = "answered"
  PROVE  Follows(k, Append(rows, Row(requests[k].obj, requests[k].id, TRUE)))
<1> DEFINE r == requests[k]
           on == TRUE
           x == Row(r.obj, r.id, on)
           c == Append(rows, x)
<1>1. r \in Requests /\ RequestInv(r, lastId) /\ rows \in Seq(Rows)
  BY RequestIs DEF IInv, TypeInv
<1>2. r.obj \in Nat \ {0} /\ r.id \in Nat \ {0} /\ r.id <= lastId
  BY <1>1 DEF Requests, RequestInv
<1>3. x \in Rows /\ x.obj = r.obj /\ x.id = r.id /\ \A u : x \notin Updating(u)
  <2>1. on \in BOOLEAN
    OBVIOUS
  <2> HIDE DEF on
  <2> QED
    BY ONLY <1>2, <2>1, RowIs
<1> HIDE DEF x
<1>4. /\ c \in Seq(Rows) /\ DOMAIN c = 1 .. Len(rows) + 1 /\ c[Len(rows) + 1] = x
      /\ DOMAIN rows = 1 .. Len(rows) /\ \A j \in DOMAIN rows : c[j] = rows[j]
  BY <1>1, <1>3
<1>5. \A j \in DOMAIN c : c[j] = x \/ (j \in DOMAIN rows /\ c[j] = rows[j])
  BY <1>4
<1>6. ASSUME NEW u PROVE Number(c, Updating(u)) <= Number(rows, Updating(u))
  <2>1. x \notin Updating(u)
    BY <1>3
  <2>2. Number(c, Updating(u)) = Number(rows, Updating(u)) /\ Number(rows, Updating(u)) \in Nat
    BY ONLY <1>1, <1>3, <2>1, CountAppend, NumberIsNat
  <2> QED
    BY <2>2
<1>7. /\ OneId(rows) /\ \A j \in DOMAIN rows : rows[j].id <= lastId /\ rows[j].obj # r.obj
      /\ \A i \in DOMAIN requests : i # k => requests[i].obj # r.obj
  <2>1. OneId(rows) /\ \A j \in DOMAIN rows : rows[j].id <= lastId
    BY DEF IInv, IdInv, ObjInv
  <2>2. \A j \in DOMAIN rows : rows[j].obj # r.obj
    BY DEF IInv, ObjInv
  <2>3. \A i \in DOMAIN requests : i # k => requests[i].obj # r.obj
    BY <1>2 DEF IInv, ObjInv, Acquainted
  <2> QED
    BY <2>1, <2>2, <2>3
<1>8. \A j \in DOMAIN rows, i \in DOMAIN requests :
        rows[j].obj = requests[i].obj => requests[i].kind \in {"save", "del"} /\ rows[j].id = requests[i].id
  BY Zenon DEF IInv, ObjInv
<1>9. \A o \in Nat : Number(c, Updating(o)) <= Number(RemoveAt(requests, k), Saves(o))
  <2>1. c \in Seq(Rows) /\ r.kind # "save"
    BY <1>4
  <2> HIDE DEF c
  <2> QED
    BY <1>6, <2>1, SavesStay
<1> HIDE DEF c
<1>10. \A j \in DOMAIN c : c[j].id <= lastId
  BY <1>2, <1>3, <1>5, <1>7
<1>11. OneId(c)
  BY <1>3, <1>5, <1>7 DEF OneId
<1>12. ASSUME NEW j \in DOMAIN c, NEW i \in DOMAIN requests \ {k}, c[j].obj = requests[i].obj
       PROVE  requests[i].kind \in {"save", "del"} /\ c[j].id = requests[i].id
  <2>1. CASE c[j] = x
    BY <1>3, <1>7, <1>12, <2>1
  <2>2. CASE j \in DOMAIN rows /\ c[j] = rows[j]
    BY <1>8, <1>12, <2>2
  <2> QED
    BY <1>5, <2>1, <2>2
<1>13. Follows(k, c)
  BY <1>4, <1>9, <1>10, <1>11, <1>12 DEF Follows
<1> QED
  BY <1>13 DEF c, x

\* A save that is answered, and one that fails.
LEMMA SavedFollows ==
  ASSUME IInv, NEW k \in DOMAIN requests, requests[k].kind = "save"
  PROVE  /\ Follows(k, EndUpdate(UpdateReceiver(requests[k]), requests[k].obj))
         /\ Follows(k, EndUpdate(rows, requests[k].obj))
<1> DEFINE r == requests[k]
           l == UpdateReceiver(r)
           c == EndUpdate(l, r.obj)
           d == EndUpdate(rows, r.obj)
<1>1. r \in Requests /\ RequestInv(r, lastId) /\ rows \in Seq(Rows) /\ TypeInv /\ r.kind = "save"
  BY RequestIs DEF IInv, TypeInv
<1>2. r.obj \in Nat \ {0} /\ r.id \in Nat \ {0} /\ r.active \in BOOLEAN
  BY <1>1 DEF Requests, RequestInv
<1>3. /\ l \in Seq(Rows) /\ DOMAIN l = DOMAIN rows
      /\ \A j \in DOMAIN rows : \/ l[j].obj = rows[j].obj /\ l[j].id = rows[j].id
                                \/ l[j].obj = r.obj /\ l[j].id = r.id
      /\ \A u : Number(l, Updating(u)) <= Number(rows, Updating(u))
  BY <1>1, <1>2, UpdateReceiverIs
<1> HIDE DEF l
<1>4. /\ c \in Seq(Rows) /\ DOMAIN c = DOMAIN l
      /\ \A j \in DOMAIN l : c[j].obj = l[j].obj /\ c[j].id = l[j].id
  BY <1>3, EndUpdateIs
<1>5. /\ d \in Seq(Rows) /\ DOMAIN d = DOMAIN rows
      /\ \A j \in DOMAIN rows : d[j].obj = rows[j].obj /\ d[j].id = rows[j].id
  BY <1>1, EndUpdateIs
<1>6. \A o \in Nat : Number(c, Updating(o)) <= Number(RemoveAt(requests, k), Saves(o))
  BY <1>3, SaveEnds
<1>7. \A o \in Nat : Number(d, Updating(o)) <= Number(RemoveAt(requests, k), Saves(o))
  <2>1. \A o \in Nat : Number(rows, Updating(o)) <= Number(rows, Updating(o))
    BY <1>1, NumberIsNat
  <2> QED
    BY <1>1, <2>1, SaveEnds
<1> HIDE DEF c, d
<1>8. Follows(k, c)
  <2>1. \A j \in DOMAIN c :
          \/ \E i \in DOMAIN rows : c[j].obj = rows[i].obj /\ c[j].id = rows[i].id
          \/ r.kind \in {"save", "del"} /\ c[j].obj = r.obj /\ c[j].id = r.id
    BY <1>1, <1>3, <1>4
  <2> QED
    BY <1>4, <1>6, <2>1, RowsFollow
<1>9. Follows(k, d)
  BY <1>5, <1>7, RowsFollow
<1> QED
  BY <1>8, <1>9 DEF c, d, l

\* A receiver that was deleted takes the first row of its object with it.
LEMMA DeletedFollows ==
  ASSUME IInv, NEW k \in DOMAIN requests, requests[k].kind # "save"
  PROVE  Follows(k, RemoveReceiver(requests[k].obj)) /\ Follows(k, rows)
<1> DEFINE o == requests[k].obj
           mine == {j \in DOMAIN rows : rows[j].obj = o}
           i == Min(mine)
           c == RemoveAt(rows, i)
<1>1. rows \in Seq(Rows)
  BY DEF IInv, TypeInv
<1>2. \A u \in Nat : Number(rows, Updating(u)) <= Number(rows, Updating(u))
  BY <1>1, NumberIsNat
<1>3. Follows(k, rows)
  <2>1. \A u \in Nat : Number(rows, Updating(u)) <= Number(RemoveAt(requests, k), Saves(u))
    BY <1>1, <1>2, SavesStay
  <2> QED
    BY <1>1, <2>1, RowsFollow
<1>4. RemoveReceiver(o) = IF mine = {} THEN rows ELSE c
  BY Zenon DEF RemoveReceiver
<1>5. ASSUME mine # {} PROVE Follows(k, c)
  <2>1. i \in DOMAIN rows
    <3>1. mine \in SUBSET Nat /\ \A j \in mine : j \in DOMAIN rows
      BY <1>1
    <3> HIDE DEF mine
    <3> QED
      BY <1>5, <3>1, MinIsMember
  <2> HIDE DEF i
  <2>2. c \in Seq(Rows) /\ \A j \in DOMAIN c : \E a \in DOMAIN rows : a # i /\ c[j] = rows[a]
    BY <1>1, <2>1, RemovedIs
  <2>3. ASSUME NEW u \in Nat PROVE Number(c, Updating(u)) <= Number(rows, Updating(u))
    <3>1. Number(c, Updating(u)) = IF rows[i] \in Updating(u) THEN Number(rows, Updating(u)) - 1
                                   ELSE Number(rows, Updating(u))
      BY <1>1, <2>1, CountRemove
    <3>2. Number(rows, Updating(u)) \in Nat
      BY <1>1, NumberIsNat
    <3> QED
      BY <3>1, <3>2
  <2> HIDE DEF c
  <2>4. \A u \in Nat : Number(c, Updating(u)) <= Number(RemoveAt(requests, k), Saves(u))
    BY <2>2, <2>3, SavesStay
  <2>5. \A j \in DOMAIN c : \E a \in DOMAIN rows : c[j].obj = rows[a].obj /\ c[j].id = rows[a].id
    BY <2>2
  <2> QED
    BY <2>2, <2>4, <2>5, RowsFollow
<1> HIDE DEF mine, c
<1>6. Follows(k, RemoveReceiver(o))
  <2>1. CASE mine = {}
    <3>1. RemoveReceiver(o) = rows
      BY <1>4, <2>1
    <3> QED
      BY <1>3, <3>1
  <2>2. CASE mine # {}
    <3>1. RemoveReceiver(o) = c
      BY <1>4, <2>2
    <3> QED
      BY <1>5, <2>2, <3>1
  <2> QED
    BY <2>1, <2>2
<1> QED
  BY <1>3, <1>6

\* Whatever the callbacks did, the rows may follow.
LEMMA AnswerFollows ==
  ASSUME IInv, NEW k \in DOMAIN requests, Answer(k)
  PROVE  Follows(k, rows')
<1> DEFINE r == requests[k]
<1>1. /\ r.stage # "sent"
      /\ rows' = IF r.stage = "failed"
                 THEN IF r.kind = "save" THEN EndUpdate(rows, r.obj) ELSE rows
                 ELSE CASE r.kind = "all"    -> Merged(r.list)
                        [] r.kind = "create" -> Append(rows, Row(r.obj, r.id, TRUE))
                        [] r.kind = "save"   -> EndUpdate(UpdateReceiver(r), r.obj)
                        [] r.kind = "del"    -> RemoveReceiver(r.obj)
  BY Zenon DEF Answer
<1>2. r.kind \in {"all", "create", "save", "del"} /\ r.stage \in {"sent", "answered", "failed"}
  BY RequestIs DEF Requests
<1>3. CASE r.stage = "failed"
  <2>1. CASE r.kind = "save"
    <3>1. rows' = EndUpdate(rows, r.obj)
      BY <1>1, <1>3, <2>1
    <3> QED
      BY <2>1, <3>1, SavedFollows
  <2>2. CASE r.kind # "save"
    <3>1. rows' = rows
      BY <1>1, <1>3, <2>2
    <3> QED
      BY <2>2, <3>1, DeletedFollows
  <2> QED
    BY <2>1, <2>2
<1>4. CASE r.stage = "answered" /\ r.kind = "all"
  <2>1. rows' = Merged(r.list)
    BY <1>1, <1>4
  <2> QED
    BY <1>4, <2>1, MergedFollows
<1>5. CASE r.stage = "answered" /\ r.kind = "create"
  <2>1. rows' = Append(rows, Row(r.obj, r.id, TRUE))
    BY <1>1, <1>5
  <2> QED
    BY <1>5, <2>1, CreatedFollows
<1>6. CASE r.stage = "answered" /\ r.kind = "save"
  <2>1. rows' = EndUpdate(UpdateReceiver(r), r.obj)
    BY <1>1, <1>6
  <2> QED
    BY <1>6, <2>1, SavedFollows
<1>7. CASE r.stage = "answered" /\ r.kind = "del"
  <2>1. rows' = RemoveReceiver(r.obj)
    BY <1>1, <1>7
  <2> QED
    BY <1>7, <2>1, DeletedFollows
<1> QED
  BY <1>1, <1>2, <1>3, <1>4, <1>5, <1>6, <1>7

-----------------------------------------------------------------------------
(* The requests *)

\* The requests q are in order with the rows rw, where n is the last identifier.
Requested(rw, q, n) ==
  /\ q \in Seq(Requests)
  /\ \A k \in DOMAIN q : RequestInv(q[k], n) /\ Ascending(q[k].list)
  /\ \A i \in DOMAIN rw, k \in DOMAIN q :
       rw[i].obj = q[k].obj => q[k].kind \in {"save", "del"} /\ rw[i].id = q[k].id
  /\ \A j, k \in DOMAIN q : j # k => Acquainted(q[j], q[k])

LEMMA RequestedIs ==
  ASSUME IInv
  PROVE  Requested(rows, requests, lastId) /\ lastId \in Nat \ {0}
BY Zenon DEF IInv, TypeInv, IdInv, ObjInv, AnswerInv, Requested

\* A request that is sent is for no object, a new one, or that of a row.
LEMMA SentIs ==
  ASSUME IInv, NEW r \in Requests, r.stage = "sent", DOMAIN r.list = {}, r.id <= lastId,
         r.kind # "all" => r.obj # 0, r.kind \in {"save", "del"} => r.id # 0,
         \A i \in DOMAIN rows : rows[i].obj = r.obj => r.kind \in {"save", "del"} /\ rows[i].id = r.id,
         \A j \in DOMAIN requests : Acquainted(r, requests[j]) /\ Acquainted(requests[j], r),
         NEW q, q = Append(requests, r)
  PROVE  /\ Requested(rows, q, lastId)
         /\ Number(q, Unserved) =
              IF r.kind = "create" THEN Number(requests, Unserved) + 1 ELSE Number(requests, Unserved)
         /\ \A u : Number(q, Saves(u)) =
              IF r \in Saves(u) THEN Number(requests, Saves(u)) + 1 ELSE Number(requests, Saves(u))
<1>1. r \in Requests /\ r.stage = "sent" /\ DOMAIN r.list = {}
  OBVIOUS
<1>2. q = Append(requests, r)
  OBVIOUS
<1>3. Requested(rows, requests, lastId) /\ requests \in Seq(Requests)
  BY RequestedIs DEF Requested
<1>4. /\ q \in Seq(Requests) /\ DOMAIN q = 1 .. Len(requests) + 1 /\ q[Len(requests) + 1] = r
      /\ DOMAIN requests = 1 .. Len(requests) /\ \A j \in DOMAIN requests : q[j] = requests[j]
  BY <1>1, <1>2, <1>3
<1>5. \A j \in DOMAIN q : (j = Len(requests) + 1 /\ q[j] = r) \/ (j \in DOMAIN requests /\ q[j] = requests[j])
  BY <1>3, <1>4
<1>6. RequestInv(r, lastId) /\ Ascending(r.list)
  BY <1>1 DEF RequestInv, Ascending
<1>7. \A k \in DOMAIN q : RequestInv(q[k], lastId) /\ Ascending(q[k].list)
  BY <1>3, <1>5, <1>6, Zenon DEF Requested
<1>8. ASSUME NEW i \in DOMAIN rows, NEW k \in DOMAIN q, rows[i].obj = q[k].obj
      PROVE  q[k].kind \in {"save", "del"} /\ rows[i].id = q[k].id
  <2>1. CASE q[k] = r
    BY <1>1, <1>8, <2>1
  <2>2. CASE k \in DOMAIN requests /\ q[k] = requests[k]
    BY <1>3, <1>8, <2>2, Zenon DEF Requested
  <2> QED
    BY <1>5, <2>1, <2>2
<1>10. ASSUME NEW j \in DOMAIN q, NEW k \in DOMAIN q, j # k PROVE Acquainted(q[j], q[k])
  <2>1. CASE j \in DOMAIN requests /\ q[j] = requests[j] /\ k \in DOMAIN requests /\ q[k] = requests[k]
    BY <1>3, <1>10, <2>1, Zenon DEF Requested
  <2>2. CASE q[j] = r /\ k \in DOMAIN requests /\ q[k] = requests[k]
    BY <2>2, Zenon
  <2>3. CASE j \in DOMAIN requests /\ q[j] = requests[j] /\ q[k] = r
    BY <2>3, Zenon
  <2> QED
    BY <1>5, <1>10, <2>1, <2>2, <2>3
<1>11. Number(q, Unserved) =
         IF r.kind = "create" THEN Number(requests, Unserved) + 1 ELSE Number(requests, Unserved)
  <2>1. r \in Unserved <=> r.kind = "create"
    BY <1>1 DEF Unserved
  <2>2. Number(q, Unserved) = IF r \in Unserved THEN Number(requests, Unserved) + 1 ELSE Number(requests, Unserved)
    BY ONLY <1>1, <1>2, <1>3, CountAppend
  <2> QED
    BY <2>1, <2>2
<1>12. \A u : Number(q, Saves(u)) = IF r \in Saves(u) THEN Number(requests, Saves(u)) + 1 ELSE Number(requests, Saves(u))
  BY ONLY <1>1, <1>2, <1>3, CountAppend
<1> QED
  BY <1>4, <1>7, <1>8, <1>10, <1>11, <1>12, Zenon DEF Requested

\* What the invariant says of a request stays true when the server gives more identifiers.
LEMMA RequestLater ==
  ASSUME IInv, NEW j \in DOMAIN requests, NEW n \in Nat, lastId <= n
  PROVE  RequestInv(requests[j], n)
<1>1. requests[j] \in Requests /\ RequestInv(requests[j], lastId) /\ lastId \in Nat
  BY RequestIs, RequestedIs
<1>2. requests[j].list \in Seq(Answers) /\ requests[j].id \in Nat
  BY <1>1 DEF Requests
<1>3. \A i \in DOMAIN requests[j].list : requests[j].list[i].id \in Nat
  <2>1. \A i \in DOMAIN requests[j].list : requests[j].list[i] \in Answers
    BY <1>2
  <2>2. \A a \in Answers : a.id \in Nat
    BY DEF Answers
  <2> QED
    BY <2>1, <2>2
<1> QED
  BY <1>1, <1>2, <1>3 DEF RequestInv

\* A request that goes on keeps its kind and its object.
LEMMA ReplacedIs ==
  ASSUME IInv, NEW k \in DOMAIN requests, NEW r \in Requests, NEW n \in Nat, lastId <= n,
         r.kind = requests[k].kind, r.obj = requests[k].obj,
         r.kind \in {"save", "del"} => r.id = requests[k].id,
         RequestInv(r, n), Ascending(r.list), NEW q \in Seq(Requests), DOMAIN q = DOMAIN requests, q[k] = r,
         \A j \in DOMAIN requests : j # k => q[j] = requests[j]
  PROVE  /\ Requested(rows, q, n)
         /\ \A u : Number(q, Saves(u)) = Number(requests, Saves(u))
         /\ (r \in Unserved <=> requests[k] \in Unserved) => Number(q, Unserved) = Number(requests, Unserved)
         /\ r \notin Unserved /\ requests[k] \in Unserved => Number(q, Unserved) = Number(requests, Unserved) - 1
<1>1. Requested(rows, requests, lastId) /\ requests \in Seq(Requests) /\ lastId \in Nat
  BY RequestedIs DEF Requested
<1>2. requests[k] \in Requests
  BY <1>1
<1>3. /\ q \in Seq(Requests) /\ DOMAIN q = DOMAIN requests /\ q[k] = r
      /\ \A j \in DOMAIN requests : j # k => q[j] = requests[j]
  OBVIOUS
<1>4. \A j \in DOMAIN requests : RequestInv(requests[j], n)
  BY RequestLater
<1>5. \A j \in DOMAIN q : RequestInv(q[j], n) /\ Ascending(q[j].list)
  BY <1>1, <1>3, <1>4, Zenon DEF Requested
<1>6. \A j \in DOMAIN requests : q[j].kind = requests[j].kind /\ q[j].obj = requests[j].obj
  BY <1>3
<1>7. \A j \in DOMAIN requests : q[j].kind \in {"save", "del"} => q[j].id = requests[j].id
  BY <1>3
<1>8. ASSUME NEW i \in DOMAIN rows, NEW j \in DOMAIN q, rows[i].obj = q[j].obj
      PROVE  q[j].kind \in {"save", "del"} /\ rows[i].id = q[j].id
  <2>1. requests[j].kind \in {"save", "del"} /\ rows[i].id = requests[j].id
    <3>1. j \in DOMAIN requests /\ rows[i].obj = requests[j].obj
      BY <1>3, <1>6, <1>8
    <3> QED
      BY <1>1, <3>1, Zenon DEF Requested
  <2> QED
    BY <1>3, <1>6, <1>7, <2>1
<1>9. ASSUME NEW i \in DOMAIN q, NEW j \in DOMAIN q, i # j PROVE Acquainted(q[i], q[j])
  <2>1. Acquainted(requests[i], requests[j])
    BY <1>1, <1>3, <1>9, Zenon DEF Requested
  <2> QED
    BY <1>3, <1>6, <1>7, <2>1 DEF Acquainted
<1>10. ASSUME NEW u PROVE Number(q, Saves(u)) = Number(requests, Saves(u))
  <2>1. q[k] \in Saves(u) <=> requests[k] \in Saves(u)
    BY <1>2, <1>3 DEF Saves
  <2> QED
    BY ONLY <1>1, <1>3, <2>1, k \in DOMAIN requests, CountReplace
<1>11. /\ (r \in Unserved <=> requests[k] \in Unserved) => Number(q, Unserved) = Number(requests, Unserved)
       /\ r \notin Unserved /\ requests[k] \in Unserved => Number(q, Unserved) = Number(requests, Unserved) - 1
  BY ONLY <1>1, <1>3, k \in DOMAIN requests, CountReplace
<1> QED
  BY <1>3, <1>5, <1>8, <1>9, <1>10, <1>11, Zenon DEF Requested

-----------------------------------------------------------------------------
(* The steps *)

LEMMA Together ==
  ASSUME lastId' \in Nat \ {0}, store' \in [DOMAIN store' -> BOOLEAN], DOMAIN store' \subseteq 1 .. lastId',
         rows' \in Seq(Rows), \A i \in DOMAIN rows' : rows'[i].id <= lastId', OneId(rows'),
         Requested(rows', requests', lastId'),
         changesLeft' \in 0 .. MaxChanges, failuresLeft' \in 0 .. MaxFailures,
         lastId' + changesLeft' + Number(requests', Unserved) <= MaxChanges + 1,
         \A o \in Nat : Number(rows', Updating(o)) <= Number(requests', Saves(o))
  PROVE  IInv'
<1>1. TypeInv'
  BY Zenon DEF TypeInv, Requested
<1>2. IdInv'
  BY Zenon DEF IdInv, RequestInv, Requested
<1>3. BudgetInv' /\ StuckInv'
  BY Zenon DEF BudgetInv, StuckInv
<1>4. ObjInv'
  BY Zenon DEF ObjInv, Requested
<1>5. AnswerInv'
  BY Zenon DEF AnswerInv, Requested
<1> QED
  BY <1>1, <1>2, <1>3, <1>4, <1>5 DEF IInv

LEMMA Parts ==
  ASSUME IInv
  PROVE  /\ lastId \in Nat \ {0} /\ store \in [DOMAIN store -> BOOLEAN] /\ DOMAIN store \subseteq 1 .. lastId
         /\ rows \in Seq(Rows) /\ (\A i \in DOMAIN rows : rows[i].id <= lastId) /\ OneId(rows)
         /\ Requested(rows, requests, lastId) /\ requests \in Seq(Requests)
         /\ changesLeft \in 0 .. MaxChanges /\ failuresLeft \in 0 .. MaxFailures
         /\ changesLeft \in Nat /\ MaxChanges \in Nat /\ failuresLeft \in Nat /\ MaxFailures \in Nat
         /\ lastId + changesLeft + Number(requests, Unserved) <= MaxChanges + 1
         /\ \A o \in Nat : Number(rows, Updating(o)) <= Number(requests, Saves(o))
         /\ Number(requests, Unserved) \in Nat
         /\ \A o \in Nat : Number(rows, Updating(o)) \in Nat /\ Number(requests, Saves(o)) \in Nat
<1>1. rows \in Seq(Rows) /\ requests \in Seq(Requests)
  BY DEF IInv, TypeInv
<1>2. changesLeft \in Nat /\ MaxChanges \in Nat /\ failuresLeft \in Nat /\ MaxFailures \in Nat
  BY ReceiversAssumption DEF IInv, TypeInv
<1>3. /\ Number(requests, Unserved) \in Nat
      /\ \A o \in Nat : Number(rows, Updating(o)) \in Nat /\ Number(requests, Saves(o)) \in Nat
  BY <1>1, NumberIsNat
<1> QED
  BY <1>1, <1>2, <1>3, RequestedIs, Zenon DEF IInv, TypeInv, IdInv, BudgetInv, StuckInv, ObjInv

\* What is sent leaves the rest as it is.
LEMMA SentKeeps ==
  ASSUME IInv, UNCHANGED <<store, lastId, rows, failuresLeft>>,
         Requested(rows, requests', lastId),
         \A o \in Nat : Number(requests, Saves(o)) <= Number(requests', Saves(o)),
         changesLeft' \in 0 .. MaxChanges,
         changesLeft' + Number(requests', Unserved) <= changesLeft + Number(requests, Unserved)
  PROVE  IInv'
<1>1. requests' \in Seq(Requests)
  BY DEF Requested
<1>2. Number(requests', Unserved) \in Nat /\ \A o \in Nat : Number(requests', Saves(o)) \in Nat
  BY <1>1, NumberIsNat
<1>3. lastId' + changesLeft' + Number(requests', Unserved) <= MaxChanges + 1
  <2>1. changesLeft' \in Int
    OBVIOUS
  <2>2. /\ lastId \in Nat /\ changesLeft \in Nat /\ Number(requests, Unserved) \in Nat /\ MaxChanges \in Nat
        /\ lastId + changesLeft + Number(requests, Unserved) <= MaxChanges + 1
    BY Parts
  <2>3. /\ lastId' = lastId
        /\ changesLeft' + Number(requests', Unserved) <= changesLeft + Number(requests, Unserved)
    OBVIOUS
  <2> QED
    BY ONLY <1>2, <2>1, <2>2, <2>3
<1>4. ASSUME NEW o \in Nat PROVE Number(rows', Updating(o)) <= Number(requests', Saves(o))
  <2>1. Number(rows, Updating(o)) <= Number(requests, Saves(o)) /\ Number(rows, Updating(o)) \in Nat
        /\ Number(requests, Saves(o)) \in Nat
    BY Parts
  <2> QED
    BY <1>2, <2>1
<1> QED
  BY <1>3, <1>4, Parts, Together

LEMMA RefreshKeeps ==
  ASSUME IInv, Refresh
  PROVE  IInv'
<1> DEFINE r == [kind |-> "all", obj |-> 0, id |-> 0, active |-> FALSE, stage |-> "sent", list |-> <<>>]
<1>1. requests' = Append(requests, r) /\ UNCHANGED <<store, lastId, rows, changesLeft, failuresLeft>>
  BY DEF Refresh, Send
<1>2. /\ r \in Requests /\ r.stage = "sent" /\ DOMAIN r.list = {} /\ r.id = 0
      /\ r.kind = "all" /\ r.obj = 0
  <2>1. <<>> \in Seq(Answers)
    OBVIOUS
  <2> QED
    BY <2>1 DEF Requests
<1> HIDE DEF r
<1>3. r.id <= lastId /\ \A i \in DOMAIN rows : rows[i].obj # r.obj
  <2>1. \A i \in DOMAIN rows : rows[i] \in Rows
    BY Parts
  <2>2. \A x \in Rows : x.obj # 0
    BY DEF Rows
  <2> QED
    BY <1>2, <2>1, <2>2, Parts
<1>4. \A j \in DOMAIN requests : Acquainted(r, requests[j]) /\ Acquainted(requests[j], r)
  BY <1>2 DEF Acquainted
<1>5. /\ Requested(rows, requests', lastId)
      /\ Number(requests', Unserved) = Number(requests, Unserved)
      /\ \A u : Number(requests', Saves(u)) = Number(requests, Saves(u))
  <2>1. \A u : r \notin Saves(u)
    BY <1>2 DEF Saves
  <2> QED
    BY ONLY IInv, <1>1, <1>2, <1>3, <1>4, <2>1, SentIs
<1>6. changesLeft' \in 0 .. MaxChanges
  <2>1. changesLeft' = changesLeft /\ changesLeft \in 0 .. MaxChanges
    BY <1>1, Parts
  <2> QED
    BY <2>1
<1>7. changesLeft' + Number(requests', Unserved) <= changesLeft + Number(requests, Unserved)
  BY <1>1, <1>5, Parts
<1>8. \A u \in Nat : Number(requests, Saves(u)) <= Number(requests', Saves(u))
  BY <1>5, Parts
<1> QED
  BY ONLY IInv, <1>1, <1>5, <1>6, <1>7, <1>8, SentKeeps

LEMMA ChangeIs ==
  ASSUME IInv, Change
  PROVE  changesLeft' \in 0 .. MaxChanges /\ changesLeft' = changesLeft - 1 /\ changesLeft \in Nat
<1>1. changesLeft > 0 /\ changesLeft' = changesLeft - 1
  BY DEF Change
<1>2. changesLeft \in Nat /\ MaxChanges \in Nat /\ changesLeft \in 0 .. MaxChanges
  BY Parts
<1> QED
  BY ONLY <1>1, <1>2

LEMMA CreateKeeps ==
  ASSUME IInv, Create
  PROVE  IInv'
<1> DEFINE r == [kind |-> "create", obj |-> Fresh(Busy), id |-> 0, active |-> TRUE, stage |-> "sent", list |-> <<>>]
<1>1. requests' = Append(requests, r) /\ UNCHANGED <<store, lastId, rows, failuresLeft>> /\ Change
  BY DEF Create, Send
<1>2. /\ r \in Requests /\ r.stage = "sent" /\ DOMAIN r.list = {} /\ r.id = 0
      /\ r.kind = "create" /\ r.obj # 0 /\ r.obj \notin Busy
  <2>1. <<>> \in Seq(Answers)
    OBVIOUS
  <2>2. Fresh(Busy) \in Nat \ {0} /\ Fresh(Busy) \notin Busy
    BY BusyIsFinite, FreshIs DEF IInv
  <2> QED
    BY <2>1, <2>2 DEF Requests
<1> HIDE DEF r
<1>3. /\ \A i \in DOMAIN rows : rows[i].obj # r.obj
      /\ \A j \in DOMAIN requests : requests[j].obj # r.obj
  BY <1>2, Zenon DEF Busy, Objs
<1>4. r.id <= lastId /\ \A j \in DOMAIN requests : Acquainted(r, requests[j]) /\ Acquainted(requests[j], r)
  BY <1>2, <1>3, Parts DEF Acquainted
<1>5. /\ Requested(rows, requests', lastId)
      /\ Number(requests', Unserved) = Number(requests, Unserved) + 1
      /\ \A u : Number(requests', Saves(u)) = Number(requests, Saves(u))
  <2>1. \A u : r \notin Saves(u)
    BY <1>2 DEF Saves
  <2> QED
    BY ONLY IInv, <1>1, <1>2, <1>3, <1>4, <2>1, SentIs
<1>6. changesLeft' \in 0 .. MaxChanges /\ changesLeft' = changesLeft - 1 /\ changesLeft \in Nat
  BY <1>1, ChangeIs
<1>7. changesLeft' + Number(requests', Unserved) <= changesLeft + Number(requests, Unserved)
  BY <1>5, <1>6, Parts
<1>8. \A u \in Nat : Number(requests, Saves(u)) <= Number(requests', Saves(u))
  BY <1>5, Parts
<1> QED
  BY ONLY IInv, <1>1, <1>5, <1>6, <1>7, <1>8, SentKeeps

\* A request for the object of a row.
LEMMA ForRow ==
  ASSUME IInv, NEW i \in DOMAIN rows, NEW r \in Requests, r.kind \in {"save", "del"}, r.stage = "sent",
         r.obj = rows[i].obj, r.id = rows[i].id, DOMAIN r.list = {}, NEW q, q = Append(requests, r)
  PROVE  /\ Requested(rows, q, lastId)
         /\ Number(q, Unserved) = Number(requests, Unserved)
         /\ \A u : Number(q, Saves(u)) =
              IF r \in Saves(u) THEN Number(requests, Saves(u)) + 1 ELSE Number(requests, Saves(u))
<1>1. rows[i] \in Rows /\ rows[i].id <= lastId /\ OneId(rows) /\ Requested(rows, requests, lastId)
  BY Parts
<1>2. r.obj # 0 /\ r.id # 0 /\ r.id <= lastId /\ r.kind # "create"
  BY <1>1 DEF Rows
<1>3. \A j \in DOMAIN rows : rows[j].obj = r.obj => r.kind \in {"save", "del"} /\ rows[j].id = r.id
  BY <1>1 DEF OneId
<1>4. \A j \in DOMAIN requests : Acquainted(r, requests[j]) /\ Acquainted(requests[j], r)
  <2>1. \A j \in DOMAIN requests : requests[j].obj = r.obj =>
           requests[j].kind \in {"save", "del"} /\ requests[j].id = r.id
    BY <1>1 DEF Requested
  <2> QED
    BY <2>1 DEF Acquainted
<1> QED
  BY <1>2, <1>3, <1>4, SentIs

LEMMA DelKeeps ==
  ASSUME IInv, NEW i \in DOMAIN rows, Del(i)
  PROVE  IInv'
<1> DEFINE r == [kind |-> "del", obj |-> rows[i].obj, id |-> rows[i].id, active |-> FALSE,
                 stage |-> "sent", list |-> <<>>]
<1>1. requests' = Append(requests, r) /\ UNCHANGED <<store, lastId, rows, failuresLeft>> /\ Change
  BY DEF Del, Send
<1>2. /\ r \in Requests /\ r.stage = "sent" /\ DOMAIN r.list = {} /\ r.id = rows[i].id
      /\ r.kind = "del" /\ r.obj = rows[i].obj
  <2>1. <<>> \in Seq(Answers) /\ rows[i] \in Rows
    BY Parts
  <2>2. rows[i].obj \in Nat /\ rows[i].id \in Nat
    BY <2>1 DEF Rows
  <2> QED
    BY <2>1, <2>2 DEF Requests
<1> HIDE DEF r
<1>5. /\ Requested(rows, requests', lastId)
      /\ Number(requests', Unserved) = Number(requests, Unserved)
      /\ \A u : Number(requests', Saves(u)) = Number(requests, Saves(u))
  <2>1. \A u : r \notin Saves(u)
    BY <1>2 DEF Saves
  <2>2. r.kind \in {"save", "del"}
    BY <1>2
  <2> QED
    BY ONLY IInv, i \in DOMAIN rows, <1>1, <1>2, <2>1, <2>2, ForRow
<1>6. changesLeft' \in 0 .. MaxChanges /\ changesLeft' = changesLeft - 1 /\ changesLeft \in Nat
  BY <1>1, ChangeIs
<1>7. changesLeft' + Number(requests', Unserved) <= changesLeft + Number(requests, Unserved)
  BY <1>5, <1>6, Parts
<1>8. \A u \in Nat : Number(requests, Saves(u)) <= Number(requests', Saves(u))
  BY <1>5, Parts
<1> QED
  BY ONLY IInv, <1>1, <1>5, <1>6, <1>7, <1>8, SentKeeps

\* start() and stop(): one row more of the object waits, and one save of it is sent.
LEMMA StartKeeps ==
  ASSUME IInv, NEW i \in DOMAIN rows, Start(i)
  PROVE  IInv'
<1> DEFINE o == rows[i].obj
           on == ~rows[i].active
           r == [kind |-> "save", obj |-> o, id |-> rows[i].id, active |-> on, stage |-> "sent", list |-> <<>>]
           c == rows'
<1>1. /\ requests' = Append(requests, r) /\ UNCHANGED <<store, lastId, failuresLeft>> /\ Change
      /\ rows' = [k \in DOMAIN rows |->
                    [rows[k] EXCEPT !.active = IF rows[k].obj = o THEN on ELSE rows[k].active,
                                    !.updating = (k = i) \/ rows[k].updating]]
  BY DEF Start, Send
<1>2. /\ r \in Requests /\ r.stage = "sent" /\ DOMAIN r.list = {} /\ r.id = rows[i].id
      /\ r.kind = "save" /\ r.obj = rows[i].obj /\ o \in Nat
  <2>1. <<>> \in Seq(Answers) /\ rows[i] \in Rows
    BY Parts
  <2>2. rows[i].obj \in Nat /\ rows[i].id \in Nat /\ on \in BOOLEAN
    BY <2>1 DEF Rows
  <2> HIDE DEF on
  <2> QED
    BY <2>1, <2>2 DEF Requests
<1>3. on \in BOOLEAN
  OBVIOUS
<1> HIDE DEF r, on
<1>4. rows \in Seq(Rows) /\ DOMAIN rows = 1 .. Len(rows) /\ Len(rows) \in Nat /\ DOMAIN c = DOMAIN rows
  <2>1. rows \in Seq(Rows)
    BY Parts
  <2>2. DOMAIN c = DOMAIN rows
    BY <1>1, Zenon
  <2> QED
    BY ONLY <2>1, <2>2
<1>20. c = [k \in DOMAIN rows |-> c[k]]
  BY <1>1, Zenon
<1>5. ASSUME NEW k \in DOMAIN rows
      PROVE  /\ c[k] \in Rows /\ c[k].obj = rows[k].obj /\ c[k].id = rows[k].id
             /\ k # i => (c[k].updating = rows[k].updating)
  <2> DEFINE a == IF rows[k].obj = o THEN on ELSE rows[k].active
             b == (k = i) \/ rows[k].updating
  <2>1. c[k] = [rows[k] EXCEPT !.active = a, !.updating = b]
    BY <1>1, Zenon
  <2>2. rows[k] \in Rows
    BY <1>4
  <2>3. rows[k].active \in BOOLEAN /\ rows[k].updating \in BOOLEAN
    BY <2>2 DEF Rows
  <2>4. a \in BOOLEAN
    BY <1>3, <2>3, Zenon
  <2>5. b \in BOOLEAN /\ (k # i => (b = rows[k].updating))
    BY <2>3, Zenon
  <2> HIDE DEF a, b, c
  <2> QED
    BY <2>1, <2>2, <2>4, <2>5 DEF Rows
<1> HIDE DEF c
<1>6. c \in Seq(Rows)
  <2>1. c \in [1 .. Len(rows) -> Rows]
    BY ONLY <1>4, <1>5, <1>20
  <2> QED
    BY ONLY <2>1, <1>4
<1>7. (\A k \in DOMAIN c : c[k].id <= lastId) /\ OneId(c)
  <2>1. (\A k \in DOMAIN rows : rows[k].id <= lastId) /\ OneId(rows)
    BY Parts
  <2> QED
    BY ONLY <1>4, <1>5, <2>1 DEF OneId
<1>8. /\ Requested(rows, requests', lastId)
      /\ Number(requests', Unserved) = Number(requests, Unserved)
      /\ \A u : Number(requests', Saves(u)) =
           IF r \in Saves(u) THEN Number(requests, Saves(u)) + 1 ELSE Number(requests, Saves(u))
  <2>1. r.kind \in {"save", "del"}
    BY <1>2
  <2> QED
    BY ONLY IInv, i \in DOMAIN rows, <1>1, <1>2, <2>1, ForRow
<1>9. Requested(c, requests', lastId)
  BY <1>4, <1>5, <1>8 DEF Requested
<1>10. ASSUME NEW u \in Nat PROVE Number(c, Updating(u)) <= Number(requests', Saves(u))
  <2>1. /\ Number(rows, Updating(u)) <= Number(requests, Saves(u))
        /\ Number(rows, Updating(u)) \in Nat /\ Number(requests, Saves(u)) \in Nat
        /\ Number(c, Updating(u)) \in Nat
    BY <1>6, Parts, NumberIsNat
  <2>2. ASSUME NEW k \in DOMAIN c, c[k] \in Updating(u), k # i
        PROVE  k \in DOMAIN rows /\ rows[k] \in Updating(u)
    <3>1. k \in DOMAIN rows /\ rows[k] \in Rows
      BY <1>4
    <3>2. c[k].obj = u /\ c[k].updating = TRUE
      BY <2>2 DEF Updating
    <3>3. rows[k].obj = u /\ rows[k].updating = TRUE
      BY <1>5, <2>2, <3>1, <3>2
    <3> QED
      BY <3>1, <3>3 DEF Updating
  <2>3. CASE u = o
    <3>1. r \in Saves(u)
      BY <1>2, <2>3 DEF Saves
    <3>2. Number(requests', Saves(u)) = Number(requests, Saves(u)) + 1
      BY <1>8, <3>1
    <3>3. \A k \in DOMAIN c : c[k] \in Updating(u) => k = i \/ (k \in DOMAIN rows /\ rows[k] \in Updating(u))
      BY <2>2
    <3>4. Number(c, Updating(u)) <= Number(rows, Updating(u)) + 1
      BY <1>4, <1>6, <3>3, CountOneMore
    <3> QED
      BY <2>1, <3>2, <3>4
  <2>4. CASE u # o
    <3>1. r \notin Saves(u)
      BY <1>2, <2>4 DEF Saves
    <3>2. Number(requests', Saves(u)) = Number(requests, Saves(u))
      BY <1>8, <3>1
    <3>3. c[i] \notin Updating(u)
      BY <1>5, <2>4 DEF Updating
    <3>4. \A k \in DOMAIN c : c[k] \in Updating(u) => k \in DOMAIN rows /\ rows[k] \in Updating(u)
      BY <2>2, <3>3
    <3>5. Number(c, Updating(u)) <= Number(rows, Updating(u))
      BY <1>4, <1>6, <3>4, CountFewer
    <3> QED
      BY <2>1, <3>2, <3>5
  <2> QED
    BY <2>3, <2>4
<1>11. changesLeft' \in 0 .. MaxChanges /\ changesLeft' = changesLeft - 1 /\ changesLeft \in Nat
  BY <1>1, ChangeIs
<1>12. lastId' + changesLeft' + Number(requests', Unserved) <= MaxChanges + 1
  <2>1. lastId' = lastId
    BY <1>1
  <2>2. lastId + changesLeft + Number(requests, Unserved) <= MaxChanges + 1
    BY Parts
  <2>3. lastId \in Nat /\ changesLeft \in Nat /\ MaxChanges \in Nat /\ Number(requests, Unserved) \in Nat
    BY Parts
  <2> QED
    BY ONLY <1>8, <1>11, <2>1, <2>2, <2>3
<1> QED
  BY <1>1, <1>6, <1>7, <1>9, <1>10, <1>11, <1>12, Parts, Together DEF c

LEMMA AnswerKeeps ==
  ASSUME IInv, NEW k \in DOMAIN requests, Answer(k)
  PROVE  IInv'
<1> DEFINE q == RemoveAt(requests, k)
<1>1. requests' = q /\ UNCHANGED <<store, lastId, changesLeft, failuresLeft>> /\ requests[k].stage # "sent"
  BY Zenon DEF Answer
<1>2. Follows(k, rows')
  BY AnswerFollows
<1>3. /\ q \in Seq(Requests)
      /\ \A j \in DOMAIN q : \E i \in DOMAIN requests : i # k /\ q[j] = requests[i]
      /\ \A i, j \in DOMAIN q : i # j =>
           \E a, b \in DOMAIN requests : a # k /\ b # k /\ a # b /\ q[i] = requests[a] /\ q[j] = requests[b]
  <2>1. requests \in Seq(Requests) /\ q = RemoveAt(requests, k)
    BY Parts
  <2> HIDE DEF q
  <2> QED
    BY ONLY <2>1, k \in DOMAIN requests, RemovedIs
<1>4. Number(q, Unserved) = Number(requests, Unserved)
  <2>1. requests[k] \notin Unserved
    BY <1>1 DEF Unserved
  <2> QED
    BY <2>1, RequestIs
<1> HIDE DEF q
<1>5. Requested(rows', q, lastId)
  <2>1. Requested(rows, requests, lastId)
    BY Parts
  <2>2. \A j \in DOMAIN q : RequestInv(q[j], lastId) /\ Ascending(q[j].list)
    BY <1>3, <2>1 DEF Requested
  <2>3. \A i, j \in DOMAIN q : i # j => Acquainted(q[i], q[j])
    BY <1>3, <2>1, ZenonT(60) DEF Requested
  <2>4. ASSUME NEW i \in DOMAIN rows', NEW j \in DOMAIN q, rows'[i].obj = q[j].obj
        PROVE  q[j].kind \in {"save", "del"} /\ rows'[i].id = q[j].id
    <3>1. PICK a \in DOMAIN requests : a # k /\ q[j] = requests[a]
      BY <1>3
    <3>2. a \in DOMAIN requests \ {k} /\ rows'[i].obj = requests[a].obj
      BY <2>4, <3>1
    <3>3. requests[a].kind \in {"save", "del"} /\ rows'[i].id = requests[a].id
      BY <1>2, <3>2, Zenon DEF Follows
    <3> QED
      BY <3>1, <3>3
  <2> QED
    BY <1>3, <2>2, <2>3, <2>4 DEF Requested
<1>6. /\ rows' \in Seq(Rows) /\ (\A j \in DOMAIN rows' : rows'[j].id <= lastId) /\ OneId(rows')
      /\ \A u \in Nat : Number(rows', Updating(u)) <= Number(q, Saves(u))
  BY <1>2, Zenon DEF Follows, q
<1>7. lastId' = lastId /\ store' = store /\ changesLeft' = changesLeft /\ failuresLeft' = failuresLeft /\ requests' = q
  BY <1>1
<1>8. lastId' + changesLeft' + Number(requests', Unserved) <= MaxChanges + 1
  BY <1>4, <1>7, Parts
<1> QED
  BY <1>5, <1>6, <1>7, <1>8, Parts, Together

\* A request goes on and is on its way no longer: it has used the identifier it took.
LEMMA ReplacedKeeps ==
  ASSUME IInv, NEW k \in DOMAIN requests, NEW r \in Requests,
         r.kind = requests[k].kind, r.obj = requests[k].obj,
         r.kind \in {"save", "del"} => r.id = requests[k].id,
         r \notin Unserved, RequestInv(r, lastId'), Ascending(r.list),
         requests' = [requests EXCEPT ![k] = r],
         lastId' = lastId \/ (lastId' = lastId + 1 /\ requests[k] \in Unserved),
         store' \in [DOMAIN store' -> BOOLEAN], DOMAIN store' \subseteq 1 .. lastId',
         UNCHANGED <<rows, changesLeft>>, failuresLeft' \in 0 .. MaxFailures
  PROVE  IInv'
<1>1. lastId' \in Nat \ {0} /\ lastId <= lastId' /\ lastId \in Nat
  BY RequestedIs
<1>2. /\ Requested(rows, requests', lastId')
      /\ \A u : Number(requests', Saves(u)) = Number(requests, Saves(u))
      /\ (r \in Unserved <=> requests[k] \in Unserved) => Number(requests', Unserved) = Number(requests, Unserved)
      /\ r \notin Unserved /\ requests[k] \in Unserved =>
           Number(requests', Unserved) = Number(requests, Unserved) - 1
  <2>1. /\ r.kind = requests[k].kind /\ r.obj = requests[k].obj
        /\ r.kind \in {"save", "del"} => r.id = requests[k].id
        /\ RequestInv(r, lastId') /\ Ascending(r.list) /\ requests' = [requests EXCEPT ![k] = r]
    OBVIOUS
  <2>2. /\ requests' \in Seq(Requests) /\ DOMAIN requests' = DOMAIN requests /\ requests'[k] = r
        /\ \A j \in DOMAIN requests : j # k => requests'[j] = requests[j]
    <3>1. requests \in Seq(Requests)
      BY Parts
    <3>2. requests' \in Seq(Requests)
      BY ONLY <2>1, <3>1, k \in DOMAIN requests, r \in Requests
    <3> QED
      BY ONLY <2>1, <3>1, <3>2, k \in DOMAIN requests
  <2> QED
    <3>1. lastId' \in Nat /\ lastId <= lastId'
      BY <1>1
    <3> QED
      BY ONLY IInv, k \in DOMAIN requests, r \in Requests, <2>1, <2>2, <3>1, ReplacedIs, ZenonT(60)
<1>3. lastId' + changesLeft' + Number(requests', Unserved) <= MaxChanges + 1
  <2>1. /\ lastId + changesLeft + Number(requests, Unserved) <= MaxChanges + 1
        /\ changesLeft \in Nat /\ MaxChanges \in Nat /\ Number(requests, Unserved) \in Nat
    BY Parts
  <2>2. changesLeft' = changesLeft /\ r \notin Unserved
    OBVIOUS
  <2>3. CASE requests[k] \in Unserved
    <3>1. lastId' = lastId \/ lastId' = lastId + 1
      OBVIOUS
    <3> QED
      BY ONLY <1>1, <1>2, <2>1, <2>2, <2>3, <3>1
  <2>4. CASE requests[k] \notin Unserved
    <3>1. lastId' = lastId
      BY <2>4
    <3> QED
      BY ONLY <1>1, <1>2, <2>1, <2>2, <2>4, <3>1
  <2> QED
    BY <2>3, <2>4
<1>4. \A o \in Nat : Number(rows', Updating(o)) <= Number(requests', Saves(o))
  BY <1>2, Parts
<1>5. /\ rows' \in Seq(Rows) /\ (\A i \in DOMAIN rows' : rows'[i].id <= lastId') /\ OneId(rows')
      /\ Requested(rows', requests', lastId')
  <2>1. rows \in Seq(Rows) /\ (\A i \in DOMAIN rows : rows[i].id <= lastId) /\ OneId(rows) /\ rows' = rows
    BY Parts
  <2>2. \A i \in DOMAIN rows : rows[i].id \in Nat
    <3>1. \A i \in DOMAIN rows : rows[i] \in Rows
      BY <2>1
    <3>2. \A x \in Rows : x.id \in Nat
      BY DEF Rows
    <3> QED
      BY <3>1, <3>2
  <2> QED
    BY ONLY <1>1, <1>2, <2>1, <2>2
<1>6. changesLeft' \in 0 .. MaxChanges
  BY Parts
<1> QED
  BY <1>1, <1>3, <1>4, <1>5, <1>6, Together

\* The store maps identifiers that were given to whether their receiver is active.
LEMMA StoreIs ==
  ASSUME NEW n \in Nat, NEW m \in Nat, n <= m, store \in [DOMAIN store -> BOOLEAN], DOMAIN store \subseteq 1 .. n
  PROVE  /\ \A id : Without(id) \in [DOMAIN Without(id) -> BOOLEAN] /\ DOMAIN Without(id) \subseteq 1 .. m
         /\ \A id \in 1 .. m, active \in BOOLEAN :
              With(id, active) \in [DOMAIN With(id, active) -> BOOLEAN] /\ DOMAIN With(id, active) \subseteq 1 .. m
<1>1. 1 .. n \subseteq 1 .. m
  OBVIOUS
<1>2. ASSUME NEW id
      PROVE  Without(id) \in [DOMAIN Without(id) -> BOOLEAN] /\ DOMAIN Without(id) \subseteq 1 .. m
  BY <1>1 DEF Without
<1>3. ASSUME NEW id \in 1 .. m, NEW active \in BOOLEAN
      PROVE  With(id, active) \in [DOMAIN With(id, active) -> BOOLEAN] /\ DOMAIN With(id, active) \subseteq 1 .. m
  BY <1>1 DEF With
<1> QED
  BY <1>2, <1>3

\* The server carries out a request: a receiver that is created takes the next identifier.
LEMMA ServeKeeps ==
  ASSUME IInv, NEW k \in DOMAIN requests, Serve(k)
  PROVE  IInv'
<1> DEFINE r == requests[k]
           known == r.kind \in {"save", "del"} => r.id \in DOMAIN store
           id == IF r.kind = "create" THEN lastId + 1 ELSE r.id
           stage == IF known THEN "answered" ELSE "failed"
           list == IF r.kind = "all" THEN AllReceivers ELSE r.list
           s == [r EXCEPT !.id = id, !.stage = stage, !.list = list]
<1>1. /\ r.stage = "sent"
      /\ store' = CASE r.kind = "all" \/ ~known -> store
                  [] r.kind = "del" /\ known  -> Without(r.id)
                  [] r.kind \in {"create", "save"} /\ known -> With(id, r.active)
      /\ lastId' = IF r.kind = "create" THEN id ELSE lastId
      /\ requests' = [requests EXCEPT ![k] = s]
      /\ UNCHANGED <<rows, changesLeft, failuresLeft>>
  BY Zenon DEF Serve
<1>2. r \in Requests /\ RequestInv(r, lastId) /\ IsAnswer(r.list) /\ lastId \in Nat \ {0}
  BY RequestIs, RequestedIs
<1>3. /\ r.kind \in {"all", "create", "save", "del"} /\ r.id \in Nat /\ r.id <= lastId
      /\ r.active \in BOOLEAN
  BY <1>2 DEF Requests, RequestInv
<1>4. id \in Nat /\ (r.kind = "create" => id = lastId + 1) /\ (r.kind # "create" => id = r.id)
  BY <1>2, <1>3
<1>5. stage \in {"answered", "failed"}
  OBVIOUS
<1>6. list \in Seq(Answers) /\ Ascending(list) /\ \A j \in DOMAIN list : list[j].id \in Nat /\ list[j].id <= lastId
  <2>1. /\ AllReceivers \in Seq(Answers) /\ Ascending(AllReceivers)
        /\ \A i \in DOMAIN AllReceivers : AllReceivers[i].id \in 1 .. lastId
    BY AllReceiversIs, Parts DEF IInv
  <2>2. CASE r.kind = "all"
    BY <1>2, <2>1, <2>2
  <2>3. CASE r.kind # "all"
    <3>1. list = r.list
      BY <2>3
    <3>2. \A j \in DOMAIN r.list : r.list[j] \in Answers
      BY <1>2 DEF IsAnswer
    <3>3. \A a \in Answers : a.id \in Nat
      BY DEF Answers
    <3> QED
      BY <1>2, <3>1, <3>2, <3>3 DEF IsAnswer
  <2> QED
    BY <2>2, <2>3
<1> HIDE DEF known, id, stage, list
<1>7. /\ s \in Requests /\ s.kind = r.kind /\ s.obj = r.obj /\ s.id = id /\ s.stage # "sent" /\ s.list = list
  BY <1>2, <1>4, <1>5, <1>6 DEF Requests
<1> HIDE DEF s, r
<1>8. lastId' = IF r.kind = "create" THEN lastId + 1 ELSE lastId
  BY <1>1, <1>4
<1>9. lastId' = lastId \/ (lastId' = lastId + 1 /\ requests[k] \in Unserved)
  BY <1>1, <1>2, <1>8 DEF r, Unserved
<1>10. RequestInv(s, lastId') /\ Ascending(s.list)
  <2>1. lastId' \in Nat /\ lastId <= lastId' /\ id <= lastId'
    BY <1>2, <1>3, <1>4, <1>8
  <2>2. \A j \in DOMAIN list : list[j].id <= lastId'
    BY <1>2, <1>6, <2>1
  <2>3. (r.kind # "all" => r.obj # 0) /\ (r.kind \in {"save", "del"} => r.id # 0)
    BY <1>2 DEF RequestInv
  <2>4. r.kind = "create" => id # 0
    BY <1>2, <1>4
  <2>5. r.kind \in {"save", "del"} => id # 0
    BY <1>4, <2>3
  <2> QED
    BY <1>6, <1>7, <2>1, <2>2, <2>3, <2>4, <2>5 DEF RequestInv
<1>11. store' \in [DOMAIN store' -> BOOLEAN] /\ DOMAIN store' \subseteq 1 .. lastId'
  <2>1. store \in [DOMAIN store -> BOOLEAN] /\ DOMAIN store \subseteq 1 .. lastId
    BY Parts
  <2>2. lastId \in Nat /\ lastId' \in Nat /\ lastId <= lastId'
    BY <1>2, <1>8
  <2>3. CASE r.kind = "all" \/ ~known
    BY <1>1, <2>1, <2>2, <2>3
  <2>4. CASE r.kind = "del" /\ known
    <3>1. store' = Without(r.id)
      BY <1>1, <2>4
    <3> QED
      BY <2>1, <2>2, <3>1, StoreIs
  <2>5. CASE r.kind \in {"create", "save"} /\ known
    <3>1. store' = With(id, r.active)
      BY <1>1, <2>5
    <3>2. id \in 1 .. lastId'
      <4>1. r.kind = "save" => r.id # 0
        BY <1>2 DEF RequestInv
      <4> QED
        BY <1>2, <1>3, <1>4, <1>8, <2>5, <4>1
    <3> QED
      BY <1>3, <2>1, <2>2, <3>1, <3>2, StoreIs
  <2> QED
    BY <1>3, <2>3, <2>4, <2>5
<1>12. s \notin Unserved
  BY <1>7 DEF Unserved
<1>13. failuresLeft' \in 0 .. MaxFailures
  BY <1>1, Parts
<1>14. /\ s.kind = requests[k].kind /\ s.obj = requests[k].obj
       /\ s.kind \in {"save", "del"} => s.id = requests[k].id
  BY <1>4, <1>7 DEF r
<1> QED
  BY ONLY IInv, k \in DOMAIN requests, <1>1, <1>7, <1>9, <1>10, <1>11, <1>12, <1>13, <1>14, ReplacedKeeps

\* A request or its answer is lost.
LEMMA FailKeeps ==
  ASSUME IInv, NEW k \in DOMAIN requests, Fail(k)
  PROVE  IInv'
<1> DEFINE s == [requests[k] EXCEPT !.stage = "failed"]
<1>1. /\ requests' = [requests EXCEPT ![k] = s] /\ failuresLeft > 0 /\ failuresLeft' = failuresLeft - 1
      /\ UNCHANGED <<store, lastId, rows, changesLeft>>
  BY Zenon DEF Fail
<1>2. requests[k] \in Requests /\ RequestInv(requests[k], lastId) /\ IsAnswer(requests[k].list)
  BY RequestIs
<1>3. /\ s \in Requests /\ s.kind = requests[k].kind /\ s.obj = requests[k].obj /\ s.id = requests[k].id
      /\ s.list = requests[k].list /\ s.stage = "failed"
  BY <1>2 DEF Requests
<1> HIDE DEF s
<1>4. RequestInv(s, lastId') /\ Ascending(s.list) /\ lastId' = lastId
  BY <1>1, <1>2, <1>3 DEF RequestInv, IsAnswer
<1>5. s \notin Unserved
  BY <1>3 DEF Unserved
<1>6. failuresLeft' \in 0 .. MaxFailures
  <2>1. failuresLeft \in Nat /\ MaxFailures \in Nat /\ failuresLeft \in 0 .. MaxFailures
    BY Parts
  <2> QED
    BY ONLY <1>1, <2>1
<1>7. store' \in [DOMAIN store' -> BOOLEAN] /\ DOMAIN store' \subseteq 1 .. lastId'
  <2>1. store \in [DOMAIN store -> BOOLEAN] /\ DOMAIN store \subseteq 1 .. lastId
    BY Parts
  <2> QED
    BY ONLY <1>1, <2>1
<1> QED
  BY ONLY IInv, k \in DOMAIN requests, <1>1, <1>3, <1>4, <1>5, <1>6, <1>7, ReplacedKeeps

\* Another page changes the store: this page learns of it later.
LEMMA ElsewhereKeeps ==
  ASSUME IInv, Elsewhere
  PROVE  IInv'
<1>1. /\ changesLeft > 0 /\ changesLeft' = changesLeft - 1 /\ UNCHANGED <<rows, requests, failuresLeft>>
      /\ \/ store' = With(lastId + 1, TRUE) /\ lastId' = lastId + 1
         \/ \E id \in DOMAIN store : store' = With(id, ~store[id]) /\ UNCHANGED lastId
         \/ \E id \in DOMAIN store : store' = Without(id) /\ UNCHANGED lastId
  BY DEF Elsewhere
<1>2. /\ store \in [DOMAIN store -> BOOLEAN] /\ DOMAIN store \subseteq 1 .. lastId /\ lastId \in Nat \ {0}
      /\ changesLeft \in 0 .. MaxChanges /\ MaxChanges \in Nat /\ Number(requests, Unserved) \in Nat
      /\ lastId + changesLeft + Number(requests, Unserved) <= MaxChanges + 1
  BY Parts
<1>3. lastId' \in Nat \ {0} /\ lastId <= lastId' /\ lastId' <= lastId + 1
  <2>1. lastId' = lastId \/ lastId' = lastId + 1
    BY <1>1, Zenon
  <2> QED
    BY ONLY <1>2, <2>1
<1>4. store' \in [DOMAIN store' -> BOOLEAN] /\ DOMAIN store' \subseteq 1 .. lastId'
  <2>1. CASE store' = With(lastId + 1, TRUE) /\ lastId' = lastId + 1
    <3>1. lastId + 1 \in 1 .. lastId' /\ TRUE \in BOOLEAN
      BY ONLY <1>2, <2>1
    <3> DEFINE on == TRUE
    <3>2. on \in BOOLEAN /\ store' = With(lastId + 1, on)
      BY <2>1
    <3> HIDE DEF on
    <3> QED
      BY ONLY <1>2, <1>3, <3>1, <3>2, StoreIs
  <2>2. ASSUME NEW id \in DOMAIN store, store' = With(id, ~store[id]), lastId' = lastId
        PROVE  store' \in [DOMAIN store' -> BOOLEAN] /\ DOMAIN store' \subseteq 1 .. lastId'
    <3> DEFINE on == ~store[id]
    <3>1. on \in BOOLEAN /\ id \in 1 .. lastId' /\ store' = With(id, on)
      BY <1>2, <2>2
    <3> HIDE DEF on
    <3> QED
      BY ONLY <1>2, <1>3, <3>1, StoreIs
  <2>3. ASSUME NEW id \in DOMAIN store, store' = Without(id), lastId' = lastId
        PROVE  store' \in [DOMAIN store' -> BOOLEAN] /\ DOMAIN store' \subseteq 1 .. lastId'
    BY ONLY <1>2, <1>3, <2>3, StoreIs
  <2> QED
    BY <1>1, <2>1, <2>2, <2>3
<1>5. changesLeft' \in 0 .. MaxChanges /\ lastId' + changesLeft' + Number(requests', Unserved) <= MaxChanges + 1
  BY ONLY <1>1, <1>2, <1>3
<1>6. Requested(rows', requests', lastId')
  <2>1. Requested(rows, requests, lastId)
    BY Parts
  <2>2. \A j \in DOMAIN requests : RequestInv(requests[j], lastId')
    BY <1>3, RequestLater
  <2>3. rows' = rows /\ requests' = requests
    BY <1>1
  <2> QED
    BY ONLY <2>1, <2>2, <2>3 DEF Requested
<1>7. /\ rows' \in Seq(Rows) /\ (\A i \in DOMAIN rows' : rows'[i].id <= lastId') /\ OneId(rows')
  <2>1. rows \in Seq(Rows) /\ (\A i \in DOMAIN rows : rows[i].id <= lastId) /\ OneId(rows) /\ rows' = rows
    BY <1>1, Parts
  <2>2. \A i \in DOMAIN rows : rows[i].id \in Nat
    <3>1. \A i \in DOMAIN rows : rows[i] \in Rows
      BY <2>1
    <3>2. \A x \in Rows : x.id \in Nat
      BY DEF Rows
    <3> QED
      BY <3>1, <3>2
  <2> QED
    BY ONLY <1>2, <1>3, <2>1, <2>2
<1>8. (\A o \in Nat : Number(rows', Updating(o)) <= Number(requests', Saves(o))) /\ failuresLeft' \in 0 .. MaxFailures
  BY <1>1, Parts
<1> QED
  BY ONLY <1>3, <1>4, <1>5, <1>6, <1>7, <1>8, Together

\* At the start nothing is shown and the list is asked for.
LEMMA InitHolds ==
  ASSUME RcvInit
  PROVE  IInv
<1> DEFINE r == [kind |-> "all", obj |-> 0, id |-> 0, active |-> FALSE, stage |-> "sent", list |-> <<>>]
<1>1. /\ store = [i \in {1} |-> TRUE] /\ lastId = 1 /\ rows = <<>> /\ requests = <<r>>
      /\ changesLeft = MaxChanges /\ failuresLeft = MaxFailures
  BY DEF RcvInit
<1>2. r \in Requests /\ r.id = 0 /\ r.kind = "all" /\ r.obj = 0 /\ DOMAIN r.list = {}
  <2>1. <<>> \in Seq(Answers)
    OBVIOUS
  <2> QED
    BY <2>1 DEF Requests
<1> HIDE DEF r
<1>3. /\ rows \in Seq(Rows) /\ DOMAIN rows = {}
      /\ requests \in Seq(Requests) /\ DOMAIN requests = {1} /\ requests[1] = r
  BY <1>1, <1>2
<1>4. TypeInv
  <2>1. store \in [DOMAIN store -> BOOLEAN] /\ DOMAIN store \subseteq 1 .. lastId /\ lastId \in Nat \ {0}
    BY <1>1
  <2> QED
    BY <1>1, <1>3, <2>1, ReceiversAssumption DEF TypeInv
<1>5. RequestInv(r, lastId) /\ Ascending(r.list)
  BY <1>1, <1>2 DEF RequestInv, Ascending
<1>6. IdInv /\ AnswerInv
  BY <1>3, <1>5 DEF IdInv, AnswerInv
<1>7. ObjInv
  BY <1>3 DEF ObjInv, OneId
<1>8. Number(requests, Unserved) = 0
  <2>1. Positions(requests, Unserved) = {}
    BY <1>2, <1>3 DEF Positions, Unserved
  <2> QED
    BY <1>3, <2>1, NoneIsZero
<1>9. BudgetInv
  BY <1>1, <1>8, ReceiversAssumption DEF BudgetInv
<1>10. StuckInv
  <2> SUFFICES ASSUME NEW o \in Nat PROVE Number(rows, Updating(o)) <= Number(requests, Saves(o))
    BY DEF StuckInv
  <2>1. Positions(rows, Updating(o)) = {}
    BY <1>3 DEF Positions
  <2>2. Number(rows, Updating(o)) = 0 /\ Number(requests, Saves(o)) \in Nat
    BY <1>3, <2>1, NoneIsZero, NumberIsNat
  <2> QED
    BY <2>2
<1> QED
  BY <1>4, <1>6, <1>7, <1>9, <1>10 DEF IInv

LEMMA NextKeeps ==
  ASSUME IInv, [RcvNext]_rcvVars
  PROVE  IInv'
<1>1. CASE UNCHANGED rcvVars
  BY <1>1, Zenon DEF rcvVars, IInv, TypeInv, IdInv, BudgetInv, StuckInv, ObjInv, AnswerInv
<1>2. CASE Refresh
  BY <1>2, RefreshKeeps
<1>3. CASE Create
  BY <1>3, CreateKeeps
<1>4. ASSUME NEW i \in DOMAIN rows, Start(i) PROVE IInv'
  BY <1>4, StartKeeps
<1>5. ASSUME NEW i \in DOMAIN rows, Del(i) PROVE IInv'
  BY <1>5, DelKeeps
<1>6. ASSUME NEW k \in DOMAIN requests, Serve(k) PROVE IInv'
  BY <1>6, ServeKeeps
<1>7. ASSUME NEW k \in DOMAIN requests, Answer(k) PROVE IInv'
  BY <1>7, AnswerKeeps
<1>8. ASSUME NEW k \in DOMAIN requests, Fail(k) PROVE IInv'
  BY <1>8, FailKeeps
<1>9. CASE Elsewhere
  BY <1>9, ElsewhereKeeps
<1> QED
  BY <1>1, <1>2, <1>3, <1>4, <1>5, <1>6, <1>7, <1>8, <1>9 DEF RcvNext, ServeAny, AnswerAny

LEMMA Invariance == RcvSpec => []IInv
<1>1. RcvInit => IInv
  BY InitHolds
<1>2. IInv /\ [RcvNext]_rcvVars => IInv'
  BY NextKeeps
<1> QED
  BY <1>1, <1>2, PTL DEF RcvSpec

-----------------------------------------------------------------------------
(* What holds of every behaviour *)

\* The rows, the requests and the store hold what they should: every identifier
\* shown or asked for is one the server gave, and it never gives more than the
\* changes of the users ask for (receivers.js, RfReceiverController).
THEOREM RcvTypes == RcvSpec => []RcvTypeOK
<1>1. IInv => RcvTypeOK
  <2> SUFFICES ASSUME IInv PROVE RcvTypeOK
    OBVIOUS
  <2>1. lastId \in 1 .. MaxChanges + 1
    <3>1. /\ lastId + changesLeft + Number(requests, Unserved) <= MaxChanges + 1 /\ lastId \in Nat \ {0}
          /\ changesLeft \in Nat /\ MaxChanges \in Nat /\ Number(requests, Unserved) \in Nat
      BY Parts
    <3> QED
      BY ONLY <3>1
  <2>2. ASSUME NEW i \in DOMAIN rows
        PROVE  rows[i] \in [obj : Nat \ {0}, id : 1 .. lastId, active : BOOLEAN, updating : BOOLEAN]
    <3>1. rows[i] \in Rows /\ rows[i].id <= lastId /\ lastId \in Nat
      BY Parts
    <3> QED
      BY <3>1 DEF Rows
  <2>3. ASSUME NEW k \in DOMAIN requests PROVE requests[k].kind \in {"all", "create", "save", "del"}
    BY RequestIs DEF Requests
  <2> QED
    BY <2>1, <2>2, <2>3, Parts DEF RcvTypeOK
<1> QED
  BY <1>1, Invariance, PTL

\* However merges, saves, deletions and failures are interleaved, a row whose
\* buttons are disabled has a save on its way that will enable them
\* (startUpdate and endUpdate of receivers.js).
THEOREM NoStuck == RcvSpec => []NoStuckRow
<1>1. IInv => NoStuckRow
  <2> SUFFICES ASSUME IInv, NEW o \in Objs(rows)
               PROVE  Cardinality({i \in DOMAIN rows : rows[i].obj = o /\ rows[i].updating})
                        <= Cardinality({k \in DOMAIN requests : requests[k].obj = o /\ requests[k].kind = "save"})
    BY DEF NoStuckRow
  <2>1. \A i \in DOMAIN rows : rows[i] \in Rows
    BY Parts
  <2>2. \A k \in DOMAIN requests : requests[k] \in Requests
    BY Parts
  <2>3. \A x \in Rows : x.updating \in BOOLEAN /\ x.obj \in Nat
    BY DEF Rows
  <2>4. o \in Nat
    BY <2>1, <2>3 DEF Objs
  <2>5. {i \in DOMAIN rows : rows[i].obj = o /\ rows[i].updating} = Positions(rows, Updating(o))
    <3>1. \A i \in DOMAIN rows : rows[i].updating <=> rows[i].updating = TRUE
      BY <2>1, <2>3, Zenon
    <3> QED
      BY <2>1, <3>1 DEF Positions, Updating
  <2>6. {k \in DOMAIN requests : requests[k].obj = o /\ requests[k].kind = "save"} = Positions(requests, Saves(o))
    BY <2>2 DEF Positions, Saves
  <2>7. Number(rows, Updating(o)) <= Number(requests, Saves(o))
    BY <2>4, Parts
  <2> QED
    BY <2>5, <2>6, <2>7 DEF Number
<1> QED
  BY <1>1, Invariance, PTL

\* Whatever the rows were when it was asked for and are when it comes, an answer
\* to a refresh is what the first rows show afterwards (mergeReceivers).
THEOREM RefreshShows == RcvSpec => RefreshShowsAnswer
<1>1. ASSUME IInv, NEW k \in DOMAIN requests, requests[k].kind = "all", requests[k].stage = "answered", Answer(k)
      PROVE  IsPrefix(requests[k].list, Shown(rows'))
  <2> DEFINE answer == requests[k].list
             c == rows'
             s == Shown(c)
  <2>1. c = Merged(answer)
    BY <1>1 DEF Answer
  <2>2. IsAnswer(answer) /\ TypeInv /\ IdInv /\ OneId(rows)
    BY <1>1, RequestIs, Parts DEF IInv
  <2>3. answer \in Seq(Answers)
    BY <2>2 DEF IsAnswer
  <2> HIDE DEF answer, c
  <2>4. /\ c \in Seq(Rows) /\ Len(answer) <= Len(c)
        /\ \A j \in 1 .. Len(answer) : c[j].id = answer[j].id /\ c[j].active = answer[j].active
    BY ONLY <2>1, <2>2, MergedIs
  <2>5. s \in Seq([id : Nat \ {0}, active : BOOLEAN]) /\ Len(s) = Len(c)
        /\ \A j \in 1 .. Len(c) : s[j] = [id |-> c[j].id, active |-> c[j].active]
    <3>1. DOMAIN c = 1 .. Len(c) /\ Len(c) \in Nat /\ \A j \in 1 .. Len(c) : c[j] \in Rows
      BY <2>4
    <3>2. \A x \in Rows : x.id \in Nat \ {0} /\ x.active \in BOOLEAN
      BY DEF Rows
    <3> QED
      BY <3>1, <3>2 DEF Shown
  <2>6. \A j \in 1 .. Len(answer) : s[j] = answer[j]
    <3> SUFFICES ASSUME NEW j \in 1 .. Len(answer) PROVE s[j] = answer[j]
      OBVIOUS
    <3>1. answer[j] \in Answers /\ j \in 1 .. Len(c)
      BY <2>3, <2>4
    <3>2. answer[j] = [id |-> answer[j].id, active |-> answer[j].active]
      BY <3>1 DEF Answers
    <3> QED
      BY <2>4, <2>5, <3>1, <3>2
  <2> HIDE DEF s
  <2>7. IsPrefix(answer, s)
    <3>1. Len(answer) <= Len(s) /\ Len(answer) \in Nat
      BY <2>3, <2>4, <2>5
    <3>2. SubSeq(answer, 1, Len(answer)) = SubSeq(s, 1, Len(answer))
      BY <2>3, <2>4, <2>5, <2>6, <3>1
    <3> QED
      BY <3>1, <3>2 DEF IsPrefix
  <2> QED
    BY <2>7 DEF s, c, answer
<1>2. IInv /\ [RcvNext]_rcvVars =>
        [\A k \in DOMAIN requests :
           (requests[k].kind = "all" /\ requests[k].stage = "answered" /\ Answer(k))
             => IsPrefix(requests[k].list, Shown(rows'))]_rcvVars
  BY <1>1
<1> QED
  BY <1>2, Invariance, PTL DEF RcvSpec, RefreshShowsAnswer
=============================================================================
