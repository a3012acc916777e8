---------------------------- MODULE PagesProofs -----------------------------
(***************************************************************************)
(* Proofs about the pages of the store (MCPages), for any number of        *)
(* messages, items, events, searches and pages, and the theorems about the *)
(* pages and the services they ask through (ServicesProofs).               *)
(*                                                                         *)
(* The parts share no state, and so the invariant is a conjunction with    *)
(* one conjunct per part.  RfTags has messages and a pagination of its     *)
(* own: what an operator of Notifier or Pagination does is stated once,    *)
(* with its arguments, and used for both.                                  *)
(***************************************************************************)
EXTENDS ServicesProofs

-----------------------------------------------------------------------------
(* Least and greatest numbers *)

\* Min() picks a member of a set of positions.
LEMMA FirstOfAny ==
  ASSUME NEW S \in SUBSET Nat, S # {}
  PROVE  M!Min(S) \in S /\ \A k \in S : M!Min(S) <= k
BY LeastOfAny DEF M!Min

-----------------------------------------------------------------------------
(* Members of a sequence that are kept *)

\* p has the members of s at the positions I and no others, once for each position.
KeptFrom(p, A, s, I) ==
  /\ p \in Seq(A) /\ Len(p) <= Len(s)
  /\ \A j \in DOMAIN p : \E i \in I : p[j] = s[i]
  /\ \A i \in I : \E j \in DOMAIN p : p[j] = s[i]
  /\ I = DOMAIN s => p = s

LEMMA SizeOfRange ==
  ASSUME NEW n \in Nat
  PROVE  IsFiniteSet(1 .. n) /\ Cardinality(1 .. n) = n
BY FS_Interval

\* Every number up to the size of a finite set of numbers is the rank of one member.
UpTo(I, j) == {k \in I : k <= j}
Rank(I, j) == Cardinality(UpTo(I, j))
Pick(I, i) == CHOOSE j \in I : Rank(I, j) = i

LEMMA RankIsSize ==
  ASSUME NEW I \in SUBSET Nat, IsFiniteSet(I), NEW j \in I
  PROVE  Rank(I, j) \in 1 .. Cardinality(I)
<1>1. /\ IsFiniteSet(UpTo(I, j)) /\ Cardinality(UpTo(I, j)) <= Cardinality(I)
      /\ Cardinality(UpTo(I, j)) \in Nat /\ Cardinality(I) \in Nat
  BY FS_Subset, FS_CardinalityType DEF UpTo
<1>2. j \in UpTo(I, j)
  BY DEF UpTo
<1>3. Cardinality(UpTo(I, j)) # 0
  BY <1>1, <1>2, FS_EmptySet
<1> QED
  BY <1>1, <1>3 DEF Rank

LEMMA RankGrows ==
  ASSUME NEW I \in SUBSET Nat, IsFiniteSet(I), NEW j \in I, NEW k \in I, j < k
  PROVE  Rank(I, j) < Rank(I, k)
<1>1. UpTo(I, j) \subseteq UpTo(I, k) /\ UpTo(I, j) # UpTo(I, k)
  <2>1. k \in UpTo(I, k) /\ k \notin UpTo(I, j)
    BY DEF UpTo
  <2>2. \A e \in UpTo(I, j) : e \in I /\ e <= k
    <3>1. \A e \in I : e \in Nat
      OBVIOUS
    <3> QED
      BY <3>1 DEF UpTo
  <2>3. UpTo(I, j) \subseteq UpTo(I, k)
    BY <2>2 DEF UpTo
  <2> QED
    BY <2>1, <2>3
<1>2. IsFiniteSet(UpTo(I, k))
  BY FS_Subset DEF UpTo
<1>3. /\ Cardinality(UpTo(I, j)) <= Cardinality(UpTo(I, k))
      /\ Cardinality(UpTo(I, j)) # Cardinality(UpTo(I, k))
  BY <1>1, <1>2, FS_Subset
<1>4. Cardinality(UpTo(I, j)) \in Nat /\ Cardinality(UpTo(I, k)) \in Nat
  BY <1>1, <1>2, FS_Subset, FS_CardinalityType
<1> QED
  BY <1>3, <1>4 DEF Rank

LEMMA PickIs ==
  ASSUME NEW I \in SUBSET Nat, IsFiniteSet(I)
  PROVE  /\ \A i \in 1 .. Cardinality(I) : Pick(I, i) \in I /\ Rank(I, Pick(I, i)) = i
         /\ \A i \in I : Rank(I, i) \in 1 .. Cardinality(I) /\ Pick(I, Rank(I, i)) = i
<1> DEFINE n == Cardinality(I)
           rank == [j \in I |-> Rank(I, j)]
<1>1. n \in Nat
  BY FS_CardinalityType
<1>2. \A j, k \in I : Rank(I, j) = Rank(I, k) => j = k
  <2> SUFFICES ASSUME NEW j \in I, NEW k \in I, j # k PROVE Rank(I, j) # Rank(I, k)
    OBVIOUS
  <2>1. Rank(I, j) \in Int /\ Rank(I, k) \in Int
    BY RankIsSize, <1>1
  <2>2. (j < k => Rank(I, j) < Rank(I, k)) /\ (k < j => Rank(I, k) < Rank(I, j))
    BY RankGrows
  <2> QED
    BY <2>1, <2>2
<1>3. rank \in Injection(I, 1 .. n)
  <2>1. \A j, k \in I : rank[j] = rank[k] => j = k
    BY <1>2
  <2>2. rank \in [I -> 1 .. n]
    BY RankIsSize
  <2> QED
    BY <2>1, <2>2 DEF Injection, IsInjective
<1>4. rank \in Surjection(I, 1 .. n)
  <2>1. IsFiniteSet(1 .. n) /\ Cardinality(1 .. n) = n
    BY <1>1, SizeOfRange
  <2> QED
    BY <1>1, <1>3, <2>1, FS_Injection
<1>5. \A i \in 1 .. n : Pick(I, i) \in I /\ Rank(I, Pick(I, i)) = i
  <2>1. \A i \in 1 .. n : \E j \in I : Rank(I, j) = i
    BY <1>4 DEF Surjection
  <2> QED
    BY <2>1 DEF Pick
<1>6. \A i \in I : Rank(I, i) \in 1 .. n
  BY RankIsSize
<1>7. \A i \in I : Pick(I, Rank(I, i)) = i
  BY <1>2, <1>5, <1>6
<1> QED
  BY <1>5, <1>6, <1>7

\* An instance has the standard operators under names of its own.
LEMMA SameSize == \A S : M!Cardinality(S) = Cardinality(S)
BY DEF M!Cardinality, Cardinality

LEMMA KeptIs ==
  ASSUME NEW A, NEW s \in Seq(A), NEW I \in SUBSET DOMAIN s
  PROVE  KeptFrom(M!Kept(s, I), A, s, I)
<1> DEFINE n == Cardinality(I)
<1>1. DOMAIN s = 1 .. Len(s) /\ Len(s) \in Nat
  OBVIOUS
<1>2. I \in SUBSET Nat /\ IsFiniteSet(I) /\ n \in Nat /\ n <= Len(s)
  <2>1. IsFiniteSet(DOMAIN s) /\ Cardinality(DOMAIN s) = Len(s)
    BY <1>1, SizeOfRange
  <2>2. IsFiniteSet(I) /\ Cardinality(I) <= Cardinality(DOMAIN s)
    BY <2>1, FS_Subset
  <2>3. Cardinality(I) \in Nat
    BY <2>2, FS_CardinalityType
  <2>4. I \in SUBSET Nat
    BY <1>1
  <2> QED
    BY <2>1, <2>2, <2>3, <2>4
<1>3. M!Kept(s, I) = [i \in 1 .. n |-> s[Pick(I, i)]]
  <2> DEFINE choice(j) == CHOOSE i \in I : Cardinality({k \in I : k <= i}) = j
  <2>1. \A j : choice(j) = Pick(I, j)
    BY Zenon DEF Pick, Rank, UpTo
  <2>2. M!Kept(s, I) = [j \in 1 .. n |-> s[choice(j)]]
    <3>1. M!Kept(s, I) = [j \in 1 .. M!Cardinality(I) |->
                            s[CHOOSE i \in I : M!Cardinality({k \in I : k <= i}) = j]]
      BY Zenon DEF M!Kept
    <3>2. \A j : choice(j) = CHOOSE i \in I : M!Cardinality({k \in I : k <= i}) = j
      BY SameSize, Zenon
    <3> QED
      BY <3>1, <3>2, SameSize, Zenon
  <2> HIDE DEF choice
  <2> QED
    BY <2>1, <2>2
<1>4. /\ \A i \in 1 .. n : Pick(I, i) \in I /\ Rank(I, Pick(I, i)) = i
      /\ \A i \in I : Rank(I, i) \in 1 .. n /\ Pick(I, Rank(I, i)) = i
  BY <1>2, PickIs
<1> HIDE DEF n
<1>5. M!Kept(s, I) \in Seq(A) /\ DOMAIN M!Kept(s, I) = 1 .. n /\ Len(M!Kept(s, I)) = n
  <2>1. M!Kept(s, I) \in [1 .. n -> A]
    BY <1>1, <1>3, <1>4
  <2>2. M!Kept(s, I) \in Seq(A) /\ DOMAIN M!Kept(s, I) = 1 .. n
    BY <1>2, <2>1, Zenon, SeqDef
  <2> QED
    BY <1>2, <2>2
<1>6. I = DOMAIN s => M!Kept(s, I) = s
  <2> SUFFICES ASSUME I = DOMAIN s PROVE M!Kept(s, I) = s
    OBVIOUS
  <2>1. n = Len(s)
    BY <1>1, SizeOfRange DEF n
  <2>2. \A i \in 1 .. n : Rank(I, i) = i
    <3> SUFFICES ASSUME NEW i \in 1 .. n PROVE Rank(I, i) = i
      OBVIOUS
    <3>1. UpTo(I, i) = 1 .. i /\ i \in Nat
      BY <1>1, <2>1 DEF UpTo
    <3> QED
      BY <3>1, SizeOfRange DEF Rank
  <2>3. \A i \in 1 .. n : Pick(I, i) = i
    BY <1>1, <1>4, <2>1, <2>2
  <2> QED
    BY <1>1, <1>3, <1>5, <2>1, <2>3
<1>7. \A i \in I : M!Kept(s, I)[Rank(I, i)] = s[i]
  BY <1>3, <1>4
<1> QED
  BY <1>1, <1>2, <1>3, <1>4, <1>5, <1>6, <1>7 DEF KeptFrom

-----------------------------------------------------------------------------
(* Messages *)

MessageT == [no : Nat, kind : {"info", "error", "done"}, temp : BOOLEAN]

\* p has members of s only, none of them more often.
Fewer(p, s) ==
  /\ p \in Seq(MessageT) /\ Len(p) <= Len(s)
  /\ \A j \in DOMAIN p : \E i \in DOMAIN s : p[j] = s[i]

\* What stays in p of the members of s that I holds.
Has(p, s, I) == \A i \in I : \E j \in DOMAIN p : p[j] = s[i]

Alone(s) == \A i \in DOMAIN s : s[i].temp => Len(s) = 1

LEMMA OneIsAlone ==
  ASSUME NEW p \in Seq(MessageT), Len(p) <= 1
  PROVE  Alone(p)
<1> SUFFICES ASSUME NEW j \in DOMAIN p PROVE Len(p) = 1
  BY DEF Alone
<1> DEFINE n == Len(p)
<1>1. n \in Nat /\ n <= 1 /\ j \in 1 .. n
  OBVIOUS
<1> HIDE DEF n
<1>2. n = 1
  BY <1>1
<1> QED
  BY <1>2 DEF n

LEMMA FewerAlone ==
  ASSUME NEW p, NEW s \in Seq(MessageT), Fewer(p, s), Alone(s)
  PROVE  Alone(p)
<1> SUFFICES ASSUME NEW j \in DOMAIN p, p[j].temp PROVE Len(p) = 1
  BY DEF Alone
<1>1. p \in Seq(MessageT) /\ Len(p) <= Len(s) /\ \E i \in DOMAIN s : p[j] = s[i]
  BY DEF Fewer
<1>2. Len(s) = 1
  BY <1>1 DEF Alone
<1>3. Len(p) <= 1
  BY <1>1, <1>2
<1> QED
  BY <1>1, <1>3, OneIsAlone DEF Alone

LEMMA FewerOfFewer ==
  ASSUME NEW p, NEW q, NEW s \in Seq(MessageT), Fewer(p, q), Fewer(q, s)
  PROVE  Fewer(p, s)
<1>1. p \in Seq(MessageT) /\ q \in Seq(MessageT) /\ Len(p) <= Len(q) /\ Len(q) <= Len(s)
  BY DEF Fewer
<1>2. Len(p) <= Len(s)
  <2>1. Len(p) \in Nat /\ Len(q) \in Nat /\ Len(s) \in Nat
    BY <1>1
  <2> QED
    BY <1>1, <2>1
<1>3. \A j \in DOMAIN p : \E i \in DOMAIN s : p[j] = s[i]
  BY Zenon DEF Fewer
<1> QED
  BY <1>1, <1>2, <1>3 DEF Fewer

LEMMA KeptIsFewer ==
  ASSUME NEW s \in Seq(MessageT), NEW I \in SUBSET DOMAIN s, NEW p, KeptFrom(p, MessageT, s, I)
  PROVE  Fewer(p, s) /\ Has(p, s, I)
BY DEF KeptFrom, Fewer, Has

\* What closing a message does: it goes and takes no other with it.
LEMMA CloseMessageIs ==
  ASSUME NEW s \in Seq(MessageT), NEW no
  PROVE  LET p == M!CloseMessage(s, no) IN
         /\ Fewer(p, s) /\ Has(p, s, {i \in DOMAIN s : s[i].no # no})
         /\ \A j \in DOMAIN p : p[j].no # no
         /\ (\A i \in DOMAIN s : s[i].no # no) => p = s
<1> DEFINE I == {i \in DOMAIN s : s[i].no # no}
           p == M!CloseMessage(s, no)
<1>1. KeptFrom(p, MessageT, s, I)
  BY KeptIs DEF M!CloseMessage
<1>2. Fewer(p, s) /\ Has(p, s, I)
  BY <1>1, KeptIsFewer
<1>3. \A j \in DOMAIN p : \E i \in I : p[j] = s[i]
  BY <1>1 DEF KeptFrom
<1>4. I = DOMAIN s => p = s
  BY <1>1 DEF KeptFrom
<1> QED
  BY <1>2, <1>3, <1>4

\* What a look at the messages does: temporary ones in front may go.
LEMMA VisibleMessagesIs ==
  ASSUME NEW s \in Seq(MessageT)
  PROVE  LET p == M!VisibleMessages(s) IN
         /\ Fewer(p, s) /\ Has(p, s, {i \in DOMAIN s : ~s[i].temp})
         /\ (\A i \in DOMAIN s : s[i].temp) => p = s
         /\ (s # <<>> /\ ~s[1].temp) => \A j \in DOMAIN p : ~p[j].temp
<1> DEFINE stay == {i \in DOMAIN s : ~s[i].temp}
           n == M!Min(stay) - 1
           I == {i \in DOMAIN s : (n # 0 /\ i > n) \/ ~s[i].temp}
           p == M!VisibleMessages(s)
<1>1. Fewer(s, s) /\ Has(s, s, stay)
  BY DEF Fewer, Has
<1>2. CASE stay = {}
  <2>1. p = s /\ \A i \in DOMAIN s : s[i].temp
    BY <1>2 DEF M!VisibleMessages
  <2>2. s # <<>> => s[1].temp
    BY <2>1
  <2> QED
    BY <1>1, <2>1, <2>2
<1>3. CASE stay # {}
  <2>1. p = M!Kept(s, I)
    BY <1>3, Zenon DEF M!VisibleMessages, M!RemoveTemp
  <2>2. KeptFrom(p, MessageT, s, I) /\ Fewer(p, s) /\ Has(p, s, I)
    <3>1. I \in SUBSET DOMAIN s
      OBVIOUS
    <3> HIDE DEF I, p
    <3> QED
      BY <2>1, <3>1, KeptIs, KeptIsFewer
  <2>3. Has(p, s, stay)
    BY <2>2 DEF Has
  <2>4. stay \subseteq Nat /\ stay \in SUBSET Nat
    OBVIOUS
  <2>5. (s # <<>> /\ ~s[1].temp) => n = 0
    <3> SUFFICES ASSUME s # <<>>, ~s[1].temp PROVE n = 0
      OBVIOUS
    <3>1. 1 \in stay
      OBVIOUS
    <3>2. M!Min(stay) \in stay /\ M!Min(stay) <= 1
      BY <1>3, <2>4, <3>1, FirstOfAny
    <3>3. M!Min(stay) \in 1 .. Len(s)
      BY <3>2
    <3> QED
      BY <3>2, <3>3
  <2>6. (s # <<>> /\ ~s[1].temp) => \A j \in DOMAIN p : ~p[j].temp
    BY <2>2, <2>5 DEF KeptFrom
  <2>7. \E i \in DOMAIN s : ~s[i].temp
    BY <1>3
  <2> QED
    BY <2>2, <2>3, <2>6, <2>7
<1> QED
  BY <1>2, <1>3

\* What adding a message does, with the look at the messages that follows.
LEMMA NotifyIs ==
  ASSUME NEW s \in Seq(MessageT), NEW m \in MessageT
  PROVE  LET p == M!VisibleMessages(M!AddMessage(s, m)) IN
         /\ p \in Seq(MessageT) /\ Alone(p)
         /\ \A j \in DOMAIN p : p[j] = m \/ \E i \in DOMAIN s : p[j] = s[i]
<1> DEFINE I == {i \in DOMAIN s : (0 # 0 /\ i > 0) \/ ~s[i].temp}
           t == M!RemoveTemp(s, 0)
           a == M!AddMessage(s, m)
           p == M!VisibleMessages(a)
<1>1. KeptFrom(t, MessageT, s, I)
  BY KeptIs DEF M!RemoveTemp
<1>2. /\ t \in Seq(MessageT) /\ \A j \in DOMAIN t : ~t[j].temp
      /\ \A j \in DOMAIN t : \E i \in DOMAIN s : t[j] = s[i]
  BY <1>1 DEF KeptFrom
<1>3. a = Append(t, m)
  BY DEF M!AddMessage
<1> HIDE DEF t, a, I
<1>4. /\ a \in Seq(MessageT) /\ Len(a) = Len(t) + 1 /\ a[Len(t) + 1] = m
      /\ \A j \in DOMAIN t : a[j] = t[j]
  BY <1>2, <1>3
<1>5. /\ Fewer(p, a)
      /\ (\A i \in DOMAIN a : a[i].temp) => p = a
      /\ (a # <<>> /\ ~a[1].temp) => \A j \in DOMAIN p : ~p[j].temp
  BY <1>4, VisibleMessagesIs
<1> HIDE DEF p
<1>6. Alone(p)
  <2>1. CASE t = <<>>
    <3>1. Len(a) = 1
      BY <1>2, <1>4, <2>1
    <3>2. Len(p) <= 1 /\ p \in Seq(MessageT)
      BY <1>5, <3>1 DEF Fewer
    <3> QED
      BY <3>2, OneIsAlone, Zenon
  <2>2. CASE t # <<>>
    <3>1. 1 \in DOMAIN t /\ a # <<>> /\ ~a[1].temp
      <4>1. 1 \in DOMAIN t
        BY <1>2, <2>2
      <4>2. a[1] = t[1] /\ ~t[1].temp
        BY <1>2, <1>4, <4>1
      <4>3. Len(a) # 0
        BY <1>2, <1>4
      <4> QED
        BY <1>4, <4>1, <4>2, <4>3
    <3> QED
      BY <1>5, <3>1 DEF Alone
  <2> QED
    BY <2>1, <2>2
<1>7. \A j \in DOMAIN p : p[j] = m \/ \E i \in DOMAIN s : p[j] = s[i]
  <2> SUFFICES ASSUME NEW j \in DOMAIN p PROVE p[j] = m \/ \E i \in DOMAIN s : p[j] = s[i]
    OBVIOUS
  <2>1. PICK k \in DOMAIN a : p[j] = a[k]
    BY <1>5 DEF Fewer
  <2>2. k \in DOMAIN t \/ k = Len(t) + 1
    BY <1>2, <1>4
  <2> QED
    BY <1>2, <1>4, <2>1, <2>2
<1> QED
  BY <1>5, <1>6, <1>7 DEF Fewer, p, a

-----------------------------------------------------------------------------
(* The messages on their own *)

MessagesInv ==
  /\ messages \in Seq(MessageT) /\ lastNo \in 0 .. MaxMessages /\ timers \in SUBSET (1 .. lastNo)
  /\ \A i \in DOMAIN messages : messages[i].no \in 1 .. lastNo
  /\ Alone(messages)
  /\ \A i \in DOMAIN messages : messages[i].kind = "error" => messages[i].no \in timers

LEMMA MessagesInit == M!NtInit => MessagesInv
BY PagesAssumption DEF M!NtInit, MessagesInv, Alone

\* A message closed and the look at the messages that follows.
LEMMA CloseIs ==
  ASSUME NEW s \in Seq(MessageT), NEW no
  PROVE  LET p == M!VisibleMessages(M!CloseMessage(s, no)) IN
         /\ Fewer(p, s) /\ \A j \in DOMAIN p : p[j].no # no
         /\ Alone(s) => Has(p, s, {i \in DOMAIN s : s[i].no # no})
<1> DEFINE c == M!CloseMessage(s, no)
           p == M!VisibleMessages(c)
           I == {i \in DOMAIN s : s[i].no # no}
<1>1. /\ Fewer(c, s) /\ Has(c, s, I)
      /\ \A j \in DOMAIN c : c[j].no # no
  BY CloseMessageIs
<1> HIDE DEF c
<1>2. c \in Seq(MessageT)
  BY <1>1 DEF Fewer
<1>3. /\ Fewer(p, c) /\ Has(p, c, {i \in DOMAIN c : ~c[i].temp})
      /\ (\A i \in DOMAIN c : c[i].temp) => p = c
  BY <1>2, VisibleMessagesIs
<1> HIDE DEF p
<1>4. Fewer(p, s)
  BY <1>1, <1>2, <1>3, FewerOfFewer
<1>5. \A j \in DOMAIN p : p[j].no # no
  BY <1>1, <1>3 DEF Fewer
<1>6. ASSUME Alone(s) PROVE Has(p, s, I)
  <2>1. Alone(c)
    BY <1>1, <1>6, FewerAlone
  <2>2. CASE \E i \in DOMAIN c : c[i].temp
    <3>1. Len(c) = 1
      BY <2>1, <2>2 DEF Alone
    <3>2. \A i \in DOMAIN c : c[i].temp
      BY <1>2, <2>2, <3>1
    <3> QED
      BY <1>1, <1>3, <3>2
  <2>3. CASE \A i \in DOMAIN c : ~c[i].temp
    <3>1. {i \in DOMAIN c : ~c[i].temp} = DOMAIN c
      BY <2>3
    <3> QED
      BY <1>1, <1>3, <3>1 DEF Has
  <2> QED
    BY <2>2, <2>3
<1> QED
  BY <1>4, <1>5, <1>6 DEF p, c

LEMMA NotifyKeeps ==
  ASSUME MessagesInv, NEW kind \in {"info", "error", "done"}, M!Notify(kind)
  PROVE  MessagesInv'
<1> DEFINE m == M!Message(lastNo + 1, kind)
<1>1. lastNo \in Nat /\ lastNo' = lastNo + 1 /\ lastNo' \in 0 .. MaxMessages /\ messages \in Seq(MessageT)
  BY PagesAssumption DEF MessagesInv, M!Notify
<1>2. m \in MessageT /\ m.no = lastNo + 1 /\ m.kind = kind
  <2>1. (kind = "done") \in BOOLEAN
    BY Zenon
  <2> QED
    BY <1>1, <2>1 DEF M!Message, MessageT
<1>3. messages' = M!VisibleMessages(M!AddMessage(messages, m))
  BY DEF M!Notify
<1> HIDE DEF m
<1>4. /\ messages' \in Seq(MessageT) /\ Alone(messages')
      /\ \A j \in DOMAIN messages' :
           messages'[j] = m \/ \E i \in DOMAIN messages : messages'[j] = messages[i]
  BY <1>1, <1>2, <1>3, NotifyIs
<1>5. timers' = IF kind = "error" THEN timers \cup {lastNo + 1} ELSE timers
  BY DEF M!Notify
<1>6. timers' \in SUBSET (1 .. lastNo') /\ timers \subseteq timers'
  BY <1>1, <1>5 DEF MessagesInv
<1>7. ASSUME NEW j \in DOMAIN messages'
      PROVE  /\ messages'[j].no \in 1 .. lastNo'
             /\ messages'[j].kind = "error" => messages'[j].no \in timers'
  <2>1. CASE messages'[j] = m
    BY <1>1, <1>2, <1>5, <2>1
  <2>2. CASE \E i \in DOMAIN messages : messages'[j] = messages[i]
    BY <1>1, <1>6, <2>2 DEF MessagesInv
  <2> QED
    BY <1>4, <2>1, <2>2
<1>8. Alone(messages)'
  BY <1>4 DEF Alone
<1> QED
  BY <1>1, <1>4, <1>6, <1>7, <1>8 DEF MessagesInv

\* Whoever closes a message: an error's timer goes with it at the most.
LEMMA ClosingKeeps ==
  ASSUME MessagesInv, NEW no, messages' = M!VisibleMessages(M!CloseMessage(messages, no)),
         timers' = timers \/ timers' = timers \ {no}, lastNo' = lastNo
  PROVE  MessagesInv'
<1>1. messages \in Seq(MessageT) /\ Alone(messages)
  BY DEF MessagesInv
<1>2. Fewer(messages', messages) /\ \A j \in DOMAIN messages' : messages'[j].no # no
  BY <1>1, CloseIs
<1>3. Alone(messages')
  BY <1>1, <1>2, FewerAlone
<1>4. Alone(messages)'
  BY <1>3 DEF Alone
<1>5. /\ messages' \in Seq(MessageT)
      /\ \A j \in DOMAIN messages' : \E i \in DOMAIN messages : messages'[j] = messages[i]
  BY <1>2 DEF Fewer
<1>6. timers' \in SUBSET (1 .. lastNo') /\ lastNo' \in 0 .. MaxMessages
  BY DEF MessagesInv
<1>7. \A j \in DOMAIN messages' : messages'[j].no \in 1 .. lastNo'
  BY <1>5 DEF MessagesInv
<1>8. \A j \in DOMAIN messages' : messages'[j].kind = "error" => messages'[j].no \in timers'
  BY <1>2, <1>5 DEF MessagesInv
<1> QED
  BY <1>4, <1>5, <1>6, <1>7, <1>8 DEF MessagesInv

LEMMA MessagesNext ==
  ASSUME MessagesInv, M!NtNext
  PROVE  MessagesInv'
<1>1. CASE M!Info
  BY <1>1, NotifyKeeps DEF M!Info
<1>2. CASE M!Error
  BY <1>2, NotifyKeeps DEF M!Error
<1>3. CASE M!Done
  BY <1>3, NotifyKeeps DEF M!Done
<1>4. ASSUME NEW no \in 1 .. lastNo, M!Close(no) PROVE MessagesInv'
  BY <1>4, ClosingKeeps DEF M!Close
<1>5. ASSUME NEW no \in timers, M!Expire(no) PROVE MessagesInv'
  BY <1>5, ClosingKeeps DEF M!Expire
<1> QED
  BY <1>1, <1>2, <1>3, <1>4, <1>5 DEF M!NtNext

LEMMA ExpiryTakesNoOther ==
  ASSUME MessagesInv, NEW no \in timers, M!Expire(no), NEW i \in DOMAIN messages,
         messages[i].no \notin M!Numbers(messages')
  PROVE  messages[i].no = no
<1>1. messages \in Seq(MessageT) /\ Alone(messages)
  BY DEF MessagesInv
<1>2. messages' = M!VisibleMessages(M!CloseMessage(messages, no))
  BY DEF M!Expire
<1>3. Has(messages', messages, {k \in DOMAIN messages : messages[k].no # no})
  BY <1>1, <1>2, CloseIs
<1>4. messages[i].no # no => \E j \in DOMAIN messages' : messages'[j] = messages[i]
  BY <1>3 DEF Has
<1> QED
  BY <1>4 DEF M!Numbers

-----------------------------------------------------------------------------
(* The links of the pagination *)

LEMMA LesserIs ==
  ASSUME NEW a \in Int, NEW b \in Int
  PROVE  P!Min({a, b}) = IF a <= b THEN a ELSE b
BY DEF P!Min

LEMMA GreaterIs ==
  ASSUME NEW a \in Int, NEW b \in Int
  PROVE  P!Max({a, b}) = IF a >= b THEN a ELSE b
BY DEF P!Max

LEMMA DivisionIs ==
  ASSUME NEW a \in Nat, NEW b \in Nat \ {0}
  PROVE  a \div b \in Nat /\ b * (a \div b) <= a /\ a < b * (a \div b) + b
OBVIOUS

\* The n numbers in a row from a on.
Row(s, a, n) == s \in Seq(Int) /\ Len(s) = n /\ \A i \in 1 .. n : s[i] = a + i - 1

LEMMA EmptyRow ==
  ASSUME NEW a \in Int
  PROVE  Row(<<>>, a, 0)
BY DEF Row

LEMMA OneInRow ==
  ASSUME NEW a \in Int
  PROVE  Row(<<a>>, a, 1)
BY DEF Row

LEMMA RowIs ==
  ASSUME NEW a \in Int, NEW n \in Nat
  PROVE  Row([i \in 1 .. n |-> a + i - 1], a, n)
<1> DEFINE s == [i \in 1 .. n |-> a + i - 1]
<1>1. s \in [1 .. n -> Int]
  OBVIOUS
<1>2. s \in Seq(Int) /\ DOMAIN s = 1 .. n
  BY <1>1, Zenon, SeqDef
<1>3. Len(s) = n
  BY <1>2
<1> QED
  BY <1>2, <1>3 DEF Row

LEMMA RowsJoined ==
  ASSUME NEW s, NEW t, NEW a \in Int, NEW n \in Nat, NEW m \in Nat,
         Row(s, a, n), Row(t, a + n, m)
  PROVE  Row(s \o t, a, n + m)
<1>1. s \in Seq(Int) /\ t \in Seq(Int) /\ Len(s) = n /\ Len(t) = m
  BY DEF Row
<1>2. s \o t \in Seq(Int) /\ Len(s \o t) = n + m
  BY <1>1, ConcatProperties
<1>3. ASSUME NEW i \in 1 .. n + m PROVE (s \o t)[i] = a + i - 1
  <2>1. (s \o t)[i] = IF i <= n THEN s[i] ELSE t[i - n]
    BY <1>1, ConcatProperties
  <2>2. i <= n => s[i] = a + i - 1
    BY DEF Row
  <2>3. i > n => t[i - n] = (a + n) + (i - n) - 1
    BY DEF Row
  <2> QED
    BY <2>1, <2>2, <2>3
<1> QED
  BY <1>2, <1>3 DEF Row

\* The pages that are linked besides the sets before and after.
Limits(first, last, c, p, size, rot) ==
  /\ first \in Int /\ last \in Int
  /\ last <= p /\ last - first < size
  /\ c \in 1 .. p => 1 <= first /\ first <= c /\ c <= last
  /\ rot \/ size >= p => last - first + 1 = IF size <= p THEN size ELSE p

LEMMA FirstAndLast ==
  ASSUME NEW c \in Nat, NEW p \in Nat, NEW size \in Nat \ {0}, NEW rot \in BOOLEAN
  PROVE  Limits(P!FirstPage(c, p, size, rot), P!LastPage(P!FirstPage(c, p, size, rot), p, size),
                c, p, size, rot)
<1> DEFINE first == P!FirstPage(c, p, size, rot)
           last == P!LastPage(first, p, size)
           half == size \div 2
           from == IF c - half >= 1 THEN c - half ELSE 1
           least == IF from <= p - size + 1 THEN from ELSE p - size + 1
           q == (c + size - 1) \div size
<1>1. half \in Nat /\ half + 1 <= size /\ from \in Int
  OBVIOUS
<1>2. first = IF size >= p THEN 1 ELSE IF ~rot THEN (q - 1) * size + 1 ELSE least
  <2>1. P!Max({c - half, 1}) = from
    BY <1>1, GreaterIs
  <2>2. first = IF size >= p THEN 1 ELSE IF ~rot THEN (q - 1) * size + 1
                ELSE P!Min({P!Max({c - half, 1}), p - size + 1})
    BY Zenon DEF P!FirstPage
  <2> HIDE DEF from, first
  <2>3. P!Min({from, p - size + 1}) = least
    BY <1>1, LesserIs
  <2> HIDE DEF least, half, q
  <2> QED
    BY <2>1, <2>2, <2>3
<1>3. q \in Nat /\ size * q <= c + size - 1 /\ c + size - 1 < size * q + size
  <2>1. c + size - 1 \in Nat
    OBVIOUS
  <2> QED
    BY <2>1, DivisionIs
<1> HIDE DEF first, half, q
<1>4. first \in Int
  BY <1>1, <1>2, <1>3
<1>5. last = IF first + size - 1 <= p THEN first + size - 1 ELSE p
  BY <1>4, LesserIs DEF P!LastPage
<1> HIDE DEF last
<1>6. ASSUME size >= p PROVE Limits(first, last, c, p, size, rot)
  <2>1. first = 1
    BY <1>2, <1>6
  <2> QED
    BY <1>5, <1>6, <2>1 DEF Limits
<1>7. ASSUME ~(size >= p) /\ rot PROVE Limits(first, last, c, p, size, rot)
  <2>1. first = least
    BY <1>2, <1>7
  <2> QED
    BY <1>1, <1>5, <1>7, <2>1 DEF Limits
<1>8. ASSUME ~(size >= p) /\ ~rot PROVE Limits(first, last, c, p, size, rot)
  <2> DEFINE w == size * q
  <2>1. w \in Nat /\ w <= c + size - 1 /\ c + size - 1 < w + size
    BY <1>3
  <2>2. first = w - size + 1
    <3>1. first = (q - 1) * size + 1
      BY <1>2, <1>8
    <3> QED
      BY <1>3, <3>1
  <2>3. c \in 1 .. p => w >= size
    <3> SUFFICES ASSUME c \in 1 .. p PROVE w >= size
      OBVIOUS
    <3>1. q # 0
      BY <1>3
    <3> QED
      BY <1>3, <3>1
  <2> HIDE DEF w
  <2>4. rot = FALSE
    BY <1>8
  <2> QED
    BY <1>5, <1>8, <2>1, <2>2, <2>3, <2>4 DEF Limits
<1>9. Limits(first, last, c, p, size, rot)
  BY <1>6, <1>7, <1>8
<1> QED
  BY <1>9 DEF first, last

LEMMA RangeIs ==
  ASSUME NEW a \in Int, NEW n \in Int
  PROVE  [i \in 1 .. n |-> a + i - 1] \in Seq(Int)
<1>1. CASE n \in Nat
  BY <1>1, RowIs DEF Row
<1>2. CASE n \notin Nat
  <2>1. 1 .. n = 1 .. 0
    BY <1>2
  <2> QED
    BY <2>1, RowIs DEF Row
<1> QED
  BY <1>1, <1>2

Linked(links, c, p, size, rot) ==
  /\ links \in Seq(Int)
  /\ c \in 1 .. p =>
       \E a \in Int, n \in Nat :
         /\ Row(links, a, n) /\ 1 <= a /\ a <= c /\ c <= a + n - 1 /\ a + n - 1 <= p
         /\ n <= size + 2
         /\ rot => n = IF size <= p THEN size ELSE p

LEMMA WindowIs ==
  ASSUME NEW c \in Nat, NEW p \in Nat, NEW size \in Nat \ {0}, NEW rot \in BOOLEAN
  PROVE  Linked(P!Window(c, p, size, rot), c, p, size, rot)
<1> DEFINE first == P!FirstPage(c, p, size, rot)
           last == P!LastPage(first, p, size)
           n == last - first + 1
           numbers == [i \in 1 .. n |-> first + i - 1]
           before == IF first > 1 THEN <<first - 1>> ELSE <<>>
           after == IF last < p THEN <<last + 1>> ELSE <<>>
           links == P!Window(c, p, size, rot)
<1>1. Limits(first, last, c, p, size, rot)
  BY FirstAndLast
<1>2. links = IF size >= p \/ rot THEN numbers ELSE (before \o numbers) \o after
  BY Zenon DEF P!Window
<1> HIDE DEF first, last, links
<1>3. first \in Int /\ last \in Int /\ n \in Int
  BY <1>1 DEF Limits
<1>4. numbers \in Seq(Int)
  BY <1>3, RangeIs
<1>5. before \in Seq(Int) /\ after \in Seq(Int)
  BY <1>3
<1>6. links \in Seq(Int)
  <2> HIDE DEF before, after, numbers
  <2>1. before \o numbers \in Seq(Int)
    BY <1>4, <1>5
  <2>2. (before \o numbers) \o after \in Seq(Int)
    BY <1>5, <2>1
  <2> QED
    BY <1>2, <1>4, <2>2
<1>7. ASSUME c \in 1 .. p
      PROVE  \E a \in Int, k \in Nat :
               /\ Row(links, a, k) /\ 1 <= a /\ a <= c /\ c <= a + k - 1 /\ a + k - 1 <= p
               /\ k <= size + 2
               /\ rot => k = IF size <= p THEN size ELSE p
  <2>1. /\ 1 <= first /\ first <= c /\ c <= last /\ last <= p /\ n <= size /\ n \in Nat
        /\ rot \/ size >= p => n = IF size <= p THEN size ELSE p
    BY <1>1, <1>7 DEF Limits
  <2>2. Row(numbers, first, n)
    BY <1>3, <2>1, RowIs
  <2>3. CASE size >= p \/ rot
    <3>1. Row(links, first, n)
      BY <1>2, <2>2, <2>3
    <3>2. c <= first + n - 1 /\ first + n - 1 <= p /\ n <= size + 2
      BY <1>3, <2>1
    <3> HIDE DEF n
    <3> QED
      BY <1>3, <2>1, <3>1, <3>2
  <2>4. CASE ~(size >= p \/ rot)
    <3> DEFINE b == IF first > 1 THEN 1 ELSE 0
               e == IF last < p THEN 1 ELSE 0
    <3>1. Row(before, first - b, b) /\ first - b \in Int /\ b \in Nat
      BY <1>3, OneInRow, EmptyRow
    <3>2. Row(after, last + 1, e) /\ e \in Nat
      BY <1>3, OneInRow, EmptyRow
    <3> HIDE DEF before, after, numbers
    <3>3. Row(before \o numbers, first - b, b + n)
      <4>1. (first - b) + b = first
        BY <1>3
      <4> HIDE DEF b, n
      <4> QED
        BY <2>1, <2>2, <3>1, <4>1, RowsJoined
    <3>4. Row(links, first - b, (b + n) + e)
      <4>1. (first - b) + (b + n) = last + 1 /\ b + n \in Nat
        BY <1>3, <2>1
      <4>2. links = (before \o numbers) \o after
        BY <1>2, <2>4
      <4> HIDE DEF b, n, e
      <4> QED
        BY <3>1, <3>2, <3>3, <4>1, <4>2, RowsJoined
    <3>5. /\ 1 <= first - b /\ first - b <= c /\ c <= (first - b) + ((b + n) + e) - 1
          /\ (first - b) + ((b + n) + e) - 1 <= p
          /\ (b + n) + e <= size + 2 /\ (b + n) + e \in Nat
      BY <1>3, <2>1
    <3>6. rot = FALSE
      BY <2>4
    <3> DEFINE k == (b + n) + e
               a == first - b
    <3>7. a \in Int /\ k \in Nat /\ Row(links, a, k) /\ 1 <= a /\ a <= c /\ c <= a + k - 1 /\ a + k - 1 <= p /\ k <= size + 2
      BY <3>1, <3>4, <3>5
    <3> HIDE DEF a, k
    <3> QED
      BY <3>6, <3>7
  <2> QED
    BY <2>3, <2>4
<1>8. Linked(links, c, p, size, rot)
  BY <1>6, <1>7 DEF Linked
<1> QED
  BY <1>8 DEF links

-----------------------------------------------------------------------------
(* The widget of the pagination *)

PagerT == [page : Nat, self : Nat, totalPages : Nat, links : Seq(Int)]

PagesOf(items, per) == (items + per - 1) \div per

LEMMA PagesAre ==
  ASSUME NEW items \in Nat, NEW per \in Nat \ {0}
  PROVE  PagesOf(items, per) \in Nat /\ PagesOf(items, per) <= items
<1> DEFINE q == (items + per - 1) \div per
           w == per * q
<1>1. items + per - 1 \in Nat
  OBVIOUS
<1>2. q \in Nat /\ w <= items + per - 1
  BY <1>1, DivisionIs
<1>3. q > items => w >= per * (items + 1)
  BY <1>2
<1>4. per * (items + 1) = per * items + per /\ per * items >= items
  OBVIOUS
<1>5. w \in Nat /\ per * items \in Nat
  BY <1>2
<1> DEFINE v == per * items
<1> HIDE DEF q, w, v
<1>6. ~(q > items)
  BY <1>2, <1>3, <1>4, <1>5 DEF v
<1> QED
  BY <1>2, <1>6 DEF PagesOf, q

\* A digest, with the number of links as an argument.
DigestedPage(p, pages) == IF pages # p.totalPages /\ p.self > pages /\ pages > 0 THEN pages ELSE p.page

Digested(d, p, pages, size, rot) ==
  /\ d \in PagerT
  /\ d.totalPages = pages /\ d.page = DigestedPage(p, pages) /\ d.self = d.page
  /\ \/ d.links = P!Window(d.self, pages, size, rot)
     \/ d.links = p.links /\ d.self = p.self /\ (pages = p.totalPages \/ pages = 0)

RenderWith(p, size, rot) ==
  [p EXCEPT !.self = p.page, !.links = P!Window(p.page, p.totalPages, size, rot)]

DigestWith(p, pages, size, rot) ==
  LET beyond == pages # p.totalPages /\ p.self > pages
      selected == [p EXCEPT !.totalPages = pages, !.page = DigestedPage(p, pages)]
  IN IF (pages # p.totalPages /\ ~beyond) \/ selected.page # p.self
     THEN RenderWith(selected, size, rot) ELSE selected

LEMMA RenderWithIs ==
  ASSUME NEW p \in PagerT, NEW size \in Nat \ {0}, NEW rot \in BOOLEAN
  PROVE  LET d == RenderWith(p, size, rot) IN
         /\ d \in PagerT /\ d.page = p.page /\ d.self = p.page /\ d.totalPages = p.totalPages
         /\ d.links = P!Window(d.self, d.totalPages, size, rot)
<1> DEFINE links == P!Window(p.page, p.totalPages, size, rot)
<1>1. p.page \in Nat /\ p.totalPages \in Nat
  BY DEF PagerT
<1>2. links \in Seq(Int)
  BY <1>1, WindowIs DEF Linked
<1>3. RenderWith(p, size, rot) = [p EXCEPT !.self = p.page, !.links = links]
  BY DEF RenderWith
<1> HIDE DEF links
<1>4. LET d == RenderWith(p, size, rot) IN
      /\ d \in PagerT /\ d.page = p.page /\ d.self = p.page /\ d.totalPages = p.totalPages
      /\ d.links = links
  BY <1>1, <1>2, <1>3 DEF PagerT
<1> QED
  BY <1>4 DEF links

LEMMA DigestWithIs ==
  ASSUME NEW p \in PagerT, NEW pages \in Nat, NEW size \in Nat \ {0}, NEW rot \in BOOLEAN
  PROVE  Digested(DigestWith(p, pages, size, rot), p, pages, size, rot)
<1> DEFINE beyond == pages # p.totalPages /\ p.self > pages
           shownPage == DigestedPage(p, pages)
           s == [p EXCEPT !.totalPages = pages, !.page = shownPage]
           d == DigestWith(p, pages, size, rot)
<1>1. p.page \in Nat /\ p.self \in Nat /\ p.totalPages \in Nat /\ p.links \in Seq(Int)
  BY DEF PagerT
<1>2. shownPage \in Nat
  BY <1>1 DEF DigestedPage
<1>3. s \in PagerT /\ s.page = shownPage /\ s.self = p.self /\ s.totalPages = pages /\ s.links = p.links
  <2> HIDE DEF shownPage
  <2> QED
    BY <1>2 DEF PagerT
<1>4. d = IF (pages # p.totalPages /\ ~beyond) \/ s.page # p.self THEN RenderWith(s, size, rot) ELSE s
  BY DEF DigestWith
<1> HIDE DEF s, d, beyond
<1>5. CASE (pages # p.totalPages /\ ~beyond) \/ s.page # p.self
  <2>1. d = RenderWith(s, size, rot)
    BY <1>4, <1>5
  <2>2. /\ d \in PagerT /\ d.page = shownPage /\ d.self = shownPage /\ d.totalPages = pages
        /\ d.links = P!Window(d.self, d.totalPages, size, rot)
    BY <1>3, <2>1, RenderWithIs
  <2> QED
    BY <2>2 DEF Digested, d
<1>6. CASE ~((pages # p.totalPages /\ ~beyond) \/ s.page # p.self)
  <2>1. d = s /\ shownPage = p.self
    BY <1>3, <1>4, <1>6
  <2>2. pages = p.totalPages \/ pages = 0
    <3>1. pages # p.totalPages /\ pages # 0 => p.self > pages /\ pages > 0
      BY <1>6 DEF beyond
    <3>2. pages # p.totalPages /\ pages # 0 => shownPage = pages
      BY <3>1 DEF DigestedPage
    <3> QED
      BY <1>1, <2>1, <3>1, <3>2
  <2> QED
    BY <1>3, <2>1, <2>2 DEF Digested, d
<1> QED
  BY <1>5, <1>6

LEMMA DigestPagerIs ==
  ASSUME NEW p, NEW items, NEW per, NEW rot
  PROVE  P!DigestPager(p, items, per, rot) = DigestWith(p, PagesOf(items, per), MaxSize, rot)
BY DEF P!DigestPager, P!Render, P!PageToShow, P!CalculateTotalPages,
       DigestWith, RenderWith, PagesOf, DigestedPage

\* The pagination on the page of tags differs in its number of links only.
LEMMA SameWindow ==
  ASSUME NEW c, NEW p, NEW size, NEW rot
  PROVE  T!P!Window(c, p, size, rot) = P!Window(c, p, size, rot)
<1>1. \A S : T!P!Min(S) = P!Min(S) /\ T!P!Max(S) = P!Max(S)
  BY DEF T!P!Min, T!P!Max, P!Min, P!Max
<1>2. T!P!FirstPage(c, p, size, rot) = P!FirstPage(c, p, size, rot)
  BY <1>1, Zenon DEF T!P!FirstPage, P!FirstPage
<1>3. \A first : T!P!LastPage(first, p, size) = P!LastPage(first, p, size)
  BY <1>1, Zenon DEF T!P!LastPage, P!LastPage
<1> QED
  BY <1>2, <1>3, Zenon DEF T!P!Window, P!Window

LEMMA TagsDigestIs ==
  ASSUME NEW p, NEW items, NEW per, NEW rot
  PROVE  T!P!DigestPager(p, items, per, rot) = DigestWith(p, PagesOf(items, per), 9, rot)
<1>1. ASSUME NEW q PROVE T!P!Render(q, rot) = RenderWith(q, 9, rot)
  <2>1. T!P!Window(q.page, q.totalPages, 9, rot) = P!Window(q.page, q.totalPages, 9, rot)
    BY SameWindow
  <2> QED
    BY <2>1, Zenon DEF T!P!Render, RenderWith
<1>2. \A q : T!P!Render(q, rot) = RenderWith(q, 9, rot)
  BY <1>1
<1> QED
  BY <1>2 DEF T!P!DigestPager, T!P!PageToShow, T!P!CalculateTotalPages,
              DigestWith, PagesOf, DigestedPage

-----------------------------------------------------------------------------
(* The pagination on its own *)

PagerInv ==
  /\ total \in 0 .. MaxItems /\ perPage \in PerPage /\ rotate \in BOOLEAN
  /\ pager \in PagerT /\ pager.page \in 1 .. P!Max({MaxPage, MaxItems})
  /\ pager.totalPages = PagesOf(total, perPage)
  /\ pager.self \in 1 .. pager.totalPages =>
       pager.links = P!Window(pager.self, pager.totalPages, MaxSize, rotate)

LEMMA PagerInit == P!PgInit => PagerInv
<1> SUFFICES ASSUME P!PgInit PROVE PagerInv
  OBVIOUS
<1>1. total = 0 /\ perPage \in PerPage /\ rotate \in BOOLEAN
  BY DEF P!PgInit
<1>2. perPage \in Nat \ {0} /\ MaxItems \in Nat /\ MaxPage \in Nat /\ MaxSize \in Nat \ {0}
  BY <1>1, PagesAssumption
<1>3. PagesOf(total, perPage) = 0
  BY <1>1, <1>2, PagesAre
<1>4. PICK n \in 1 .. MaxPage :
        pager = P!Render([page |-> n, self |-> 0, totalPages |-> 0, links |-> <<>>], rotate)
  BY DEF P!PgInit
<1> DEFINE p == [page |-> n, self |-> 0, totalPages |-> 0, links |-> <<>>]
<1>5. p \in PagerT /\ p.page = n /\ p.totalPages = 0
  BY <1>2 DEF PagerT
<1>6. pager = RenderWith(p, MaxSize, rotate)
  BY <1>4 DEF P!Render, RenderWith
<1> HIDE DEF p
<1>7. /\ pager \in PagerT /\ pager.page = n /\ pager.totalPages = 0
      /\ pager.links = P!Window(pager.self, pager.totalPages, MaxSize, rotate)
  BY <1>1, <1>2, <1>5, <1>6, RenderWithIs
<1>8. n \in 1 .. P!Max({MaxPage, MaxItems})
  BY <1>2, GreaterIs
<1> QED
  BY <1>1, <1>2, <1>3, <1>7, <1>8 DEF PagerInv

\* Whatever was changed before: a digest makes the pager consistent again.
LEMMA DigestKeeps ==
  ASSUME PagerInv, NEW p \in PagerT, NEW items \in 0 .. MaxItems, NEW per \in PerPage,
         p.self = pager.self, p.totalPages = pager.totalPages, p.links = pager.links,
         p.page \in 1 .. P!Max({MaxPage, MaxItems}),
         pager' = P!DigestPager(p, items, per, rotate),
         total' = items, perPage' = per, rotate' = rotate
  PROVE  PagerInv'
<1> DEFINE pages == PagesOf(items, per)
<1>1. /\ per \in Nat \ {0} /\ items \in Nat /\ MaxSize \in Nat \ {0} /\ rotate \in BOOLEAN
      /\ MaxItems \in Nat /\ MaxPage \in Nat
  BY PagesAssumption DEF PagerInv
<1>2. pages \in Nat /\ pages <= MaxItems
  BY <1>1, PagesAre
<1>3. pager' = DigestWith(p, pages, MaxSize, rotate)
  BY DigestPagerIs
<1> HIDE DEF pages
<1>4. Digested(pager', p, pages, MaxSize, rotate)
  BY <1>1, <1>2, <1>3, DigestWithIs
<1>5. pager' \in PagerT /\ pager'.totalPages = pages
  BY <1>4 DEF Digested
<1>6. pager'.page \in 1 .. P!Max({MaxPage, MaxItems})
  <2>1. pager'.page = p.page \/ (pager'.page = pages /\ pages > 0)
    BY <1>4 DEF Digested, DigestedPage
  <2>2. P!Max({MaxPage, MaxItems}) \in Int /\ MaxItems <= P!Max({MaxPage, MaxItems})
    BY <1>1, GreaterIs
  <2> QED
    BY <1>1, <1>2, <2>1, <2>2
<1>7. ASSUME pager'.self \in 1 .. pager'.totalPages
      PROVE  pager'.links = P!Window(pager'.self, pager'.totalPages, MaxSize, rotate)
  <2>1. CASE pager'.links = P!Window(pager'.self, pages, MaxSize, rotate)
    BY <1>5, <2>1
  <2>2. CASE /\ pager'.links = p.links /\ pager'.self = p.self
             /\ pages = p.totalPages \/ pages = 0
    <3>1. pages # 0
      BY <1>5, <1>7
    <3>2. pager.self \in 1 .. pager.totalPages /\ pages = pager.totalPages
      BY <1>5, <1>7, <2>2, <3>1
    <3> QED
      BY <1>5, <2>2, <3>2 DEF PagerInv
  <2> QED
    BY <1>4, <2>1, <2>2 DEF Digested
<1> QED
  BY <1>1, <1>5, <1>6, <1>7 DEF PagerInv, pages

LEMMA PageAsked ==
  ASSUME PagerInv, NEW n \in Nat
  PROVE  LET p == [pager EXCEPT !.page = n] IN
         /\ p \in PagerT /\ p.page = n
         /\ p.self = pager.self /\ p.totalPages = pager.totalPages /\ p.links = pager.links
BY DEF PagerInv, PagerT

LEMMA PagerNext ==
  ASSUME PagerInv, P!PgNext
  PROVE  PagerInv'
<1>1. /\ pager \in PagerT /\ pager.page \in 1 .. P!Max({MaxPage, MaxItems})
      /\ total \in 0 .. MaxItems /\ perPage \in PerPage
  BY DEF PagerInv
<1>2. MaxItems \in Nat /\ MaxPage \in Nat /\ PerPage \subseteq Nat \ {0}
  BY PagesAssumption
<1>3. P!Max({MaxPage, MaxItems}) \in Int /\ MaxItems <= P!Max({MaxPage, MaxItems})
      /\ MaxPage <= P!Max({MaxPage, MaxItems})
  BY <1>2, GreaterIs
<1>4. ASSUME NEW n \in 1 .. P!Max({MaxPage, MaxItems}),
             pager' = P!DigestPager([pager EXCEPT !.page = n], total, perPage, rotate),
             UNCHANGED <<total, perPage, rotate>>
      PROVE  PagerInv'
  <2> DEFINE p == [pager EXCEPT !.page = n]
  <2>1. /\ p \in PagerT /\ p.page = n
        /\ p.self = pager.self /\ p.totalPages = pager.totalPages /\ p.links = pager.links
    <3>1. n \in Nat
      BY <1>3
    <3> QED
      BY <3>1, PageAsked
  <2>2. pager' = P!DigestPager(p, total, perPage, rotate)
    BY <1>4
  <2> HIDE DEF p
  <2> QED
    BY <1>1, <1>4, <2>1, <2>2, DigestKeeps
<1>5. ASSUME NEW n \in P!Links, P!SelectPage(n) PROVE PagerInv'
  <2>1. n \in Int
    <3>1. pager.links \in Seq(Int) /\ pager.self \in Nat /\ pager.totalPages \in Nat
      BY <1>1 DEF PagerT
    <3> QED
      BY <3>1 DEF P!Links, P!Range
  <2>2. pager.totalPages \in Nat /\ pager.totalPages <= MaxItems
    <3>1. pager.totalPages = PagesOf(total, perPage) /\ total \in Nat /\ perPage \in Nat \ {0}
      BY <1>2 DEF PagerInv
    <3>2. PagesOf(total, perPage) \in Nat /\ PagesOf(total, perPage) <= total
      BY <3>1, PagesAre
    <3> QED
      BY <1>1, <1>2, <3>1, <3>2
  <2>3. n \in 1 .. P!Max({MaxPage, MaxItems})
    BY <1>2, <1>3, <1>5, <2>1, <2>2 DEF P!SelectPage
  <2> QED
    BY <1>4, <1>5, <2>3 DEF P!SelectPage
<1>6. ASSUME NEW items \in 0 .. MaxItems, P!SetItems(items) PROVE PagerInv'
  BY <1>1, <1>6, DigestKeeps DEF P!SetItems
<1>7. ASSUME NEW per \in PerPage, P!SetPerPage(per) PROVE PagerInv'
  BY <1>1, <1>7, DigestKeeps DEF P!SetPerPage
<1>8. ASSUME NEW n \in 1 .. MaxPage, P!SetPage(n) PROVE PagerInv'
  <2>1. n \in 1 .. P!Max({MaxPage, MaxItems})
    BY <1>2, <1>3
  <2> QED
    BY <1>4, <1>8, <2>1 DEF P!SetPage
<1> QED
  BY <1>5, <1>6, <1>7, <1>8 DEF P!PgNext

\* The links are what the property says.
LEMMA LinksShow ==
  ASSUME PagerInv
  PROVE  P!CurrentPageLinked /\ P!LinksInARow
<1> SUFFICES ASSUME pager.self \in 1 .. pager.totalPages
             PROVE  P!CurrentPageLinked /\ P!LinksInARow
  BY DEF P!CurrentPageLinked, P!LinksInARow
<1> DEFINE links == pager.links
           c == pager.self
           p == pager.totalPages
<1>1. /\ c \in Nat /\ p \in Nat /\ c \in 1 .. p /\ rotate \in BOOLEAN /\ MaxSize \in Nat \ {0}
      /\ links = P!Window(c, p, MaxSize, rotate)
  BY PagesAssumption DEF PagerInv, PagerT
<1> HIDE DEF links, c, p
<1>2. Linked(links, c, p, MaxSize, rotate)
  BY <1>1, WindowIs
<1>3. PICK a \in Int, n \in Nat :
         /\ Row(links, a, n) /\ 1 <= a /\ a <= c /\ c <= a + n - 1 /\ a + n - 1 <= p
         /\ n <= MaxSize + 2
         /\ rotate => n = IF MaxSize <= p THEN MaxSize ELSE p
  BY <1>1, <1>2 DEF Linked
<1>4. links \in Seq(Int) /\ Len(links) = n /\ \A i \in 1 .. n : links[i] = a + i - 1
  BY <1>3 DEF Row
<1>5. c \in P!Range(links)
  <2>1. c - a + 1 \in 1 .. n /\ links[c - a + 1] = c
    BY <1>1, <1>3, <1>4
  <2> QED
    BY <1>4, <2>1 DEF P!Range
<1>6. P!Range(links) \subseteq 1 .. p
  <2> SUFFICES ASSUME NEW i \in DOMAIN links PROVE links[i] \in 1 .. p
    BY DEF P!Range
  <2>1. i \in 1 .. n
    BY <1>4
  <2> QED
    BY <1>1, <1>3, <1>4, <2>1
<1>7. \A i \in 1 .. Len(links) - 1 : links[i + 1] = links[i] + 1
  BY <1>3, <1>4
<1>8. rotate => Len(links) = P!Min({MaxSize, p})
  BY <1>1, <1>3, <1>4, LesserIs
<1>9. Len(links) <= MaxSize + 2
  BY <1>3, <1>4
<1>10. /\ pager.self \in P!Range(pager.links)
       /\ P!Range(pager.links) \subseteq 1 .. pager.totalPages
  BY <1>5, <1>6 DEF links, c, p
<1>11. P!CurrentPageLinked
  BY <1>10 DEF P!CurrentPageLinked
<1>12. P!LinksInARow
  BY <1>7, <1>8, <1>9 DEF P!LinksInARow, links, c, p
<1> QED
  BY <1>11, <1>12

LEMMA ShrinkingShows ==
  ASSUME PagerInv, NEW items \in 0 .. MaxItems, P!SetItems(items)
  PROVE  LET pages == P!CalculateTotalPages(items, perPage) IN
         IF pages # pager.totalPages /\ pager.self > pages /\ pages > 0
         THEN pager'.page = pages /\ pager'.self = pages
         ELSE pager'.page = pager.page
<1> DEFINE pages == PagesOf(items, perPage)
<1>1. items \in Nat /\ perPage \in Nat \ {0} /\ MaxSize \in Nat \ {0} /\ rotate \in BOOLEAN /\ pager \in PagerT
  BY PagesAssumption DEF PagerInv
<1>2. pages \in Nat
  BY <1>1, PagesAre
<1>3. pager' = DigestWith(pager, pages, MaxSize, rotate)
  BY DigestPagerIs DEF P!SetItems
<1>4. P!CalculateTotalPages(items, perPage) = pages
  BY DEF P!CalculateTotalPages, PagesOf
<1> HIDE DEF pages
<1>5. Digested(pager', pager, pages, MaxSize, rotate)
  BY <1>1, <1>2, <1>3, DigestWithIs
<1>6. pager'.page = DigestedPage(pager, pages) /\ pager'.self = pager'.page
  BY <1>5 DEF Digested
<1> QED
  BY <1>4, <1>6 DEF DigestedPage

-----------------------------------------------------------------------------
(* The page of tags: what its operators make of the page *)

LEMMA SameMessages ==
  /\ \A s : T!N!VisibleMessages(s) = M!VisibleMessages(s)
  /\ \A s, m : T!N!AddMessage(s, m) = M!AddMessage(s, m)
  /\ \A s, no : T!N!CloseMessage(s, no) = M!CloseMessage(s, no)
  /\ \A no, kind : T!N!Message(no, kind) = M!Message(no, kind)
<1>1. \A S : T!N!Cardinality(S) = M!Cardinality(S)
  BY DEF T!N!Cardinality, M!Cardinality
<1>2. \A S : T!N!Min(S) = M!Min(S)
  BY DEF T!N!Min, M!Min
<1>3. \A s, I : T!N!Kept(s, I) = M!Kept(s, I)
  <2> SUFFICES ASSUME NEW s, NEW I PROVE T!N!Kept(s, I) = M!Kept(s, I)
    OBVIOUS
  <2> DEFINE one(j) == CHOOSE i \in I : T!N!Cardinality({k \in I : k <= i}) = j
             two(j) == CHOOSE i \in I : M!Cardinality({k \in I : k <= i}) = j
  <2>1. ASSUME NEW j PROVE one(j) = two(j)
    BY <1>1
  <2>2. \A j : one(j) = two(j)
    BY <2>1
  <2>3. T!N!Kept(s, I) = [j \in 1 .. T!N!Cardinality(I) |-> s[one(j)]]
    BY Zenon DEF T!N!Kept
  <2>4. M!Kept(s, I) = [j \in 1 .. M!Cardinality(I) |-> s[two(j)]]
    BY Zenon DEF M!Kept
  <2> HIDE DEF one, two
  <2> QED
    BY <1>1, <2>2, <2>3, <2>4
<1>4. \A s, len : T!N!RemoveTemp(s, len) = M!RemoveTemp(s, len)
  BY <1>3, Zenon DEF T!N!RemoveTemp, M!RemoveTemp
<1>5. \A s : T!N!VisibleMessages(s) = M!VisibleMessages(s)
  BY <1>2, <1>4, Zenon DEF T!N!VisibleMessages, M!VisibleMessages
<1>6. \A s, m : T!N!AddMessage(s, m) = M!AddMessage(s, m)
  BY <1>4 DEF T!N!AddMessage, M!AddMessage
<1>7. \A s, no : T!N!CloseMessage(s, no) = M!CloseMessage(s, no)
  BY <1>3, Zenon DEF T!N!CloseMessage, M!CloseMessage
<1>8. \A no, kind : T!N!Message(no, kind) = M!Message(no, kind)
  BY DEF T!N!Message, M!Message
<1> QED
  BY <1>5, <1>6, <1>7, <1>8

Queries == T!Query \cup {T!NoResult.query}
ResultT == [no : Nat, query : Queries, total : Nat, version : Nat]
TagPageT ==
  [url : Queries, ctrl : Nat, here : BOOLEAN, loading : Nat, inProgress : BOOLEAN,
   result : ResultT, pager : PagerT, messages : Seq(MessageT), lastNo : Nat, timers : SUBSET Nat]
SearchT ==
  [ctrl : Nat, no : Nat, query : T!Query, stage : {"sent", "done"}, answer : ResultT]

LEMMA NoResultIs == T!NoResult \in ResultT /\ T!NoResult.no = 0 /\ T!NoResult.total = 0 /\ T!NoResult.version = 0
BY DEF ResultT, Queries, T!NoResult

LEMMA QueryPage ==
  ASSUME NEW q \in Queries
  PROVE  q.page \in Nat /\ q.page # 0
BY PagesAssumption DEF Queries, T!Query, T!NoResult

\* A page with messages of b and without those of the number no.
ClosedOf(c, b, no) ==
  /\ c \in TagPageT
  /\ c.url = b.url /\ c.ctrl = b.ctrl /\ c.here = b.here /\ c.loading = b.loading
  /\ c.inProgress = b.inProgress /\ c.result = b.result /\ c.pager = b.pager
  /\ c.lastNo = b.lastNo
  /\ Fewer(c.messages, b.messages) /\ \A j \in DOMAIN c.messages : c.messages[j].no # no

LEMMA TagsCloseIs ==
  ASSUME NEW b \in TagPageT, NEW no
  PROVE  ClosedOf(T!Close(b, no), b, no)
<1> DEFINE p == M!VisibleMessages(M!CloseMessage(b.messages, no))
<1>1. b.messages \in Seq(MessageT)
  BY DEF TagPageT
<1>2. Fewer(p, b.messages) /\ \A j \in DOMAIN p : p[j].no # no
  BY <1>1, CloseIs
<1>3. T!Close(b, no) = [b EXCEPT !.messages = p]
  BY SameMessages DEF T!Close
<1> HIDE DEF p
<1>4. p \in Seq(MessageT)
  BY <1>2 DEF Fewer
<1> DEFINE c == [b EXCEPT !.messages = p]
<1>5. /\ c \in TagPageT
      /\ c.url = b.url /\ c.ctrl = b.ctrl /\ c.here = b.here /\ c.loading = b.loading
      /\ c.inProgress = b.inProgress /\ c.result = b.result /\ c.pager = b.pager
      /\ c.lastNo = b.lastNo /\ c.messages = p
  BY <1>4 DEF TagPageT
<1> HIDE DEF c
<1>6. ClosedOf(c, b, no)
  BY <1>2, <1>5 DEF ClosedOf
<1> QED
  BY <1>3, <1>6 DEF c

\* A page with one message more, maybe without some of b.
NotifiedOf(c, b, kind) ==
  /\ c \in TagPageT
  /\ c.url = b.url /\ c.ctrl = b.ctrl /\ c.here = b.here /\ c.loading = b.loading
  /\ c.inProgress = b.inProgress /\ c.result = b.result /\ c.pager = b.pager
  /\ c.lastNo = b.lastNo + 1
  /\ \A j \in DOMAIN c.messages :
       \/ c.messages[j].no = b.lastNo + 1 /\ c.messages[j].kind = kind
       \/ \E i \in DOMAIN b.messages : c.messages[j] = b.messages[i]

LEMMA NotifiedIs ==
  ASSUME NEW b \in TagPageT, NEW kind \in {"info", "error"}
  PROVE  NotifiedOf(T!Notified(b, kind), b, kind)
<1> DEFINE m == M!Message(b.lastNo + 1, kind)
           p == M!VisibleMessages(M!AddMessage(b.messages, m))
           n == b.lastNo + 1
           t == IF kind = "error" THEN b.timers \cup {n} ELSE b.timers
<1>1. b.messages \in Seq(MessageT) /\ b.lastNo \in Nat /\ b.timers \in SUBSET Nat
  BY DEF TagPageT
<1>2. m \in MessageT /\ m.no = n /\ m.kind = kind
  <2>1. (kind = "done") \in BOOLEAN
    BY Zenon
  <2> QED
    BY <1>1, <2>1 DEF M!Message, MessageT
<1>3. T!Notified(b, kind) = [b EXCEPT !.lastNo = n, !.messages = p, !.timers = t]
  BY SameMessages DEF T!Notified
<1> HIDE DEF m
<1>4. p \in Seq(MessageT) /\ \A j \in DOMAIN p : p[j] = m \/ \E i \in DOMAIN b.messages : p[j] = b.messages[i]
  BY <1>1, <1>2, NotifyIs
<1>5. n \in Nat /\ t \in SUBSET Nat
  BY <1>1
<1> DEFINE c == [b EXCEPT !.lastNo = n, !.messages = p, !.timers = t]
<1> HIDE DEF p, n, t
<1>6. /\ c \in TagPageT
      /\ c.url = b.url /\ c.ctrl = b.ctrl /\ c.here = b.here /\ c.loading = b.loading
      /\ c.inProgress = b.inProgress /\ c.result = b.result /\ c.pager = b.pager
      /\ c.lastNo = n /\ c.messages = p
  BY <1>4, <1>5 DEF TagPageT
<1> HIDE DEF c
<1>7. \A j \in DOMAIN c.messages :
        \/ c.messages[j].no = n /\ c.messages[j].kind = kind
        \/ \E i \in DOMAIN b.messages : c.messages[j] = b.messages[i]
  BY <1>2, <1>4, <1>6
<1>8. NotifiedOf(c, b, kind)
  BY <1>6, <1>7 DEF NotifiedOf, n
<1> QED
  BY <1>3, <1>8 DEF c

\* t is rs with one more search at its end.
Sent(t, rs, ctrl, no, query) ==
  /\ t \in Seq(SearchT) /\ Len(t) = Len(rs) + 1
  /\ t[Len(t)].ctrl = ctrl /\ t[Len(t)].no = no /\ t[Len(t)].query = query
  /\ t[Len(t)].stage = "sent"
  /\ \A k \in DOMAIN rs : t[k] = rs[k]

\* The page of a search that was just started.
FoundOf(c, b) ==
  /\ c \in TagPageT
  /\ c.url = b.url /\ c.ctrl = b.ctrl /\ c.here = b.here /\ c.loading = b.lastNo + 1
  /\ c.inProgress /\ c.result = b.result /\ c.pager = b.pager
  /\ c.lastNo = b.lastNo + 1
  /\ \A j \in DOMAIN c.messages :
       \/ c.messages[j].no = b.lastNo + 1
       \/ \E i \in DOMAIN b.messages : c.messages[j] = b.messages[i]

LEMMA FindIs ==
  ASSUME NEW b \in TagPageT, NEW rs \in Seq(SearchT), b.url \in T!Query
  PROVE  /\ FoundOf(T!Find(b, rs).page, b)
         /\ Sent(T!Find(b, rs).searches, rs, b.ctrl, b.lastNo + 1, b.url)
<1> DEFINE told == T!Notified(b, "info")
           c == [told EXCEPT !.loading = told.lastNo, !.inProgress = TRUE]
           r == [ctrl |-> b.ctrl, no |-> told.lastNo, query |-> b.url, stage |-> "sent",
                 answer |-> T!NoResult]
           t == Append(rs, r)
<1>1. T!Find(b, rs).page = c /\ T!Find(b, rs).searches = t
  BY DEF T!Find, T!Both
<1>2. NotifiedOf(told, b, "info")
  BY NotifiedIs
<1>3. b.ctrl \in Nat /\ b.lastNo \in Nat
  BY DEF TagPageT
<1> HIDE DEF told
<1>4. told \in TagPageT /\ told.lastNo = b.lastNo + 1
  BY <1>2 DEF NotifiedOf
<1>5. /\ c \in TagPageT /\ c.loading = told.lastNo /\ c.inProgress = TRUE
      /\ c.url = told.url /\ c.ctrl = told.ctrl /\ c.here = told.here
      /\ c.result = told.result /\ c.pager = told.pager
      /\ c.lastNo = told.lastNo /\ c.messages = told.messages
  BY <1>4 DEF TagPageT
<1> HIDE DEF c
<1>6. FoundOf(c, b)
  BY <1>2, <1>5 DEF FoundOf, NotifiedOf
<1>7. r \in SearchT /\ r.ctrl = b.ctrl /\ r.no = b.lastNo + 1 /\ r.query = b.url /\ r.stage = "sent"
  BY <1>3, <1>4, NoResultIs DEF SearchT
<1> HIDE DEF r
<1>8. t \in Seq(SearchT) /\ Len(t) = Len(rs) + 1 /\ t[Len(t)] = r /\ \A k \in DOMAIN rs : t[k] = rs[k]
  BY <1>7
<1> HIDE DEF t
<1>9. Sent(t, rs, b.ctrl, b.lastNo + 1, b.url)
  BY <1>7, <1>8 DEF Sent
<1> QED
  BY <1>1, <1>6, <1>9

\* The page of a new controller, before it searches.
OpenedOf(c, b, q) ==
  /\ c \in TagPageT
  /\ c.url = q /\ c.ctrl = b.ctrl + 1 /\ c.here /\ c.loading = 0 /\ c.result = T!NoResult
  /\ c.pager.page = q.page /\ c.pager.self = q.page /\ c.pager.totalPages = 0
  /\ c.messages = b.messages /\ c.lastNo = b.lastNo

LEMMA NewPager ==
  ASSUME NEW n \in Nat \ {0}
  PROVE  LET p == [page |-> n, self |-> 0, totalPages |-> 0, links |-> <<>>]
             d == T!P!DigestPager(p, 0, 1, TRUE)
         IN d \in PagerT /\ d.page = n /\ d.self = n /\ d.totalPages = 0
<1> DEFINE p == [page |-> n, self |-> 0, totalPages |-> 0, links |-> <<>>]
           d == T!P!DigestPager(p, 0, 1, TRUE)
<1>1. p \in PagerT /\ p.page = n /\ p.self = 0 /\ p.totalPages = 0
  BY DEF PagerT
<1> HIDE DEF p
<1>2. PagesOf(0, 1) = 0
  BY DEF PagesOf
<1>3. d = DigestWith(p, 0, 9, TRUE)
  BY <1>2, TagsDigestIs
<1> HIDE DEF d
<1>4. Digested(d, p, 0, 9, TRUE)
  <2>1. 0 \in Nat /\ 9 \in Nat \ {0} /\ TRUE \in BOOLEAN
    OBVIOUS
  <2>2. Digested(DigestWith(p, 0, 9, TRUE), p, 0, 9, TRUE)
    BY <1>1, <2>1, DigestWithIs, Zenon
  <2> QED
    BY <1>3, <2>2, Zenon
<1>5. DigestedPage(p, 0) = n
  BY <1>1 DEF DigestedPage
<1> QED
  BY <1>4, <1>5 DEF Digested, d, p

\* What a controller does first.
Opened(b, q) ==
  LET pager0 == [page |-> q.page, self |-> 0, totalPages |-> 0, links |-> <<>>] IN
  [b EXCEPT !.url = q, !.ctrl = @ + 1, !.here = TRUE, !.loading = 0, !.result = T!NoResult,
            !.pager = T!P!DigestPager(pager0, 0, 1, TRUE)]

LEMMA OpenedIs ==
  ASSUME NEW b \in TagPageT, NEW q \in T!Query
  PROVE  OpenedOf(Opened(b, q), b, q)
<1> DEFINE d == T!P!DigestPager([page |-> q.page, self |-> 0, totalPages |-> 0, links |-> <<>>], 0, 1, TRUE)
           c == Opened(b, q)
<1>1. q \in Queries /\ b.ctrl \in Nat
  BY DEF Queries, TagPageT
<1>2. q.page \in Nat \ {0}
  BY <1>1, QueryPage
<1>3. d \in PagerT /\ d.page = q.page /\ d.self = q.page /\ d.totalPages = 0
  BY <1>2, NewPager
<1>4. c = [b EXCEPT !.url = q, !.ctrl = b.ctrl + 1, !.here = TRUE, !.loading = 0,
                    !.result = T!NoResult, !.pager = d]
  BY DEF Opened
<1> HIDE DEF d, c
<1> DEFINE n == b.ctrl + 1
           none == T!NoResult
<1>5. n \in Nat /\ none \in ResultT
  BY <1>1, NoResultIs
<1>6. c = [b EXCEPT !.url = q, !.ctrl = n, !.here = TRUE, !.loading = 0, !.result = none, !.pager = d]
  BY <1>4
<1> HIDE DEF n, none
<1>7. /\ c \in TagPageT
      /\ c.url = q /\ c.ctrl = n /\ c.here = TRUE /\ c.loading = 0 /\ c.result = none
      /\ c.pager = d /\ c.messages = b.messages /\ c.lastNo = b.lastNo
  BY <1>1, <1>3, <1>5, <1>6 DEF TagPageT
<1> QED
  BY <1>3, <1>7 DEF OpenedOf, n, none, c

LEMMA NewControllerIs ==
  ASSUME NEW b, NEW rs, NEW q
  PROVE  T!NewController(b, rs, q) = T!Find(Opened(b, q), rs)
BY DEF T!NewController, Opened

-----------------------------------------------------------------------------
(* The page of tags: its invariant *)

\* A page b, the requests rs of its controllers and the version v of what is stored.
Requests(b, rs, v) ==
  /\ b \in TagPageT /\ rs \in Seq(SearchT) /\ b.loading <= b.lastNo
  /\ \A k \in DOMAIN rs : rs[k].ctrl <= b.ctrl /\ rs[k].no \in 1 .. b.lastNo
  /\ \A k, l \in DOMAIN rs : rs[k].no = rs[l].no => k = l
  /\ \A k \in DOMAIN rs : rs[k].ctrl = b.ctrl => rs[k].query = b.url
  /\ \A k \in DOMAIN rs :
       rs[k].stage = "done" =>
         /\ rs[k].answer.no = rs[k].no /\ rs[k].answer.query = rs[k].query
         /\ rs[k].answer.total <= MaxEvents /\ rs[k].answer.version <= v
  /\ b.result.version <= v /\ b.result.total <= MaxEvents
  /\ b.here => b.url \in T!Query

\* The message of a search is there for a request on its way,
InfoOfRequest(b, rs) ==
  \A i \in DOMAIN b.messages :
    b.messages[i].kind = "info" => \E k \in DOMAIN rs : rs[k].no = b.messages[i].no

\* and no message for the searches of the controller but the last one.
NotShown(b, no) == \A i \in DOMAIN b.messages : b.messages[i].no # no
OldNotShown(b, rs) ==
  b.here => \A k \in DOMAIN rs :
              rs[k].ctrl = b.ctrl /\ rs[k].no # b.loading => NotShown(b, rs[k].no)

LastRequest(b, rs) ==
  b.here /\ b.inProgress => \E k \in DOMAIN rs : rs[k].ctrl = b.ctrl /\ rs[k].no = b.loading

\* The last search knows what is shown, or more.
NotOlder(b, rs) ==
  \A k \in DOMAIN rs :
    rs[k].ctrl = b.ctrl /\ rs[k].no = b.loading /\ rs[k].stage = "done" =>
      rs[k].answer.version >= b.result.version

\* Address, pagination and results.
View(b) ==
  /\ b.pager.page = b.url.page /\ b.pager.self = b.url.page
  /\ b.pager.totalPages = b.result.total
  /\ b.result.no # 0 => b.result.query = b.url
  /\ b.result.total > 0 => b.url.page <= b.result.total

TagsInv(b, rs, v) ==
  /\ Requests(b, rs, v) /\ InfoOfRequest(b, rs) /\ OldNotShown(b, rs)
  /\ LastRequest(b, rs) /\ NotOlder(b, rs) /\ View(b)

\* A search starts when none of the controller's is shown any more.
LEMMA FindKeeps ==
  ASSUME NEW b, NEW rs, NEW v \in Nat, Requests(b, rs, v), InfoOfRequest(b, rs), View(b), b.here,
         \A k \in DOMAIN rs : rs[k].ctrl = b.ctrl => NotShown(b, rs[k].no)
  PROVE  TagsInv(T!Find(b, rs).page, T!Find(b, rs).searches, v)
<1> DEFINE c == T!Find(b, rs).page
           t == T!Find(b, rs).searches
           n == b.lastNo + 1
<1>1. /\ b \in TagPageT /\ rs \in Seq(SearchT) /\ b.url \in T!Query
      /\ \A k \in DOMAIN rs : rs[k].ctrl <= b.ctrl /\ rs[k].no \in 1 .. b.lastNo
  BY DEF Requests
<1>2. FoundOf(c, b) /\ Sent(t, rs, b.ctrl, n, b.url)
  BY <1>1, FindIs
<1>3. b.ctrl \in Nat /\ b.lastNo \in Nat /\ n \in Nat
  BY <1>1 DEF TagPageT
<1> HIDE DEF c, t
<1>4. /\ c \in TagPageT
      /\ c.url = b.url /\ c.ctrl = b.ctrl /\ c.here = b.here /\ c.loading = n
      /\ c.inProgress /\ c.result = b.result /\ c.pager = b.pager /\ c.lastNo = n
  BY <1>2 DEF FoundOf
<1>5. \A j \in DOMAIN c.messages :
        c.messages[j].no = n \/ \E i \in DOMAIN b.messages : c.messages[j] = b.messages[i]
  BY <1>2 DEF FoundOf
<1>6. /\ t \in Seq(SearchT) /\ Len(t) = Len(rs) + 1
      /\ \A k \in DOMAIN rs : t[k] = rs[k]
      /\ t[Len(t)].ctrl = b.ctrl /\ t[Len(t)].no = n /\ t[Len(t)].query = b.url
      /\ t[Len(t)].stage = "sent"
  BY <1>2 DEF Sent
<1>7. Len(t) \in DOMAIN t /\ \A k \in DOMAIN t : k = Len(t) \/ k \in DOMAIN rs
  BY <1>1, <1>6
<1>8. DOMAIN rs \subseteq DOMAIN t
  BY <1>1, <1>6
<1> HIDE DEF n
<1>9. \A k \in DOMAIN rs : rs[k].no # n
  BY <1>1, <1>3 DEF n
<1>10. Requests(c, t, v)
  <2>1. c.loading <= c.lastNo
    BY <1>3, <1>4
  <2>2. \A k \in DOMAIN t : t[k].ctrl <= c.ctrl /\ t[k].no \in 1 .. c.lastNo
    BY <1>1, <1>3, <1>4, <1>6, <1>7 DEF n
  <2>3. \A k, l \in DOMAIN t : t[k].no = t[l].no => k = l
    BY <1>6, <1>7, <1>9 DEF Requests
  <2>4. \A k \in DOMAIN t : t[k].ctrl = c.ctrl => t[k].query = c.url
    BY <1>4, <1>6, <1>7 DEF Requests
  <2>5. \A k \in DOMAIN t :
          t[k].stage = "done" =>
            /\ t[k].answer.no = t[k].no /\ t[k].answer.query = t[k].query
            /\ t[k].answer.total <= MaxEvents /\ t[k].answer.version <= v
    BY <1>6, <1>7 DEF Requests
  <2>6. c.result.version <= v /\ c.result.total <= MaxEvents /\ (c.here => c.url \in T!Query)
    BY <1>4 DEF Requests
  <2> QED
    BY <1>4, <1>6, <2>1, <2>2, <2>3, <2>4, <2>5, <2>6 DEF Requests
<1>11. InfoOfRequest(c, t)
  <2> SUFFICES ASSUME NEW j \in DOMAIN c.messages, c.messages[j].kind = "info"
               PROVE  \E k \in DOMAIN t : t[k].no = c.messages[j].no
    BY DEF InfoOfRequest
  <2>1. CASE c.messages[j].no = n
    BY <1>6, <1>7, <2>1
  <2>2. CASE \E i \in DOMAIN b.messages : c.messages[j] = b.messages[i]
    <3>1. \E k \in DOMAIN rs : rs[k].no = c.messages[j].no
      BY <2>2 DEF InfoOfRequest
    <3> QED
      BY <1>6, <1>8, <3>1
  <2> QED
    BY <1>5, <2>1, <2>2
<1>12. OldNotShown(c, t)
  <2> SUFFICES ASSUME NEW k \in DOMAIN t, t[k].ctrl = c.ctrl, t[k].no # c.loading
               PROVE  NotShown(c, t[k].no)
    BY DEF OldNotShown
  <2>1. k \in DOMAIN rs /\ t[k] = rs[k] /\ rs[k].ctrl = b.ctrl /\ rs[k].no # n
    BY <1>4, <1>6, <1>7
  <2>2. NotShown(b, rs[k].no)
    BY <2>1
  <2> QED
    BY <1>5, <2>1, <2>2 DEF NotShown
<1>13. LastRequest(c, t)
  BY <1>4, <1>6, <1>7 DEF LastRequest
<1>14. NotOlder(c, t)
  BY <1>4, <1>6, <1>7, <1>9 DEF NotOlder
<1>15. View(c)
  BY <1>4 DEF View
<1> QED
  BY <1>10, <1>11, <1>12, <1>13, <1>14, <1>15 DEF TagsInv, c, t

LEMMA NewControllerKeeps ==
  ASSUME NEW b, NEW rs, NEW v \in Nat, NEW q \in T!Query, Requests(b, rs, v), InfoOfRequest(b, rs)
  PROVE  TagsInv(T!NewController(b, rs, q).page, T!NewController(b, rs, q).searches, v)
<1> DEFINE c == Opened(b, q)
<1>1. b \in TagPageT /\ rs \in Seq(SearchT) /\ q \in Queries /\ b.ctrl \in Nat /\ b.lastNo \in Nat
  BY DEF Requests, Queries, TagPageT
<1>2. OpenedOf(c, b, q)
  BY <1>1, OpenedIs
<1> HIDE DEF c
<1>3. /\ c \in TagPageT
      /\ c.url = q /\ c.ctrl = b.ctrl + 1 /\ c.here /\ c.loading = 0 /\ c.result = T!NoResult
      /\ c.pager.page = q.page /\ c.pager.self = q.page /\ c.pager.totalPages = 0
      /\ c.messages = b.messages /\ c.lastNo = b.lastNo
  BY <1>2 DEF OpenedOf
<1>4. \A k \in DOMAIN rs : rs[k].ctrl \in Nat /\ rs[k].ctrl # c.ctrl /\ rs[k].ctrl <= c.ctrl
  <2>1. \A k \in DOMAIN rs : rs[k].ctrl \in Nat /\ rs[k].ctrl <= b.ctrl
    <3>1. \A k \in DOMAIN rs : rs[k] \in SearchT
      BY <1>1
    <3>2. \A k \in DOMAIN rs : rs[k].ctrl \in Nat
      BY <3>1 DEF SearchT
    <3>3. \A k \in DOMAIN rs : rs[k].ctrl <= b.ctrl
      BY Zenon DEF Requests
    <3> QED
      BY <3>2, <3>3
  <2> QED
    BY <1>1, <1>3, <2>1
<1>5. Requests(c, rs, v)
  <2>1. c.result.version <= v /\ c.result.total <= MaxEvents /\ MaxEvents \in Nat
    BY <1>3, NoResultIs, PagesAssumption
  <2>2. c.loading <= c.lastNo
    BY <1>1, <1>3
  <2> QED
    BY <1>1, <1>3, <1>4, <2>1, <2>2 DEF Requests
<1>6. InfoOfRequest(c, rs)
  BY <1>3 DEF InfoOfRequest
<1>7. View(c)
  BY <1>3, NoResultIs DEF View
<1>8. TagsInv(T!Find(c, rs).page, T!Find(c, rs).searches, v)
  BY <1>3, <1>4, <1>5, <1>6, <1>7, FindKeeps
<1> QED
  BY <1>8, NewControllerIs DEF c

\* Closing a message disturbs nothing.
LEMMA TagsCloseKeeps ==
  ASSUME NEW b, NEW rs, NEW v, NEW no, NEW c, ClosedOf(c, b, no), b \in TagPageT
  PROVE  /\ Requests(b, rs, v) => Requests(c, rs, v)
         /\ InfoOfRequest(b, rs) => InfoOfRequest(c, rs)
         /\ OldNotShown(b, rs) => OldNotShown(c, rs)
         /\ LastRequest(b, rs) => LastRequest(c, rs)
         /\ NotOlder(b, rs) => NotOlder(c, rs)
         /\ View(b) => View(c)
         /\ TagsInv(b, rs, v) => TagsInv(c, rs, v)
         /\ NotShown(c, no)
<1>1. /\ c \in TagPageT
      /\ c.url = b.url /\ c.ctrl = b.ctrl /\ c.here = b.here /\ c.loading = b.loading
      /\ c.inProgress = b.inProgress /\ c.result = b.result /\ c.pager = b.pager
      /\ c.lastNo = b.lastNo
      /\ \A j \in DOMAIN c.messages : c.messages[j].no # no
      /\ \A j \in DOMAIN c.messages : \E i \in DOMAIN b.messages : c.messages[j] = b.messages[i]
  BY DEF ClosedOf, Fewer
<1>2. Requests(b, rs, v) => Requests(c, rs, v)
  BY <1>1 DEF Requests
<1>3. InfoOfRequest(b, rs) => InfoOfRequest(c, rs)
  BY <1>1 DEF InfoOfRequest
<1>4. OldNotShown(b, rs) => OldNotShown(c, rs)
  <2>1. \A n : NotShown(b, n) => NotShown(c, n)
    BY <1>1 DEF NotShown
  <2> QED
    BY <1>1, <2>1 DEF OldNotShown
<1>5. LastRequest(b, rs) => LastRequest(c, rs)
  BY <1>1 DEF LastRequest
<1>6. NotOlder(b, rs) => NotOlder(c, rs)
  BY <1>1 DEF NotOlder
<1>7. View(b) => View(c)
  BY <1>1 DEF View
<1>8. NotShown(c, no)
  BY <1>1 DEF NotShown
<1> QED
  BY <1>2, <1>3, <1>4, <1>5, <1>6, <1>7, <1>8 DEF TagsInv

\* A search of a page that is there: what was shown of its controller is closed first.
LEMMA SearchKeeps ==
  ASSUME NEW b, NEW rs, NEW v \in Nat, NEW q \in T!Query,
         Requests(b, rs, v), InfoOfRequest(b, rs), OldNotShown(b, rs), b.here, q = b.url => View(b)
  PROVE  TagsInv(T!Search(b, rs, q).page, T!Search(b, rs, q).searches, v)
<1> DEFINE c == IF b.loading # 0 THEN T!Close(b, b.loading) ELSE b
<1>1. b \in TagPageT /\ rs \in Seq(SearchT)
  BY DEF Requests
<1>2. T!Search(b, rs, q) = IF q = b.url THEN T!Find(c, rs) ELSE T!NewController(c, rs, q)
  BY DEF T!Search
<1>3. /\ Requests(c, rs, v) /\ InfoOfRequest(c, rs) /\ c.here /\ c.ctrl = b.ctrl
      /\ (q = b.url => View(c))
      /\ \A k \in DOMAIN rs : rs[k].ctrl = c.ctrl => NotShown(c, rs[k].no)
  <2>1. CASE b.loading # 0
    <3>1. c = T!Close(b, b.loading)
      BY <2>1
    <3> HIDE DEF c
    <3>2. ClosedOf(c, b, b.loading)
      BY <1>1, <3>1, TagsCloseIs
    <3>3. /\ Requests(c, rs, v) /\ InfoOfRequest(c, rs) /\ OldNotShown(c, rs)
          /\ (View(b) => View(c)) /\ NotShown(c, b.loading)
      BY <1>1, <3>2, TagsCloseKeeps
    <3>4. c.here /\ c.ctrl = b.ctrl /\ c.loading = b.loading
      BY <3>2 DEF ClosedOf
    <3>5. \A k \in DOMAIN rs : rs[k].ctrl = c.ctrl => NotShown(c, rs[k].no)
      <4> SUFFICES ASSUME NEW k \in DOMAIN rs, rs[k].ctrl = c.ctrl PROVE NotShown(c, rs[k].no)
        OBVIOUS
      <4>1. CASE rs[k].no = b.loading
        BY <3>3, <4>1
      <4>2. CASE rs[k].no # b.loading
        BY <3>3, <3>4, <4>2, Zenon DEF OldNotShown
      <4> QED
        BY <4>1, <4>2
    <3> QED
      BY <3>3, <3>4, <3>5
  <2>2. CASE b.loading = 0
    <3>1. \A k \in DOMAIN rs : rs[k].no # 0
      BY DEF Requests
    <3>2. \A k \in DOMAIN rs : rs[k].ctrl = b.ctrl => NotShown(b, rs[k].no)
      BY <2>2, <3>1 DEF OldNotShown
    <3> QED
      BY <2>2, <3>2
  <2> QED
    BY <2>1, <2>2
<1> HIDE DEF c
<1>4. CASE q = b.url
  <2>1. TagsInv(T!Find(c, rs).page, T!Find(c, rs).searches, v)
    BY <1>3, <1>4, FindKeeps
  <2> QED
    BY <1>2, <1>4, <2>1
<1>5. CASE q # b.url
  <2>1. TagsInv(T!NewController(c, rs, q).page, T!NewController(c, rs, q).searches, v)
    BY <1>3, NewControllerKeeps
  <2> QED
    BY <1>2, <1>5, <2>1
<1> QED
  BY <1>4, <1>5

\* Results are those of before unless the controller is another one.
LEMMA SearchTurns ==
  ASSUME NEW b \in TagPageT, NEW rs \in Seq(SearchT), NEW q \in T!Query, b.url \in T!Query
  PROVE  LET c == T!Search(b, rs, q).page IN
         IF q = b.url THEN c.ctrl = b.ctrl /\ c.result = b.result ELSE c.ctrl = b.ctrl + 1
<1> DEFINE a == IF b.loading # 0 THEN T!Close(b, b.loading) ELSE b
           o == Opened(a, q)
<1>1. T!Search(b, rs, q) = IF q = b.url THEN T!Find(a, rs) ELSE T!NewController(a, rs, q)
  BY DEF T!Search
<1>2. a \in TagPageT /\ a.ctrl = b.ctrl /\ a.result = b.result /\ a.url = b.url
  <2>1. ClosedOf(T!Close(b, b.loading), b, b.loading)
    BY TagsCloseIs
  <2> QED
    BY <2>1 DEF ClosedOf
<1> HIDE DEF a
<1>3. OpenedOf(o, a, q)
  BY <1>2, OpenedIs
<1> HIDE DEF o
<1>4. o \in TagPageT /\ o.ctrl = b.ctrl + 1 /\ o.url = q
  BY <1>2, <1>3 DEF OpenedOf
<1>5. FoundOf(T!Find(a, rs).page, a) /\ FoundOf(T!Find(o, rs).page, o)
  BY <1>2, <1>4, FindIs
<1>6. /\ T!Find(a, rs).page.ctrl = b.ctrl /\ T!Find(a, rs).page.result = b.result
      /\ T!Find(o, rs).page.ctrl = b.ctrl + 1
  BY <1>2, <1>4, <1>5 DEF FoundOf
<1>7. T!NewController(a, rs, q) = T!Find(o, rs)
  BY NewControllerIs DEF o
<1> QED
  BY <1>1, <1>6, <1>7

\* rest is rs without its member k.
Gone(rest, rs, k) ==
  /\ rest \in Seq(SearchT)
  /\ \A i \in DOMAIN rs : i # k => \E j \in DOMAIN rest : rest[j] = rs[i]
  /\ \A j \in DOMAIN rest : \E i \in DOMAIN rs : i # k /\ rest[j] = rs[i]
  /\ \A i, j \in DOMAIN rest, n \in DOMAIN rs : i # j /\ rest[i] = rs[n] =>
       \E m \in DOMAIN rs : m # n /\ rest[j] = rs[m]

Without(s, i) == SubSeq(s, 1, i - 1) \o SubSeq(s, i + 1, Len(s))

LEMMA WithoutIs ==
  ASSUME NEW T0, NEW s \in Seq(T0), NEW i \in DOMAIN s
  PROVE  LET r == Without(s, i) IN
         /\ r \in Seq(T0) /\ Len(r) = Len(s) - 1 /\ Len(s) - 1 \in Nat
         /\ \A j \in 1 .. Len(s) - 1 : r[j] = IF j < i THEN s[j] ELSE s[j + 1]
<1> DEFINE a == SubSeq(s, 1, i - 1)
           b == SubSeq(s, i + 1, Len(s))
<1>1. a \in Seq(T0) /\ Len(a) = i - 1 /\ \A j \in 1 .. i - 1 : a[j] = s[j]
  OBVIOUS
<1>2. b \in Seq(T0) /\ Len(b) = Len(s) - i /\ \A j \in 1 .. Len(s) - i : b[j] = s[i + j]
  OBVIOUS
<1>3. Without(s, i) = a \o b
  BY DEF Without
<1>4. Len(s) \in Nat /\ i \in 1 .. Len(s)
  OBVIOUS
<1> HIDE DEF a, b
<1>5. a \o b \in Seq(T0) /\ Len(a \o b) = Len(s) - 1
  <2>1. a \o b \in Seq(T0) /\ Len(a \o b) = Len(a) + Len(b)
    BY <1>1, <1>2, ConcatProperties
  <2> QED
    BY <1>1, <1>2, <1>4, <2>1
<1>6. ASSUME NEW j \in 1 .. Len(s) - 1
      PROVE  (a \o b)[j] = IF j < i THEN s[j] ELSE s[j + 1]
  <2>1. (a \o b)[j] = IF j < i THEN a[j] ELSE b[j - (i - 1)]
    BY <1>1, <1>2, ConcatProperties
  <2>2. j >= i => j - (i - 1) \in 1 .. Len(s) - i /\ b[j - (i - 1)] = s[j + 1]
    BY <1>2
  <2> QED
    BY <1>1, <2>1, <2>2
<1>7. Len(s) - 1 \in Nat
  BY <1>4
<1> QED
  BY <1>3, <1>5, <1>6, <1>7

LEMMA GoneIs ==
  ASSUME NEW rs \in Seq(SearchT), NEW k \in DOMAIN rs,
         \A i, j \in DOMAIN rs : rs[i].no = rs[j].no => i = j
  PROVE  Gone(T!Without(rs, k), rs, k)
<1> DEFINE rest == Without(rs, k)
           n == Len(rs)
<1>1. T!Without(rs, k) = rest
  BY DEF T!Without, Without
<1>2. /\ rest \in Seq(SearchT) /\ Len(rest) = n - 1
      /\ \A j \in 1 .. n - 1 : rest[j] = IF j < k THEN rs[j] ELSE rs[j + 1]
  BY WithoutIs
<1>3. n \in Nat /\ DOMAIN rs = 1 .. n /\ k \in 1 .. n
  OBVIOUS
<1> HIDE DEF rest, n
<1>4. DOMAIN rest = 1 .. n - 1
  BY <1>2
<1>5. ASSUME NEW i \in DOMAIN rs, i # k PROVE \E j \in DOMAIN rest : rest[j] = rs[i]
  <2>1. CASE i < k
    BY <1>2, <1>3, <1>4, <2>1
  <2>2. CASE i > k
    <3>1. i - 1 \in 1 .. n - 1 /\ ~(i - 1 < k) /\ (i - 1) + 1 = i
      BY <1>3, <2>2
    <3>2. rest[i - 1] = rs[i]
      BY <1>2, <3>1
    <3> QED
      BY <1>4, <3>1, <3>2
  <2> QED
    BY <1>3, <1>5, <2>1, <2>2
<1>6. ASSUME NEW j \in DOMAIN rest
      PROVE  \E i \in DOMAIN rs : i # k /\ rest[j] = rs[i]
  <2>1. CASE j < k
    BY <1>2, <1>3, <1>4, <2>1
  <2>2. CASE ~(j < k)
    <3>1. j + 1 \in 1 .. n /\ j + 1 # k /\ rest[j] = rs[j + 1]
      BY <1>2, <1>3, <1>4, <2>2
    <3> QED
      BY <1>3, <3>1
  <2> QED
    BY <2>1, <2>2
<1>7. ASSUME NEW i \in DOMAIN rest, NEW j \in DOMAIN rest, NEW m \in DOMAIN rs, i # j, rest[i] = rs[m]
      PROVE  \E l \in DOMAIN rs : l # m /\ rest[j] = rs[l]
  <2> DEFINE place(h) == IF h < k THEN h ELSE h + 1
  <2>1. place(i) # place(j) /\ place(i) \in DOMAIN rs /\ place(j) \in DOMAIN rs
    BY <1>3, <1>4, <1>7
  <2>2. rest[i] = rs[place(i)] /\ rest[j] = rs[place(j)]
    BY <1>2, <1>4
  <2> HIDE DEF place
  <2>3. m = place(i)
    BY <1>7, <2>1, <2>2
  <2> QED
    BY <2>1, <2>2, <2>3
<1> QED
  BY <1>1, <1>2, <1>5, <1>6, <1>7 DEF Gone

\* An answer that has come: the request goes, and its message must not be shown.
LEMMA RemoveKeeps ==
  ASSUME NEW b, NEW rs, NEW v, NEW k \in DOMAIN rs, NEW rest, Gone(rest, rs, k),
         Requests(b, rs, v), InfoOfRequest(b, rs), OldNotShown(b, rs), NotShown(b, rs[k].no)
  PROVE  /\ Requests(b, rest, v) /\ InfoOfRequest(b, rest) /\ OldNotShown(b, rest)
         /\ NotOlder(b, rs) => NotOlder(b, rest)
         /\ LastRequest(b, rs) /\ ~(rs[k].ctrl = b.ctrl /\ rs[k].no = b.loading) => LastRequest(b, rest)
<1>1. /\ \A j \in DOMAIN rest : \E i \in DOMAIN rs : i # k /\ rest[j] = rs[i]
      /\ \A i \in DOMAIN rs : i # k => \E j \in DOMAIN rest : rest[j] = rs[i]
      /\ rest \in Seq(SearchT)
  BY DEF Gone
<1>2. Requests(b, rest, v)
  <2>1. \A j, l \in DOMAIN rest : rest[j].no = rest[l].no => j = l
    <3> SUFFICES ASSUME NEW j \in DOMAIN rest, NEW l \in DOMAIN rest, j # l PROVE rest[j].no # rest[l].no
      OBVIOUS
    <3>1. PICK n \in DOMAIN rs : rest[j] = rs[n]
      BY <1>1
    <3>2. PICK m \in DOMAIN rs : m # n /\ rest[l] = rs[m]
      BY <3>1 DEF Gone
    <3> QED
      BY <3>1, <3>2 DEF Requests
  <2>2. \A j \in DOMAIN rest : rest[j].ctrl <= b.ctrl /\ rest[j].no \in 1 .. b.lastNo
    BY <1>1 DEF Requests
  <2>3. \A j \in DOMAIN rest : rest[j].ctrl = b.ctrl => rest[j].query = b.url
    BY <1>1 DEF Requests
  <2>4. \A j \in DOMAIN rest :
          rest[j].stage = "done" =>
            /\ rest[j].answer.no = rest[j].no /\ rest[j].answer.query = rest[j].query
            /\ rest[j].answer.total <= MaxEvents /\ rest[j].answer.version <= v
    BY <1>1 DEF Requests
  <2> QED
    BY <1>1, <2>1, <2>2, <2>3, <2>4 DEF Requests
<1>3. InfoOfRequest(b, rest)
  <2> SUFFICES ASSUME NEW i \in DOMAIN b.messages, b.messages[i].kind = "info"
               PROVE  \E j \in DOMAIN rest : rest[j].no = b.messages[i].no
    BY DEF InfoOfRequest
  <2>1. PICK n \in DOMAIN rs : rs[n].no = b.messages[i].no
    BY DEF InfoOfRequest
  <2>2. n # k
    BY <2>1 DEF NotShown
  <2> QED
    BY <1>1, <2>1, <2>2
<1>4. OldNotShown(b, rest)
  BY <1>1 DEF OldNotShown
<1>5. NotOlder(b, rs) => NotOlder(b, rest)
  BY <1>1 DEF NotOlder
<1>6. LastRequest(b, rs) /\ ~(rs[k].ctrl = b.ctrl /\ rs[k].no = b.loading) => LastRequest(b, rest)
  BY <1>1 DEF LastRequest
<1> QED
  BY <1>2, <1>3, <1>4, <1>5, <1>6

LEMMA ShownKeeps ==
  ASSUME NEW b, NEW rs, NEW v \in Nat, NEW k \in DOMAIN rs, NEW rest, Gone(rest, rs, k),
         TagsInv(b, rs, v), b.here, rs[k].ctrl = b.ctrl, rs[k].no = b.loading, rs[k].stage = "done"
  PROVE  /\ TagsInv(T!Shown(b, rest, rs[k]).page, T!Shown(b, rest, rs[k]).searches, v)
         /\ T!Shown(b, rest, rs[k]).page.ctrl = b.ctrl =>
              T!Shown(b, rest, rs[k]).page.result.version >= b.result.version
<1> DEFINE r == rs[k]
           answer == r.answer
           a == [b EXCEPT !.inProgress = FALSE, !.result = answer]
           done == T!Close(a, r.no)
           n == answer.total
           pager0 == T!P!DigestPager(b.pager, n, 1, TRUE)
           told == [done EXCEPT !.pager = pager0]
           next == [b.url EXCEPT !.page = pager0.page]
<1>1. /\ b \in TagPageT /\ rs \in Seq(SearchT) /\ r \in SearchT /\ b.url \in T!Query
      /\ answer.no = r.no /\ answer.query = r.query /\ answer.total <= MaxEvents
      /\ answer.version <= v /\ r.query = b.url
      /\ answer.version >= b.result.version
  BY DEF TagsInv, Requests, NotOlder
<1>2. /\ b.pager \in PagerT /\ b.ctrl \in Nat /\ b.url \in Queries
      /\ answer \in ResultT /\ n \in Nat /\ MaxEvents \in Nat
  BY <1>1, PagesAssumption DEF TagPageT, SearchT, ResultT
<1>3. /\ b.pager.page = b.url.page /\ b.pager.self = b.url.page
      /\ b.pager.totalPages = b.result.total
      /\ b.result.total > 0 => b.url.page <= b.result.total
  BY DEF TagsInv, View
<1>4. /\ T!Shown(b, rest, r).page = (IF pager0.page = b.pager.page THEN told ELSE T!Search(told, rest, next).page)
      /\ T!Shown(b, rest, r).searches = (IF pager0.page = b.pager.page THEN rest ELSE T!Search(told, rest, next).searches)
  BY DEF T!Shown, T!Both
<1> HIDE DEF r
<1>5. /\ a \in TagPageT
      /\ a.url = b.url /\ a.ctrl = b.ctrl /\ a.here = b.here /\ a.loading = b.loading
      /\ a.inProgress = FALSE /\ a.result = answer /\ a.pager = b.pager
      /\ a.lastNo = b.lastNo /\ a.messages = b.messages
  BY <1>1, <1>2 DEF TagPageT
<1> HIDE DEF a, answer
<1>6. ClosedOf(done, a, r.no)
  BY <1>5, TagsCloseIs
<1> HIDE DEF done
<1>7. Requests(a, rs, v) /\ InfoOfRequest(a, rs) /\ OldNotShown(a, rs)
  <2>1. Requests(a, rs, v)
    BY <1>1, <1>5 DEF TagsInv, Requests, n
  <2>2. InfoOfRequest(a, rs)
    BY <1>5 DEF TagsInv, InfoOfRequest
  <2>3. OldNotShown(a, rs)
    BY <1>5 DEF TagsInv, OldNotShown, NotShown
  <2> QED
    BY <2>1, <2>2, <2>3
<1>8. Requests(done, rs, v) /\ InfoOfRequest(done, rs) /\ OldNotShown(done, rs) /\ NotShown(done, r.no)
  BY <1>5, <1>6, <1>7, TagsCloseKeeps
<1>9. Requests(done, rest, v) /\ InfoOfRequest(done, rest) /\ OldNotShown(done, rest)
  BY <1>8, RemoveKeeps DEF r
<1>10. /\ done \in TagPageT /\ done.url = b.url /\ done.ctrl = b.ctrl /\ done.here /\ done.loading = r.no
       /\ done.inProgress = FALSE /\ done.result = answer
  BY <1>5, <1>6 DEF ClosedOf, r
<1>11. Digested(pager0, b.pager, n, 9, TRUE)
  <2>1. PagesOf(n, 1) = n
    BY <1>2 DEF PagesOf
  <2>2. pager0 = DigestWith(b.pager, n, 9, TRUE)
    BY <2>1, TagsDigestIs
  <2>3. 9 \in Nat \ {0} /\ TRUE \in BOOLEAN
    OBVIOUS
  <2> HIDE DEF pager0, n
  <2> QED
    BY <1>2, <2>2, <2>3, DigestWithIs
<1> HIDE DEF pager0
<1>12. /\ pager0 \in PagerT /\ pager0.totalPages = n /\ pager0.self = pager0.page
       /\ pager0.page = DigestedPage(b.pager, n)
  BY <1>11 DEF Digested
<1>13. /\ told \in TagPageT /\ told.url = b.url /\ told.ctrl = b.ctrl /\ told.here /\ told.loading = r.no
       /\ told.inProgress = FALSE /\ told.result = answer /\ told.pager = pager0
       /\ told.messages = done.messages /\ told.lastNo = done.lastNo
  BY <1>10, <1>12 DEF TagPageT
<1> HIDE DEF told
<1>14. Requests(told, rest, v) /\ InfoOfRequest(told, rest) /\ OldNotShown(told, rest)
  <2>1. Requests(told, rest, v)
    BY <1>9, <1>10, <1>13 DEF Requests
  <2>2. InfoOfRequest(told, rest)
    BY <1>9, <1>13 DEF InfoOfRequest
  <2>3. OldNotShown(told, rest)
    BY <1>9, <1>10, <1>13 DEF OldNotShown, NotShown
  <2> QED
    BY <2>1, <2>2, <2>3
<1>15. CASE pager0.page = b.pager.page
  <2>1. LastRequest(told, rest)
    BY <1>13 DEF LastRequest
  <2>2. NotOlder(told, rest)
    <3> SUFFICES ASSUME NEW j \in DOMAIN rest, rest[j].no = r.no PROVE FALSE
      BY <1>13 DEF NotOlder
    <3>1. PICK i \in DOMAIN rs : i # k /\ rest[j] = rs[i]
      BY DEF Gone
    <3>2. rs[i].no = rs[k].no
      BY <3>1 DEF r
    <3> QED
      BY <3>1, <3>2 DEF TagsInv, Requests
  <2>3. n > 0 => b.url.page <= n
    <3>1. b.pager.self \in Nat /\ b.url.page \in Nat /\ b.pager.totalPages \in Nat
      BY <1>2 DEF PagerT, T!Query, Queries, T!NoResult
    <3>2. CASE n = b.pager.totalPages
      BY <1>3, <3>2
    <3>3. CASE n # b.pager.totalPages
      BY <1>2, <1>3, <1>12, <1>15, <3>1, <3>3 DEF DigestedPage
    <3> QED
      BY <3>2, <3>3
  <2>4. View(told)
    BY <1>1, <1>3, <1>12, <1>13, <1>15, <2>3 DEF View, n
  <2>5. TagsInv(told, rest, v)
    BY <1>14, <2>1, <2>2, <2>4 DEF TagsInv
  <2>6. T!Shown(b, rest, r).page = told /\ T!Shown(b, rest, r).searches = rest
    BY <1>4, <1>15
  <2>7. told.result.version >= b.result.version
    BY <1>1, <1>13
  <2> QED
    BY <2>5, <2>6, <2>7 DEF r
<1>16. CASE pager0.page # b.pager.page
  <2>1. pager0.page = n /\ n > 0
    BY <1>12, <1>16 DEF DigestedPage
  <2>2. b.url.filter \in Filter /\ b.url.page \in 1 .. MaxEvents + 1 /\ b.url = [filter |-> b.url.filter, page |-> b.url.page]
    BY <1>1 DEF T!Query
  <2>3. next \in T!Query /\ next.page = n
    <3>1. n \in 1 .. MaxEvents + 1
      BY <1>1, <1>2, <2>1
    <3>2. next = [b.url EXCEPT !.page = n]
      BY <2>1
    <3> HIDE DEF next, n
    <3> QED
      BY <1>1, <3>1, <3>2 DEF T!Query
  <2>4. next # b.url
    BY <1>3, <1>16, <2>1, <2>3
  <2> HIDE DEF next
  <2>5. TagsInv(T!Search(told, rest, next).page, T!Search(told, rest, next).searches, v)
    BY <1>13, <1>14, <2>3, <2>4, SearchKeeps
  <2>6. T!Search(told, rest, next).page.ctrl = b.ctrl + 1
    <3>1. rest \in Seq(SearchT)
      BY DEF Gone
    <3> QED
      BY <1>1, <1>13, <2>3, <2>4, <3>1, SearchTurns
  <2>7. b.ctrl + 1 # b.ctrl
    BY <1>2
  <2>8. T!Shown(b, rest, r).page = T!Search(told, rest, next).page /\ T!Shown(b, rest, r).searches = T!Search(told, rest, next).searches
    BY <1>4, <1>16
  <2> QED
    BY <2>5, <2>6, <2>7, <2>8 DEF r
<1> QED
  BY <1>15, <1>16

\* An answer nobody waits for.
LEMMA DroppedKeeps ==
  ASSUME NEW b, NEW rs, NEW v \in Nat, NEW k \in DOMAIN rs, NEW rest, Gone(rest, rs, k),
         TagsInv(b, rs, v), ~(b.here /\ rs[k].ctrl = b.ctrl /\ rs[k].no = b.loading)
  PROVE  LET c == T!Dropped(b, rs[k]) IN
         TagsInv(c, rest, v) /\ c.ctrl = b.ctrl /\ c.result = b.result
<1> DEFINE r == rs[k]
           c == T!Dropped(b, rs[k])
<1>1. b \in TagPageT
  BY DEF TagsInv, Requests
<1>2. c = IF r.ctrl = b.ctrl /\ b.here THEN b ELSE T!Close(b, r.no)
  BY DEF T!Dropped
<1> HIDE DEF c
<1>3. /\ TagsInv(c, rs, v) /\ NotShown(c, r.no) /\ c.ctrl = b.ctrl /\ c.result = b.result
      /\ c.here = b.here /\ c.loading = b.loading
  <2>1. CASE r.ctrl = b.ctrl /\ b.here
    <3>1. NotShown(b, r.no)
      BY <2>1 DEF TagsInv, OldNotShown
    <3> QED
      BY <1>2, <2>1, <3>1
  <2>2. CASE ~(r.ctrl = b.ctrl /\ b.here)
    <3>1. c = T!Close(b, r.no)
      BY <1>2, <2>2
    <3> HIDE DEF r
    <3>2. ClosedOf(c, b, r.no)
      BY <1>1, <3>1, TagsCloseIs
    <3>3. TagsInv(c, rs, v) /\ NotShown(c, r.no)
      BY <1>1, <3>2, TagsCloseKeeps
    <3> QED
      BY <3>2, <3>3 DEF ClosedOf
  <2> QED
    BY <2>1, <2>2
<1>4. Requests(c, rs, v) /\ InfoOfRequest(c, rs) /\ OldNotShown(c, rs) /\ LastRequest(c, rs) /\ NotOlder(c, rs) /\ View(c)
  BY <1>3 DEF TagsInv
<1>5. /\ Requests(c, rest, v) /\ InfoOfRequest(c, rest) /\ OldNotShown(c, rest) /\ NotOlder(c, rest)
      /\ ~(r.ctrl = c.ctrl /\ r.no = c.loading) => LastRequest(c, rest)
  BY <1>3, <1>4, RemoveKeeps
<1>6. LastRequest(c, rest)
  <2>1. CASE c.here
    BY <1>3, <1>5, <2>1
  <2>2. CASE ~c.here
    BY <2>2 DEF LastRequest
  <2> QED
    BY <2>1, <2>2
<1>7. TagsInv(c, rest, v)
  BY <1>4, <1>5, <1>6 DEF TagsInv
<1> QED
  BY <1>3, <1>7 DEF c

-----------------------------------------------------------------------------
(* The page of tags: its steps *)

TagsPart ==
  /\ found \in [Filter -> 0 .. MaxEvents] /\ version \in 0 .. MaxStored
  /\ TagsInv(tagPage, tagSearches, version)

\* Results of one controller are never older than before.
Forward == tagPage'.ctrl = tagPage.ctrl => tagPage'.result.version >= tagPage.result.version

LEMMA TagsTypes ==
  ASSUME TagsPart
  PROVE  /\ tagPage \in TagPageT /\ tagSearches \in Seq(SearchT)
         /\ version \in Nat /\ MaxStored \in Nat /\ MaxEvents \in Nat
         /\ tagPage.ctrl \in Nat /\ tagPage.lastNo \in Nat /\ tagPage.result.version \in Nat
         /\ tagPage.here => tagPage.url \in T!Query
<1>1. tagPage \in TagPageT /\ tagSearches \in Seq(SearchT) /\ (tagPage.here => tagPage.url \in T!Query)
  BY DEF TagsPart, TagsInv, Requests
<1>2. version \in Nat /\ MaxStored \in Nat /\ MaxEvents \in Nat
  BY PagesAssumption DEF TagsPart
<1>3. tagPage.result.version \in Nat
  BY <1>1 DEF TagPageT, ResultT
<1> QED
  BY <1>1, <1>2, <1>3 DEF TagPageT

LEMMA TagsInit == T!TgInit => TagsPart
<1> SUFFICES ASSUME T!TgInit PROVE TagsPart
  OBVIOUS
<1>1. /\ found = [f \in Filter |-> MaxEvents] /\ version = 0 /\ tagSearches = <<>>
      /\ tagPage = [url |-> T!NoResult.query, ctrl |-> 0, here |-> FALSE, loading |-> 0,
             inProgress |-> FALSE, result |-> T!NoResult,
             pager |-> [page |-> 1, self |-> 1, totalPages |-> 0, links |-> <<>>],
             messages |-> <<>>, lastNo |-> 0, timers |-> {}]
  BY DEF T!TgInit
<1>2. [page |-> 1, self |-> 1, totalPages |-> 0, links |-> <<>>] \in PagerT
  BY DEF PagerT
<1>3. T!NoResult \in ResultT /\ T!NoResult.query \in Queries /\ T!NoResult.no = 0 /\ T!NoResult.total = 0 /\ T!NoResult.version = 0
  BY NoResultIs DEF Queries
<1>4. T!NoResult.query.page = 1
  BY DEF T!NoResult
<1> DEFINE none == T!NoResult
           query == T!NoResult.query
<1> HIDE DEF none, query
<1>5. tagPage \in TagPageT
  <2>1. <<>> \in Seq(MessageT)
    OBVIOUS
  <2> QED
    BY <1>1, <1>2, <1>3, <2>1 DEF TagPageT
<1>6. tagSearches \in Seq(SearchT) /\ DOMAIN tagSearches = {}
  BY <1>1
<1>7. /\ tagPage.here = FALSE /\ tagPage.loading = 0 /\ tagPage.lastNo = 0 /\ tagPage.result = T!NoResult
      /\ tagPage.messages = <<>> /\ tagPage.url = T!NoResult.query
      /\ tagPage.pager.page = 1 /\ tagPage.pager.self = 1 /\ tagPage.pager.totalPages = 0
  BY <1>1
<1>8. MaxEvents \in Nat /\ MaxStored \in Nat
  BY PagesAssumption
<1>9. Requests(tagPage, tagSearches, version)
  BY <1>1, <1>3, <1>5, <1>6, <1>7, <1>8 DEF Requests
<1>10. InfoOfRequest(tagPage, tagSearches) /\ OldNotShown(tagPage, tagSearches)
       /\ LastRequest(tagPage, tagSearches) /\ NotOlder(tagPage, tagSearches)
  BY <1>6, <1>7 DEF InfoOfRequest, OldNotShown, LastRequest, NotOlder
<1>11. View(tagPage)
  BY <1>3, <1>4, <1>7 DEF View
<1> QED
  BY <1>1, <1>8, <1>9, <1>10, <1>11 DEF TagsPart, TagsInv

LEMMA TagsPrimed ==
  ASSUME TagsInv(tagPage', tagSearches', version'),
         found' \in [Filter -> 0 .. MaxEvents], version' \in 0 .. MaxStored
  PROVE  TagsPart'
BY DEF TagsPart, TagsInv, Requests, InfoOfRequest, OldNotShown, LastRequest, NotOlder, View, NotShown

LEMMA NavigateKeeps ==
  ASSUME TagsPart, NEW q \in T!Query, T!Navigate(q)
  PROVE  TagsPart' /\ Forward
<1> DEFINE next == T!NewController(tagPage, tagSearches, q)
<1>1. tagPage' = next.page /\ tagSearches' = next.searches /\ UNCHANGED <<found, version>>
  BY DEF T!Navigate, T!Become
<1>2. version \in Nat /\ tagPage \in TagPageT /\ tagSearches \in Seq(SearchT) /\ tagPage.ctrl \in Nat
  BY TagsTypes
<1>3. TagsInv(next.page, next.searches, version)
  BY <1>2, NewControllerKeeps DEF TagsPart, TagsInv
<1>4. next.page.ctrl = tagPage.ctrl + 1
  <2> DEFINE o == Opened(tagPage, q)
  <2>1. OpenedOf(o, tagPage, q)
    BY <1>2, OpenedIs
  <2> HIDE DEF o
  <2>2. FoundOf(T!Find(o, tagSearches).page, o)
    BY <1>2, <2>1, FindIs DEF OpenedOf
  <2>3. next = T!Find(o, tagSearches)
    BY NewControllerIs DEF o
  <2> QED
    BY <2>1, <2>2, <2>3 DEF OpenedOf, FoundOf
<1> HIDE DEF next
<1>5. TagsInv(tagPage', tagSearches', version')
  BY <1>1, <1>3
<1>6. Forward
  BY <1>1, <1>2, <1>4 DEF Forward
<1> QED
  BY <1>1, <1>5, <1>6, TagsPrimed DEF TagsPart

LEMMA LeaveKeeps ==
  ASSUME TagsPart, T!Leave
  PROVE  TagsPart' /\ Forward
<1>1. /\ tagPage \in TagPageT /\ tagPage' = [tagPage EXCEPT !.here = FALSE]
      /\ tagSearches' = tagSearches /\ UNCHANGED <<found, version>>
  BY TagsTypes DEF T!Leave
<1> DEFINE b == tagPage
           c == tagPage'
<1>2. /\ c \in TagPageT
      /\ c.url = b.url /\ c.ctrl = b.ctrl /\ c.here = FALSE /\ c.loading = b.loading
      /\ c.result = b.result /\ c.pager = b.pager
      /\ c.messages = b.messages /\ c.lastNo = b.lastNo
  BY <1>1 DEF TagPageT
<1> HIDE DEF c
<1>3. /\ Requests(b, tagSearches, version) /\ InfoOfRequest(b, tagSearches)
      /\ NotOlder(b, tagSearches) /\ View(b)
  BY DEF TagsPart, TagsInv
<1> HIDE DEF b
<1>4. Requests(c, tagSearches, version)
  BY <1>2, <1>3 DEF Requests
<1>5. InfoOfRequest(c, tagSearches)
  BY <1>2, <1>3 DEF InfoOfRequest
<1>6. OldNotShown(c, tagSearches) /\ LastRequest(c, tagSearches)
  BY <1>2 DEF OldNotShown, LastRequest
<1>7. NotOlder(c, tagSearches)
  BY <1>2, <1>3 DEF NotOlder
<1>8. View(c)
  BY <1>2, <1>3 DEF View
<1>9. TagsInv(c, tagSearches, version)
  BY <1>4, <1>5, <1>6, <1>7, <1>8 DEF TagsInv
<1>10. TagsInv(tagPage', tagSearches', version')
  BY <1>1, <1>9 DEF c
<1>11. Forward
  BY <1>2, TagsTypes DEF Forward, b, c
<1> QED
  BY <1>1, <1>10, <1>11, TagsPrimed DEF TagsPart

LEMMA NewSearchKeeps ==
  ASSUME TagsPart, NEW f \in Filter, T!NewSearch(f)
  PROVE  TagsPart' /\ Forward
<1> DEFINE q == [filter |-> f, page |-> 1]
           next == T!Search(tagPage, tagSearches, q)
<1>1. tagPage' = next.page /\ tagSearches' = next.searches /\ UNCHANGED <<found, version>> /\ tagPage.here
  BY DEF T!NewSearch, T!Become
<1>2. version \in Nat /\ tagPage \in TagPageT /\ tagSearches \in Seq(SearchT) /\ tagPage.url \in T!Query
      /\ tagPage.ctrl \in Nat /\ tagPage.result.version \in Nat
  BY <1>1, TagsTypes
<1>3. q \in T!Query
  BY PagesAssumption DEF T!Query
<1> HIDE DEF q
<1>4. TagsInv(next.page, next.searches, version)
  BY <1>1, <1>2, <1>3, SearchKeeps DEF TagsPart, TagsInv
<1>5. IF q = tagPage.url THEN next.page.ctrl = tagPage.ctrl /\ next.page.result = tagPage.result
      ELSE next.page.ctrl = tagPage.ctrl + 1
  BY <1>2, <1>3, SearchTurns
<1> HIDE DEF next
<1>6. TagsInv(tagPage', tagSearches', version')
  BY <1>1, <1>4
<1>7. Forward
  BY <1>1, <1>2, <1>5 DEF Forward
<1> QED
  BY <1>1, <1>6, <1>7, TagsPrimed DEF TagsPart

LEMMA SetPageKeeps ==
  ASSUME TagsPart, NEW n \in 1 .. MaxEvents, T!SetPage(n)
  PROVE  TagsPart' /\ Forward
<1> DEFINE b == [tagPage EXCEPT !.pager.page = n]
           q == [tagPage.url EXCEPT !.page = n]
           next == T!Search(b, tagSearches, q)
<1>1. /\ tagPage' = next.page /\ tagSearches' = next.searches /\ UNCHANGED <<found, version>>
      /\ tagPage.here /\ n # tagPage.pager.self
  BY DEF T!SetPage, T!Become
<1>2. version \in Nat /\ tagPage \in TagPageT /\ tagSearches \in Seq(SearchT) /\ tagPage.url \in T!Query
      /\ tagPage.ctrl \in Nat /\ MaxEvents \in Nat /\ n \in Nat /\ tagPage.pager \in PagerT
  BY <1>1, TagsTypes DEF TagPageT
<1>3. q \in T!Query /\ q.page = n
  BY <1>2 DEF T!Query
<1>4. q # tagPage.url
  BY <1>1, <1>3 DEF TagsPart, TagsInv, View
<1> HIDE DEF q
<1>5. /\ b \in TagPageT
      /\ b.url = tagPage.url /\ b.ctrl = tagPage.ctrl /\ b.here /\ b.loading = tagPage.loading
      /\ b.result = tagPage.result /\ b.messages = tagPage.messages /\ b.lastNo = tagPage.lastNo
  <2> DEFINE p == [tagPage.pager EXCEPT !.page = n]
  <2>1. p \in PagerT
    BY <1>2 DEF PagerT
  <2>2. b = [tagPage EXCEPT !.pager = p]
    BY <1>2 DEF TagPageT
  <2> HIDE DEF p, b
  <2> QED
    BY <1>1, <1>2, <2>1, <2>2 DEF TagPageT
<1> HIDE DEF b
<1>6. Requests(b, tagSearches, version) /\ InfoOfRequest(b, tagSearches) /\ OldNotShown(b, tagSearches)
  <2>1. Requests(tagPage, tagSearches, version) /\ InfoOfRequest(tagPage, tagSearches) /\ OldNotShown(tagPage, tagSearches)
    BY DEF TagsPart, TagsInv
  <2>2. Requests(b, tagSearches, version)
    BY <1>2, <1>5, <2>1 DEF Requests
  <2>3. InfoOfRequest(b, tagSearches)
    BY <1>5, <2>1 DEF InfoOfRequest
  <2>4. OldNotShown(b, tagSearches)
    BY <1>1, <1>5, <2>1 DEF OldNotShown, NotShown
  <2> QED
    BY <2>2, <2>3, <2>4
<1>7. TagsInv(next.page, next.searches, version)
  BY <1>2, <1>3, <1>4, <1>5, <1>6, SearchKeeps
<1>8. next.page.ctrl = tagPage.ctrl + 1
  BY <1>2, <1>3, <1>4, <1>5, SearchTurns
<1> HIDE DEF next
<1>9. TagsInv(tagPage', tagSearches', version')
  BY <1>1, <1>7
<1>10. Forward
  BY <1>1, <1>2, <1>8 DEF Forward
<1> QED
  BY <1>1, <1>9, <1>10, TagsPrimed DEF TagsPart

LEMMA SuccessKeeps ==
  ASSUME TagsPart, NEW k \in DOMAIN tagSearches, T!Success(k)
  PROVE  TagsPart' /\ Forward
<1> DEFINE r == tagSearches[k]
           rest == T!Without(tagSearches, k)
           last == tagPage.here /\ r.ctrl = tagPage.ctrl /\ r.no = tagPage.loading
<1>1. /\ r.stage = "done" /\ UNCHANGED <<found, version>>
      /\ T!Become(IF last THEN T!Shown(tagPage, rest, r) ELSE T!Both(T!Dropped(tagPage, r), rest))
  BY DEF T!Success, T!IsLast
<1>2. /\ version \in Nat /\ tagPage \in TagPageT /\ tagSearches \in Seq(SearchT)
      /\ tagPage.result.version \in Nat /\ TagsInv(tagPage, tagSearches, version)
  BY TagsTypes DEF TagsPart
<1>3. Gone(rest, tagSearches, k)
  BY <1>2, GoneIs DEF TagsInv, Requests
<1> HIDE DEF rest
<1>4. CASE last
  <2>1. tagPage' = T!Shown(tagPage, rest, r).page /\ tagSearches' = T!Shown(tagPage, rest, r).searches
    BY <1>1, <1>4 DEF T!Become
  <2>2. /\ TagsInv(T!Shown(tagPage, rest, r).page, T!Shown(tagPage, rest, r).searches, version)
        /\ T!Shown(tagPage, rest, r).page.ctrl = tagPage.ctrl =>
             T!Shown(tagPage, rest, r).page.result.version >= tagPage.result.version
    BY <1>1, <1>2, <1>3, <1>4, ShownKeeps
  <2>3. TagsInv(tagPage', tagSearches', version') /\ Forward
    BY <1>1, <2>1, <2>2 DEF Forward
  <2> QED
    BY <1>1, <2>3, TagsPrimed DEF TagsPart
<1>5. CASE ~last
  <2>1. tagPage' = T!Dropped(tagPage, r) /\ tagSearches' = rest
    BY <1>1, <1>5 DEF T!Become, T!Both
  <2>2. TagsInv(T!Dropped(tagPage, r), rest, version) /\ T!Dropped(tagPage, r).result = tagPage.result
    BY <1>2, <1>3, <1>5, DroppedKeeps
  <2>3. TagsInv(tagPage', tagSearches', version') /\ Forward
    BY <1>1, <1>2, <2>1, <2>2 DEF Forward
  <2> QED
    BY <1>1, <2>3, TagsPrimed DEF TagsPart
<1> QED
  BY <1>4, <1>5

LEMMA NotifiedKeeps ==
  ASSUME NEW b, NEW rs, NEW v, TagsInv(b, rs, v), NEW c, NotifiedOf(c, b, "error")
  PROVE  TagsInv(c, rs, v)
<1>1. /\ Requests(b, rs, v) /\ InfoOfRequest(b, rs) /\ OldNotShown(b, rs)
      /\ LastRequest(b, rs) /\ NotOlder(b, rs) /\ View(b)
  BY DEF TagsInv
<1>2. /\ b \in TagPageT /\ b.lastNo \in Nat /\ b.loading \in Nat
  BY <1>1 DEF Requests, TagPageT
<1>3. /\ c \in TagPageT
      /\ c.url = b.url /\ c.ctrl = b.ctrl /\ c.here = b.here /\ c.loading = b.loading
      /\ c.inProgress = b.inProgress /\ c.result = b.result /\ c.pager = b.pager
      /\ c.lastNo = b.lastNo + 1
  BY DEF NotifiedOf
<1>4. \A j \in DOMAIN c.messages :
        \/ c.messages[j].no = b.lastNo + 1 /\ c.messages[j].kind = "error"
        \/ \E i \in DOMAIN b.messages : c.messages[j] = b.messages[i]
  BY DEF NotifiedOf
<1>5. Requests(c, rs, v)
  <2>1. \A k \in DOMAIN rs : rs[k].ctrl <= c.ctrl /\ rs[k].no \in 1 .. c.lastNo
    BY <1>1, <1>2, <1>3 DEF Requests
  <2>2. c.loading <= c.lastNo
    BY <1>1, <1>2, <1>3 DEF Requests
  <2> QED
    BY <1>1, <1>3, <2>1, <2>2 DEF Requests
<1>6. InfoOfRequest(c, rs)
  <2> SUFFICES ASSUME NEW j \in DOMAIN c.messages, c.messages[j].kind = "info"
               PROVE  \E k \in DOMAIN rs : rs[k].no = c.messages[j].no
    BY DEF InfoOfRequest
  <2>1. \E i \in DOMAIN b.messages : c.messages[j] = b.messages[i]
    BY <1>4
  <2> QED
    BY <1>1, <2>1 DEF InfoOfRequest
<1>7. OldNotShown(c, rs)
  <2> SUFFICES ASSUME c.here, NEW k \in DOMAIN rs, rs[k].ctrl = c.ctrl, rs[k].no # c.loading,
                      NEW j \in DOMAIN c.messages
               PROVE  c.messages[j].no # rs[k].no
    BY DEF OldNotShown, NotShown
  <2>1. NotShown(b, rs[k].no)
    BY <1>1, <1>3 DEF OldNotShown
  <2>2. rs[k].no # b.lastNo + 1
    BY <1>1, <1>2 DEF Requests
  <2> QED
    BY <1>4, <2>1, <2>2 DEF NotShown
<1>8. LastRequest(c, rs)
  BY <1>1, <1>3 DEF LastRequest
<1>9. NotOlder(c, rs)
  BY <1>1, <1>3 DEF NotOlder
<1>10. View(c)
  BY <1>1, <1>3 DEF View
<1> QED
  BY <1>5, <1>6, <1>7, <1>8, <1>9, <1>10 DEF TagsInv

LEMMA FailedKeeps ==
  ASSUME TagsPart, NEW k \in DOMAIN tagSearches, NEW rest, Gone(rest, tagSearches, k)
  PROVE  LET c == T!Failed(tagSearches[k]) IN
         TagsInv(c, rest, version) /\ c.ctrl = tagPage.ctrl /\ c.result = tagPage.result
<1> DEFINE r == tagSearches[k]
           b == tagPage
           rs == tagSearches
           last == b.here /\ r.ctrl = b.ctrl /\ r.no = b.loading
           a == [b EXCEPT !.inProgress = FALSE]
           c == T!Failed(r)
<1>1. b \in TagPageT /\ TagsInv(b, rs, version) /\ version \in Nat
  BY TagsTypes DEF TagsPart
<1>2. c = IF last THEN T!Close(a, r.no) ELSE T!Dropped(b, r)
  BY DEF T!Failed, T!IsLast
<1> HIDE DEF c
<1>3. CASE last
  <2>1. c = T!Close(a, r.no)
    BY <1>2, <1>3
  <2>2. /\ a \in TagPageT
        /\ a.url = b.url /\ a.ctrl = b.ctrl /\ a.here = b.here /\ a.loading = b.loading
        /\ a.inProgress = FALSE /\ a.result = b.result /\ a.pager = b.pager
        /\ a.messages = b.messages /\ a.lastNo = b.lastNo
    BY <1>1 DEF TagPageT
  <2> HIDE DEF a
  <2>3. /\ Requests(b, rs, version) /\ InfoOfRequest(b, rs) /\ OldNotShown(b, rs)
        /\ NotOlder(b, rs) /\ View(b)
    BY <1>1 DEF TagsInv
  <2> HIDE DEF b
  <2>4. Requests(a, rs, version)
    BY <2>2, <2>3 DEF Requests
  <2>5. InfoOfRequest(a, rs)
    BY <2>2, <2>3 DEF InfoOfRequest
  <2>6. OldNotShown(a, rs)
    BY <2>2, <2>3 DEF OldNotShown, NotShown
  <2>7. NotOlder(a, rs) /\ View(a)
    BY <2>2, <2>3 DEF NotOlder, View
  <2>8. ClosedOf(c, a, r.no)
    BY <2>1, <2>2, TagsCloseIs
  <2>9. /\ Requests(c, rs, version) /\ InfoOfRequest(c, rs) /\ OldNotShown(c, rs)
        /\ NotOlder(c, rs) /\ View(c) /\ NotShown(c, r.no)
    BY <2>2, <2>4, <2>5, <2>6, <2>7, <2>8, TagsCloseKeeps
  <2>10. Requests(c, rest, version) /\ InfoOfRequest(c, rest) /\ OldNotShown(c, rest) /\ NotOlder(c, rest)
    BY <2>9, RemoveKeeps
  <2>11. c.inProgress = FALSE /\ c.ctrl = b.ctrl /\ c.result = b.result
    BY <2>2, <2>8 DEF ClosedOf
  <2>12. LastRequest(c, rest)
    BY <2>11 DEF LastRequest
  <2>13. TagsInv(c, rest, version)
    BY <2>9, <2>10, <2>12 DEF TagsInv
  <2> QED
    BY <2>11, <2>13 DEF b, c
<1>4. CASE ~last
  <2>1. c = T!Dropped(b, r)
    BY <1>2, <1>4
  <2>2. TagsInv(T!Dropped(b, r), rest, version) /\ T!Dropped(b, r).ctrl = b.ctrl /\ T!Dropped(b, r).result = b.result
    BY <1>1, <1>4, DroppedKeeps
  <2> QED
    BY <2>1, <2>2 DEF c
<1> QED
  BY <1>3, <1>4

LEMMA FailureKeeps ==
  ASSUME TagsPart, NEW k \in DOMAIN tagSearches, T!Failure(k)
  PROVE  TagsPart' /\ Forward
<1> DEFINE c == T!Failed(tagSearches[k])
           rest == T!Without(tagSearches, k)
           told == T!Notified(c, "error")
<1>1. tagPage' = told /\ tagSearches' = rest /\ UNCHANGED <<found, version>>
  BY DEF T!Failure
<1>2. /\ tagSearches \in Seq(SearchT) /\ tagPage.result.version \in Nat
      /\ TagsInv(tagPage, tagSearches, version)
  BY TagsTypes DEF TagsPart
<1>3. Gone(rest, tagSearches, k)
  BY <1>2, GoneIs DEF TagsInv, Requests
<1> HIDE DEF rest
<1>4. TagsInv(c, rest, version) /\ c.ctrl = tagPage.ctrl /\ c.result = tagPage.result
  BY <1>3, FailedKeeps
<1> HIDE DEF c
<1>5. NotifiedOf(told, c, "error")
  BY <1>4, NotifiedIs DEF TagsInv, Requests
<1> HIDE DEF told
<1>6. TagsInv(told, rest, version) /\ told.result = tagPage.result
  BY <1>4, <1>5, NotifiedKeeps DEF NotifiedOf
<1>7. TagsInv(tagPage', tagSearches', version') /\ Forward
  BY <1>1, <1>2, <1>6 DEF Forward
<1> QED
  BY <1>1, <1>7, TagsPrimed DEF TagsPart

LEMMA CloseErrorKeeps ==
  ASSUME TagsPart, NEW no \in tagPage.timers, T!CloseError(no)
  PROVE  TagsPart' /\ Forward
<1> DEFINE a == T!Close(tagPage, no)
           c == [a EXCEPT !.timers = @ \ {no}]
           rs == tagSearches
<1>1. tagPage' = c /\ tagSearches' = tagSearches /\ UNCHANGED <<found, version>>
  BY DEF T!CloseError
<1>2. /\ tagPage \in TagPageT /\ tagPage.result.version \in Nat
      /\ TagsInv(tagPage, rs, version)
  BY TagsTypes DEF TagsPart
<1>3. ClosedOf(a, tagPage, no)
  BY <1>2, TagsCloseIs
<1> HIDE DEF a
<1>4. TagsInv(a, rs, version) /\ a \in TagPageT /\ a.ctrl = tagPage.ctrl /\ a.result = tagPage.result
  BY <1>2, <1>3, TagsCloseKeeps DEF ClosedOf
<1>5. /\ c \in TagPageT
      /\ c.url = a.url /\ c.ctrl = a.ctrl /\ c.here = a.here /\ c.loading = a.loading
      /\ c.inProgress = a.inProgress /\ c.result = a.result /\ c.pager = a.pager
      /\ c.messages = a.messages /\ c.lastNo = a.lastNo
  BY <1>4 DEF TagPageT
<1> HIDE DEF c
<1>6. TagsInv(c, rs, version)
  <2>1. /\ Requests(a, rs, version) /\ InfoOfRequest(a, rs) /\ OldNotShown(a, rs)
        /\ LastRequest(a, rs) /\ NotOlder(a, rs) /\ View(a)
    BY <1>4 DEF TagsInv
  <2>2. Requests(c, rs, version)
    BY <1>5, <2>1 DEF Requests
  <2>3. InfoOfRequest(c, rs)
    BY <1>5, <2>1 DEF InfoOfRequest
  <2>4. OldNotShown(c, rs)
    BY <1>5, <2>1 DEF OldNotShown, NotShown
  <2>5. LastRequest(c, rs) /\ NotOlder(c, rs) /\ View(c)
    BY <1>5, <2>1 DEF LastRequest, NotOlder, View
  <2> QED
    BY <2>2, <2>3, <2>4, <2>5 DEF TagsInv
<1>7. TagsInv(tagPage', tagSearches', version') /\ Forward
  BY <1>1, <1>2, <1>4, <1>5, <1>6 DEF Forward
<1> QED
  BY <1>1, <1>7, TagsPrimed DEF TagsPart

\* t is rs after the search k was answered.
AnsweredAt(t, rs, k, total0, v) ==
  /\ t \in Seq(SearchT) /\ DOMAIN t = DOMAIN rs
  /\ \A i \in DOMAIN rs : t[i].ctrl = rs[i].ctrl /\ t[i].no = rs[i].no /\ t[i].query = rs[i].query
  /\ \A i \in DOMAIN rs : i # k => t[i] = rs[i]
  /\ t[k].answer.no = rs[k].no /\ t[k].answer.query = rs[k].query
  /\ t[k].answer.total = total0 /\ t[k].answer.version = v

LEMMA AnswerIsThere ==
  ASSUME NEW rs \in Seq(SearchT), NEW k \in DOMAIN rs, NEW total0 \in Nat, NEW v \in Nat
  PROVE  AnsweredAt([rs EXCEPT ![k].stage = "done",
                      ![k].answer = [no |-> rs[k].no, query |-> rs[k].query,
                                     total |-> total0, version |-> v]], rs, k, total0, v)
<1> DEFINE r == rs[k]
           answer == [no |-> r.no, query |-> r.query, total |-> total0, version |-> v]
           new == [r EXCEPT !.stage = "done", !.answer = answer]
           t == [rs EXCEPT ![k] = new]
<1>1. r \in SearchT
  OBVIOUS
<1>2. /\ answer \in ResultT /\ answer.no = r.no /\ answer.query = r.query
      /\ answer.total = total0 /\ answer.version = v
  BY <1>1 DEF SearchT, ResultT, Queries
<1>3. [rs EXCEPT ![k].stage = "done", ![k].answer = answer] = t
  BY <1>1 DEF SearchT
<1> HIDE DEF r, answer
<1>4. /\ new \in SearchT /\ new.ctrl = r.ctrl /\ new.no = r.no /\ new.query = r.query
      /\ new.answer = answer
  BY <1>1, <1>2 DEF SearchT
<1> HIDE DEF new
<1>5. t \in Seq(SearchT) /\ DOMAIN t = DOMAIN rs /\ t[k] = new /\ \A i \in DOMAIN rs : i # k => t[i] = rs[i]
  BY <1>4
<1> HIDE DEF t
<1>6. AnsweredAt(t, rs, k, total0, v)
  BY <1>2, <1>4, <1>5 DEF AnsweredAt, r
<1> QED
  BY <1>3, <1>6 DEF answer, r

LEMMA AnswerKeeps ==
  ASSUME TagsPart, NEW k \in DOMAIN tagSearches, T!Answer(k)
  PROVE  TagsPart' /\ Forward
<1> DEFINE rs == tagSearches
           b == tagPage
           n == found[rs[k].query.filter]
           t == tagSearches'
<1>1. /\ rs \in Seq(SearchT) /\ b.result.version \in Nat /\ version \in Nat /\ MaxEvents \in Nat
      /\ TagsInv(b, rs, version)
  BY TagsTypes DEF TagsPart
<1>2. n \in Nat /\ n <= MaxEvents
  <2>1. rs[k] \in SearchT
    BY <1>1
  <2>2. rs[k].query.filter \in Filter
    BY <2>1 DEF SearchT, T!Query
  <2>3. n \in 0 .. MaxEvents
    BY <2>2 DEF TagsPart
  <2> QED
    BY <1>1, <2>3
<1>3. /\ t = [rs EXCEPT ![k].stage = "done",
                ![k].answer = [no |-> rs[k].no, query |-> rs[k].query,
                               total |-> n, version |-> version]]
      /\ UNCHANGED <<found, version, tagPage>>
  BY DEF T!Answer
<1> HIDE DEF n
<1>4. AnsweredAt(t, rs, k, n, version)
  BY <1>1, <1>2, <1>3, AnswerIsThere
<1>5. /\ t \in Seq(SearchT) /\ DOMAIN t = DOMAIN rs
      /\ \A i \in DOMAIN rs : t[i].ctrl = rs[i].ctrl /\ t[i].no = rs[i].no /\ t[i].query = rs[i].query
      /\ \A i \in DOMAIN rs : i # k => t[i] = rs[i]
      /\ t[k].answer.no = rs[k].no /\ t[k].answer.query = rs[k].query
      /\ t[k].answer.total = n /\ t[k].answer.version = version
  BY <1>4 DEF AnsweredAt
<1>6. /\ Requests(b, rs, version) /\ InfoOfRequest(b, rs) /\ OldNotShown(b, rs)
      /\ LastRequest(b, rs) /\ NotOlder(b, rs) /\ View(b)
  BY <1>1 DEF TagsInv
<1> HIDE DEF t, rs, b
<1>7. Requests(b, t, version)
  <2>1. \A i \in DOMAIN t : t[i].ctrl <= b.ctrl /\ t[i].no \in 1 .. b.lastNo
    BY <1>5, <1>6 DEF Requests
  <2>2. \A i, j \in DOMAIN t : t[i].no = t[j].no => i = j
    BY <1>5, <1>6 DEF Requests
  <2>3. \A i \in DOMAIN t : t[i].ctrl = b.ctrl => t[i].query = b.url
    BY <1>5, <1>6 DEF Requests
  <2>4. \A i \in DOMAIN t :
          t[i].stage = "done" =>
            /\ t[i].answer.no = t[i].no /\ t[i].answer.query = t[i].query
            /\ t[i].answer.total <= MaxEvents /\ t[i].answer.version <= version
    <3> SUFFICES ASSUME NEW i \in DOMAIN t, t[i].stage = "done"
                 PROVE  /\ t[i].answer.no = t[i].no /\ t[i].answer.query = t[i].query
                        /\ t[i].answer.total <= MaxEvents /\ t[i].answer.version <= version
      OBVIOUS
    <3>1. CASE i = k
      BY <1>1, <1>2, <1>5, <3>1
    <3>2. CASE i # k
      BY <1>5, <1>6, <3>2 DEF Requests
    <3> QED
      BY <3>1, <3>2
  <2> QED
    BY <1>5, <1>6, <2>1, <2>2, <2>3, <2>4 DEF Requests
<1>8. InfoOfRequest(b, t)
  BY <1>5, <1>6 DEF InfoOfRequest
<1>9. OldNotShown(b, t)
  BY <1>5, <1>6 DEF OldNotShown
<1>10. LastRequest(b, t)
  BY <1>5, <1>6 DEF LastRequest
<1>11. NotOlder(b, t)
  <2> SUFFICES ASSUME NEW i \in DOMAIN t, t[i].ctrl = b.ctrl, t[i].no = b.loading, t[i].stage = "done"
               PROVE  t[i].answer.version >= b.result.version
    BY DEF NotOlder
  <2>1. CASE i = k
    BY <1>1, <1>5, <1>6, <2>1 DEF Requests
  <2>2. CASE i # k
    BY <1>5, <1>6, <2>2 DEF NotOlder
  <2> QED
    BY <2>1, <2>2
<1>12. TagsInv(b, t, version)
  BY <1>6, <1>7, <1>8, <1>9, <1>10, <1>11 DEF TagsInv
<1>13. TagsInv(tagPage', tagSearches', version') /\ Forward
  BY <1>1, <1>3, <1>12 DEF Forward, b, t
<1> QED
  BY <1>3, <1>13, TagsPrimed DEF TagsPart

LEMMA StoreKeeps ==
  ASSUME TagsPart, NEW f \in Filter, NEW n \in 0 .. MaxEvents, T!Store(f, n)
  PROVE  TagsPart' /\ Forward
<1> DEFINE rs == tagSearches
           b == tagPage
           v == version + 1
<1>1. /\ version' = v /\ version < MaxStored /\ found' = [found EXCEPT ![f] = n]
      /\ tagPage' = tagPage /\ tagSearches' = tagSearches
  BY DEF T!Store
<1>2. /\ TagsInv(b, rs, version) /\ version \in Nat /\ MaxStored \in Nat /\ MaxEvents \in Nat
      /\ b \in TagPageT /\ rs \in Seq(SearchT) /\ b.result.version \in Nat
  BY TagsTypes DEF TagsPart
<1>3. found' \in [Filter -> 0 .. MaxEvents] /\ version' \in 0 .. MaxStored
  BY <1>1, <1>2 DEF TagsPart
<1>4. Requests(b, rs, v)
  <2>1. \A i \in DOMAIN rs : rs[i].answer.version \in Nat
    <3>1. \A i \in DOMAIN rs : rs[i] \in SearchT
      BY <1>2
    <3> QED
      BY <3>1 DEF SearchT, ResultT
  <2>2. Requests(b, rs, version)
    BY <1>2 DEF TagsInv
  <2>3. \A m \in Nat : m <= version => m <= v
    BY <1>2
  <2> HIDE DEF b, rs, v
  <2>4. \A i \in DOMAIN rs :
          rs[i].stage = "done" =>
            /\ rs[i].answer.no = rs[i].no /\ rs[i].answer.query = rs[i].query
            /\ rs[i].answer.total <= MaxEvents /\ rs[i].answer.version <= v
    BY <2>1, <2>2, <2>3 DEF Requests
  <2>5. b.result.version <= v
    BY <1>2, <2>2, <2>3 DEF Requests
  <2> QED
    BY <2>2, <2>4, <2>5 DEF Requests
<1>5. TagsInv(b, rs, v)
  BY <1>2, <1>4 DEF TagsInv
<1>6. TagsInv(tagPage', tagSearches', version') /\ Forward
  BY <1>1, <1>2, <1>5 DEF Forward
<1> QED
  BY <1>3, <1>6, TagsPrimed

LEMMA TagsNext ==
  ASSUME TagsPart, T!TgNext
  PROVE  TagsPart' /\ Forward
<1>1. ASSUME NEW q \in T!Query, T!Navigate(q) PROVE TagsPart' /\ Forward
  BY <1>1, NavigateKeeps
<1>2. CASE T!Leave
  BY <1>2, LeaveKeeps
<1>3. ASSUME NEW f \in Filter, T!NewSearch(f) PROVE TagsPart' /\ Forward
  BY <1>3, NewSearchKeeps
<1>4. ASSUME NEW n \in 1 .. MaxEvents, T!SetPage(n) PROVE TagsPart' /\ Forward
  BY <1>4, SetPageKeeps
<1>5. ASSUME NEW k \in DOMAIN tagSearches, T!Success(k) PROVE TagsPart' /\ Forward
  BY <1>5, SuccessKeeps
<1>6. ASSUME NEW k \in DOMAIN tagSearches, T!Failure(k) PROVE TagsPart' /\ Forward
  BY <1>6, FailureKeeps
<1>7. ASSUME NEW no \in tagPage.timers, T!CloseError(no) PROVE TagsPart' /\ Forward
  BY <1>7, CloseErrorKeeps
<1>8. ASSUME NEW k \in DOMAIN tagSearches, T!Answer(k) PROVE TagsPart' /\ Forward
  BY <1>8, AnswerKeeps
<1>9. ASSUME NEW f \in Filter, NEW n \in 0 .. MaxEvents, T!Store(f, n) PROVE TagsPart' /\ Forward
  BY <1>9, StoreKeeps
<1> QED
  BY <1>1, <1>2, <1>3, <1>4, <1>5, <1>6, <1>7, <1>8, <1>9 DEF T!TgNext

LEMMA TagsShow ==
  ASSUME TagsPart
  PROVE  T!LoadingMessagesEnd /\ T!SearchingEnds /\ T!ResultsMatchAddress /\ T!NoPageBeyondTheLast
         /\ T!TgTypeOK
<1>1. /\ Requests(tagPage, tagSearches, version) /\ InfoOfRequest(tagPage, tagSearches)
      /\ LastRequest(tagPage, tagSearches) /\ View(tagPage)
  BY DEF TagsPart, TagsInv
<1>2. T!LoadingMessagesEnd
  BY <1>1 DEF T!LoadingMessagesEnd, InfoOfRequest
<1>3. T!SearchingEnds
  BY <1>1 DEF T!SearchingEnds, LastRequest
<1>4. T!ResultsMatchAddress /\ T!NoPageBeyondTheLast
  BY <1>1 DEF T!ResultsMatchAddress, T!NoPageBeyondTheLast, View
<1>5. T!TgTypeOK
  <2>1. tagPage \in TagPageT /\ tagSearches \in Seq(SearchT)
    BY <1>1 DEF Requests
  <2>2. tagPage.url \in Queries
    BY <2>1 DEF TagPageT
  <2>3. \A k \in DOMAIN tagSearches : tagSearches[k].query \in T!Query
    <3>1. \A k \in DOMAIN tagSearches : tagSearches[k] \in SearchT
      BY <2>1
    <3> QED
      BY <3>1 DEF SearchT
  <2> QED
    BY <2>2, <2>3 DEF T!TgTypeOK, TagsPart, Queries
<1> QED
  BY <1>2, <1>3, <1>4, <1>5

(* The dialog of a new receiver: its invariant *)

Urls == Url \cup {NoUrl}
Ids == Nat \ {0}
AddressT == [url : Urls, id : Int]
RowT == [made : Int, url : Urls, id : Int, settings : BOOLEAN, receiver : Int]
DialogPageT ==
  [open : BOOLEAN, collector : AddressT, list : Seq(RowT), selected : RowT, invalid : BOOLEAN,
   inProgress : Nat, url : Urls, updating : BOOLEAN]
NestedT ==
  [no : Nat, kind : {"create", "configure", "delete"}, over : Nat, open : BOOLEAN, url : Urls,
   id : Int, made : Int, receiver : Int, updating : BOOLEAN]
\* The receivers of profiles, as a search finds them.
Lists == UNION {[S -> Nat] : S \in SUBSET ProfileId}
Stages == {"sent", "done", "failed", "refused", "invalid"}
\* What is saved has an identifier that a profile can have.
AskT ==
  {r \in [kind : {"profiles", "receiver", "save", "delete"}, no : Nat, url : Urls, id : Int,
          receiver : Int, stage : Stages, list : Lists] : r.kind = "save" => r.id \in ProfileId}

DialogTypes ==
  /\ collectors \in [Url -> SUBSET ProfileId] /\ receivers \in Seq(AddressT)
  /\ page \in DialogPageT /\ nested \in Seq(NestedT) /\ asks \in Seq(AskT)
  /\ searches \in Nat /\ dialogs \in Nat /\ searches + dialogs <= MaxClicks
  /\ page.inProgress <= searches /\ Len(nested) <= dialogs /\ Len(asks) <= MaxRequests
  /\ raced \in BOOLEAN

\* A search that is waited for asks for what the dialog p shows next; n searches were made.
Answer(r, p, n) ==
  r.kind = "profiles" => r.no \in 1 .. n /\ (r.no = p.inProgress => r.url = p.url)

Answers(rs, p, n) ==
  /\ \A k \in DOMAIN rs : Answer(rs[k], p, n)
  /\ p.collector.url \in {NoUrl, p.url}

\* A request of the dialogs above.
Changes(r) == r.kind \in {"save", "delete"}

\* Dialogs and their requests have numbers that were given.
Numbered(ds, rs, n) ==
  /\ \A i \in DOMAIN ds : ds[i].no \in 1 .. n
  /\ \A k \in DOMAIN rs : Changes(rs[k]) => rs[k].no \in 1 .. n

\* Buttons that are disabled have their dialog.
Buttons(p, ds) == p.updating => \E i \in DOMAIN ds : ds[i].kind = "create"

\* As long as no other profile could be selected while a dialog was to open: there is no
\* dialog while a search is waited for, which finds nothing listed or selected,
Quiet(p, ds) ==
  p.inProgress # 0 => p.list = <<>> /\ p.selected = D!NoProfile /\ ~p.invalid /\ ds = <<>>

\* the selected profile is listed, if any is,
Selected(p) ==
  \/ p.selected = D!NoProfile
  \/ \E i \in DOMAIN p.list : p.list[i] = p.selected
  \/ p.list = <<>> /\ ~p.selected.settings

\* and profiles, dialogs and their requests are about the collector that is shown.
OfCollector(p, ds, rs) ==
  /\ \A i \in DOMAIN p.list : p.list[i].url \in {p.collector.url, NoUrl}
  /\ \A i \in DOMAIN ds : ds[i].url = p.collector.url
  /\ \A k \in DOMAIN rs, i \in DOMAIN ds :
       Changes(rs[k]) /\ rs[k].no = ds[i].no => rs[k].url = ds[i].url

Apart(p, ds, rs) == Quiet(p, ds) /\ Selected(p) /\ OfCollector(p, ds, rs)

DialogInv ==
  /\ DialogTypes /\ Answers(asks, page, searches) /\ Numbered(nested, asks, dialogs)
  /\ Buttons(page, nested)
  /\ ~raced => Apart(page, nested, asks)

LEMMA DialogPrimed ==
  ASSUME DialogTypes', Answers(asks', page', searches'), Numbered(nested', asks', dialogs'),
         Buttons(page', nested'), ~raced' => Apart(page', nested', asks')
  PROVE  DialogInv'
BY DEF DialogInv, Answers, Answer, Numbered, Changes, Buttons, Apart, Quiet, Selected, OfCollector

LEMMA NoList == <<>> \in Lists
<1>1. <<>> \in Seq(Nat) /\ Len(<<>>) = 0
  OBVIOUS
<1>2. <<>> \in [1 .. 0 -> Nat]
  BY <1>1, LenProperties, Zenon
<1>3. 1 .. 0 = {}
  OBVIOUS
<1>4. <<>> \in [{} -> Nat]
  BY <1>2, <1>3
<1>5. [{} -> Nat] \subseteq Lists
  BY DEF Lists
<1> QED
  BY <1>4, <1>5

LEMMA RowOf ==
  ASSUME NEW A, NEW m \in Nat, NEW f \in [1 .. m -> A]
  PROVE  f \in Seq(A)
BY SeqDef, Zenon

LEMMA NothingIs ==
  /\ D!NoProfile \in RowT /\ D!NoProfile.settings = FALSE /\ D!Nowhere \in AddressT
  /\ D!Nowhere.url = NoUrl /\ D!Nowhere.id = 0
BY DEF D!NoProfile, D!Profile, D!Nowhere, D!At, RowT, AddressT, Urls

LEMMA DialogInit == D!NrInit => DialogInv
<1> SUFFICES ASSUME D!NrInit PROVE DialogInv
  OBVIOUS
<1>1. /\ collectors = [u \in Url |-> IF u \in Bare THEN {} ELSE {1}]
      /\ receivers \in [1 .. D!Cardinality(Connected) -> {D!At(u, 1) : u \in Connected}]
      /\ page = [open |-> TRUE, collector |-> D!Nowhere, list |-> <<>>, selected |-> D!NoProfile,
                 invalid |-> FALSE, inProgress |-> 0, url |-> NoUrl, updating |-> FALSE]
      /\ nested = <<>> /\ asks = <<>> /\ searches = 0 /\ dialogs = 0 /\ raced = FALSE
  BY DEF D!NrInit
<1> DEFINE none == D!NoProfile
           nowhere == D!Nowhere
<1>2. none \in RowT /\ nowhere \in AddressT /\ nowhere.url = NoUrl
  BY NothingIs
<1>3. page = [open |-> TRUE, collector |-> nowhere, list |-> <<>>, selected |-> none,
              invalid |-> FALSE, inProgress |-> 0, url |-> NoUrl, updating |-> FALSE]
  BY <1>1
<1> HIDE DEF none, nowhere
<1>4. page \in DialogPageT /\ page.inProgress = 0 /\ page.list = <<>> /\ page.collector = nowhere
      /\ page.selected = none /\ page.updating = FALSE
  <2>1. <<>> \in Seq(RowT) /\ NoUrl \in Urls
    BY DEF Urls
  <2> QED
    BY <1>2, <1>3, <2>1 DEF DialogPageT
<1>5. collectors \in [Url -> SUBSET ProfileId]
  BY <1>1, PagesAssumption
<1>6. receivers \in Seq(AddressT)
  <2>1. Cardinality(Connected) \in Nat
    BY PagesAssumption, FS_Subset, FS_CardinalityType
  <2>2. D!Cardinality(Connected) = Cardinality(Connected)
    BY DEF D!Cardinality, Cardinality
  <2>3. {D!At(u, 1) : u \in Connected} \subseteq AddressT
    BY PagesAssumption DEF D!At, AddressT, Urls
  <2>4. receivers \in [1 .. Cardinality(Connected) -> AddressT]
    BY <1>1, <2>2, <2>3
  <2> QED
    BY <2>1, <2>4, RowOf
<1>7. DialogTypes
  <2>1. nested \in Seq(NestedT) /\ asks \in Seq(AskT) /\ Len(nested) = 0 /\ Len(asks) = 0
    BY <1>1
  <2>2. MaxClicks \in Nat /\ MaxRequests \in Nat
    BY PagesAssumption
  <2>3. searches + dialogs <= MaxClicks /\ page.inProgress <= searches
        /\ Len(nested) <= dialogs /\ Len(asks) <= MaxRequests
    BY <1>1, <1>4, <2>1, <2>2
  <2>4. searches \in Nat /\ dialogs \in Nat /\ raced \in BOOLEAN
    BY <1>1
  <2> QED
    BY <1>4, <1>5, <1>6, <2>1, <2>3, <2>4 DEF DialogTypes
<1>8. DOMAIN asks = {} /\ DOMAIN nested = {} /\ DOMAIN page.list = {}
  BY <1>1, <1>4
<1>9. Answers(asks, page, searches) /\ Numbered(nested, asks, dialogs) /\ Buttons(page, nested)
  BY <1>2, <1>4, <1>8 DEF Answers, Numbered, Buttons
<1>10. Apart(page, nested, asks)
  BY <1>4, <1>8 DEF Apart, Quiet, Selected, OfCollector, none
<1> QED
  BY <1>7, <1>9, <1>10 DEF DialogInv

-----------------------------------------------------------------------------
(* The dialog of a new receiver: sequences and profiles *)

LEMMA RemovedIs == \A s, i : D!RemoveAt(s, i) = Without(s, i)
BY DEF D!RemoveAt, Without

\* The members but the one at i are left.
LeftOf(q, A, s, i) ==
  /\ q \in Seq(A) /\ Len(q) = Len(s) - 1 /\ Len(s) \in Nat
  /\ \A j \in DOMAIN q : \E m \in DOMAIN s : q[j] = s[m]
  /\ \A m \in DOMAIN s : m # i => \E j \in DOMAIN q : q[j] = s[m]

LEMMA RemovalIs ==
  ASSUME NEW A, NEW s \in Seq(A), NEW i \in DOMAIN s, NEW q, q = D!RemoveAt(s, i)
  PROVE  LeftOf(q, A, s, i)
<1>1. q = Without(s, i)
  BY RemovedIs
<1>2. /\ q \in Seq(A) /\ Len(q) = Len(s) - 1 /\ Len(s) - 1 \in Nat
      /\ \A j \in 1 .. Len(s) - 1 : q[j] = IF j < i THEN s[j] ELSE s[j + 1]
  BY <1>1, WithoutIs
<1>3. DOMAIN s = 1 .. Len(s) /\ Len(s) \in Nat /\ DOMAIN q = 1 .. Len(s) - 1
  BY <1>2
<1>4. \A j \in DOMAIN q : \E m \in DOMAIN s : q[j] = s[m]
  <2> SUFFICES ASSUME NEW j \in DOMAIN q PROVE \E m \in DOMAIN s : q[j] = s[m]
    OBVIOUS
  <2>1. j \in DOMAIN s /\ j + 1 \in DOMAIN s
    BY <1>3
  <2> QED
    BY <1>2, <1>3, <2>1
<1>5. \A m \in DOMAIN s : m # i => \E j \in DOMAIN q : q[j] = s[m]
  <2> SUFFICES ASSUME NEW m \in DOMAIN s, m # i PROVE \E j \in DOMAIN q : q[j] = s[m]
    OBVIOUS
  <2>1. CASE m < i
    <3>1. m \in DOMAIN q /\ q[m] = s[m]
      BY <1>2, <1>3, <2>1
    <3> QED
      BY <3>1
  <2>2. CASE m > i
    <3>1. m - 1 \in DOMAIN q /\ q[m - 1] = s[m]
      BY <1>2, <1>3, <2>2
    <3> QED
      BY <3>1
  <2> QED
    BY <1>3, <2>1, <2>2
<1> QED
  BY <1>2, <1>3, <1>4, <1>5 DEF LeftOf

\* The member e has joined.
Joined(q, A, s, e) ==
  /\ q \in Seq(A) /\ Len(q) = Len(s) + 1 /\ Len(s) \in Nat
  /\ \A j \in DOMAIN q : q[j] = e \/ \E m \in DOMAIN s : q[j] = s[m]
  /\ \A m \in DOMAIN s : \E j \in DOMAIN q : q[j] = s[m]
  /\ \E j \in DOMAIN q : q[j] = e

LEMMA AppendedIs ==
  ASSUME NEW A, NEW s \in Seq(A), NEW e \in A, NEW q, q = Append(s, e)
  PROVE  Joined(q, A, s, e)
<1>1. q \in Seq(A) /\ Len(q) = Len(s) + 1 /\ Len(s) \in Nat
  OBVIOUS
<1>2. DOMAIN s = 1 .. Len(s) /\ DOMAIN q = 1 .. Len(s) + 1
  BY <1>1
<1>3. q[Len(s) + 1] = e /\ \A k \in 1 .. Len(s) : q[k] = s[k]
  OBVIOUS
<1>4. \A k \in DOMAIN q : k = Len(s) + 1 \/ k \in DOMAIN s
  BY <1>1, <1>2
<1>5. \A k \in DOMAIN s : k \in DOMAIN q /\ q[k] = s[k]
  BY <1>1, <1>2, <1>3
<1>6. Len(s) + 1 \in DOMAIN q
  BY <1>1, <1>2
<1> QED
  BY <1>1, <1>3, <1>4, <1>5, <1>6 DEF Joined

LEMMA InsertedIs ==
  ASSUME NEW A, NEW s \in Seq(A), NEW i \in 1 .. Len(s) + 1, NEW e \in A, NEW q,
         q = D!InsertAt(s, i, e)
  PROVE  Joined(q, A, s, e)
<1> DEFINE a == SubSeq(s, 1, i - 1)
           b == SubSeq(s, i, Len(s))
           c == a \o <<e>>
<1>1. a \in Seq(A) /\ Len(a) = i - 1 /\ \A j \in 1 .. i - 1 : a[j] = s[j]
  OBVIOUS
<1>2. b \in Seq(A) /\ Len(b) = Len(s) - i + 1 /\ \A j \in 1 .. Len(s) - i + 1 : b[j] = s[i + j - 1]
  OBVIOUS
<1>3. q = c \o b
  BY DEF D!InsertAt
<1>4. Len(s) \in Nat /\ i \in Nat /\ i >= 1 /\ i <= Len(s) + 1 /\ DOMAIN s = 1 .. Len(s)
  OBVIOUS
<1>5. <<e>> \in Seq(A) /\ Len(<<e>>) = 1 /\ <<e>>[1] = e
  OBVIOUS
<1> DEFINE one == <<e>>
<1> HIDE DEF a, b
<1>6. c \in Seq(A) /\ Len(c) = i /\ \A j \in 1 .. i : c[j] = IF j < i THEN a[j] ELSE e
  <2> HIDE DEF one
  <2>1. one \in Seq(A) /\ Len(one) = 1 /\ one[1] = e /\ c = a \o one
    BY <1>5 DEF one
  <2> HIDE DEF c
  <2>2. a \o one \in Seq(A) /\ Len(a \o one) = Len(a) + Len(one)
    BY <1>1, <2>1, ConcatProperties
  <2>3. \A j \in 1 .. Len(a) + Len(one) : (a \o one)[j] = IF j <= Len(a) THEN a[j] ELSE one[j - Len(a)]
    BY <1>1, <2>1, ConcatProperties
  <2> QED
    BY <1>1, <1>4, <2>1, <2>2, <2>3
<1> HIDE DEF c
<1>7. c \o b \in Seq(A) /\ Len(c \o b) = Len(c) + Len(b)
  BY <1>2, <1>6, ConcatProperties
<1>8. \A j \in 1 .. Len(c) + Len(b) : (c \o b)[j] = IF j <= Len(c) THEN c[j] ELSE b[j - Len(c)]
  BY <1>2, <1>6, ConcatProperties
<1>9. q \in Seq(A) /\ Len(q) = Len(s) + 1 /\ DOMAIN q = 1 .. Len(s) + 1
  BY <1>2, <1>3, <1>4, <1>6, <1>7
<1>10. \A j \in DOMAIN q : q[j] = IF j < i THEN s[j] ELSE IF j = i THEN e ELSE s[j - 1]
  <2> SUFFICES ASSUME NEW j \in 1 .. Len(s) + 1
               PROVE  q[j] = IF j < i THEN s[j] ELSE IF j = i THEN e ELSE s[j - 1]
    BY <1>9
  <2>1. q[j] = IF j <= i THEN c[j] ELSE b[j - i]
    <3>1. Len(c) = i /\ j \in 1 .. Len(c) + Len(b)
      BY <1>2, <1>4, <1>6
    <3> QED
      BY <1>3, <1>8, <3>1
  <2>2. j > i => j - i \in 1 .. Len(s) - i + 1 /\ b[j - i] = s[j - 1]
    BY <1>2, <1>4
  <2> QED
    BY <1>1, <1>4, <1>6, <2>1, <2>2
<1>11. \A j \in DOMAIN q : q[j] = e \/ \E m \in DOMAIN s : q[j] = s[m]
  <2> SUFFICES ASSUME NEW j \in DOMAIN q, j # i PROVE \E m \in DOMAIN s : q[j] = s[m]
    BY <1>10
  <2>1. CASE j < i
    <3>1. j \in DOMAIN s
      BY <1>4, <1>9, <2>1
    <3> QED
      BY <1>10, <2>1, <3>1
  <2>2. CASE j > i
    <3>1. j - 1 \in DOMAIN s /\ ~(j < i)
      BY <1>4, <1>9, <2>2
    <3> QED
      BY <1>10, <2>2, <3>1
  <2> QED
    BY <1>4, <1>9, <2>1, <2>2
<1>12. \A m \in DOMAIN s : \E j \in DOMAIN q : q[j] = s[m]
  <2> SUFFICES ASSUME NEW m \in DOMAIN s PROVE \E j \in DOMAIN q : q[j] = s[m]
    OBVIOUS
  <2>1. CASE m < i
    BY <1>4, <1>9, <1>10, <2>1
  <2>2. CASE m >= i
    <3>1. m + 1 \in DOMAIN q /\ ~(m + 1 < i) /\ m + 1 # i /\ (m + 1) - 1 = m
      BY <1>4, <1>9, <2>2
    <3>2. q[m + 1] = s[m]
      BY <1>10, <3>1
    <3> QED
      BY <3>1, <3>2
  <2> QED
    BY <1>4, <2>1, <2>2
<1>13. i \in DOMAIN q /\ q[i] = e
  BY <1>4, <1>9, <1>10
<1> QED
  BY <1>4, <1>9, <1>11, <1>12, <1>13 DEF Joined

\* The identifiers in their order.
LEMMA SortedIs ==
  ASSUME NEW S \in SUBSET Ids, IsFiniteSet(S)
  PROVE  /\ D!Cardinality(S) = Cardinality(S) /\ Cardinality(S) \in Nat
         /\ \A i \in 1 .. Cardinality(S) : D!Sorted(S)[i] \in S
         /\ \A i, j \in 1 .. Cardinality(S) : D!Sorted(S)[i] = D!Sorted(S)[j] => i = j
<1> DEFINE n == Cardinality(S)
           choice(j) == CHOOSE k \in S : Cardinality({m \in S : m <= k}) = j
<1>1. \A U : D!Cardinality(U) = Cardinality(U)
  BY DEF D!Cardinality, Cardinality
<1>2. \A j : choice(j) = Pick(S, j)
  BY Zenon DEF Pick, Rank, UpTo
<1>3. D!Sorted(S) = [i \in 1 .. n |-> choice(i)]
  <2>1. D!Sorted(S) = [i \in 1 .. D!Cardinality(S) |->
                         CHOOSE k \in S : D!Cardinality({m \in S : m <= k}) = i]
    BY Zenon DEF D!Sorted
  <2>2. \A j : choice(j) = CHOOSE k \in S : D!Cardinality({m \in S : m <= k}) = j
    BY <1>1, Zenon
  <2> QED
    BY <1>1, <2>1, <2>2, Zenon
<1>4. S \in SUBSET Nat
  BY DEF Ids
<1>5. \A i \in 1 .. n : Pick(S, i) \in S /\ Rank(S, Pick(S, i)) = i
  BY <1>4, PickIs
<1>6. n \in Nat
  BY FS_CardinalityType
<1>7. D!Cardinality(S) = n
  BY <1>1
<1> HIDE DEF choice, n
<1>8. \A i \in 1 .. n : D!Sorted(S)[i] = Pick(S, i)
  BY <1>2, <1>3
<1>9. \A i \in 1 .. n : D!Sorted(S)[i] \in S
  BY <1>5, <1>8
<1>10. \A i, j \in 1 .. n : D!Sorted(S)[i] = D!Sorted(S)[j] => i = j
  BY <1>5, <1>8
<1> QED
  BY <1>6, <1>7, <1>9, <1>10 DEF n

\* The profiles of an answer: a row for none, one for a new profile and one for each.
\* A finite set of numbers that is not empty has a greatest one.
LEMMA GreatestOfAny ==
  ASSUME NEW S \in SUBSET Int, IsFiniteSet(S), S # {}
  PROVE  \E m \in S : \A k \in S : k <= m
<1> DEFINE above(x) == {y \in S : y >= x}
           A == {above(x) : x \in S}
           R == StrictSubsetOrdering(Int)
<1>1. IsWellFoundedOn(R, FiniteSubsetsOf(Int))
  BY FS_StrictSubsetOrderingWellFounded, Zenon
<1>2. A \subseteq FiniteSubsetsOf(Int) /\ A # {}
  <2>1. \A x \in S : above(x) \subseteq Int /\ IsFiniteSet(above(x))
    BY FS_Subset
  <2> QED
    BY <2>1 DEF FiniteSubsetsOf
<1> HIDE DEF R, A
<1>3. PICK t \in A : \A y \in A : ~ (<<y, t>> \in R)
  BY <1>1, <1>2, WFMin
<1>4. PICK m \in S : t = above(m)
  BY DEF A
<1>5. ASSUME NEW k \in S, k > m PROVE FALSE
  <2>1. above(k) \subseteq above(m) /\ above(k) # above(m) /\ above(k) \subseteq Int /\ above(m) \subseteq Int
    <3>1. m \in above(m) /\ m \notin above(k)
      BY <1>5
    <3>2. \A y \in above(k) : y \in above(m)
      BY <1>5
    <3> QED
      BY <3>1, <3>2
  <2>2. above(k) \in A
    BY DEF A
  <2> HIDE DEF above
  <2>3. <<above(k), above(m)>> \in R
    BY <2>1 DEF R, StrictSubsetOrdering
  <2> QED
    BY <1>3, <1>4, <2>2, <2>3
<1> QED
  BY <1>5

\* Where the selected profile is listed.
LEMMA IndexIs ==
  ASSUME NEW p \in DialogPageT
  PROVE  /\ D!Index(p) # 0 => D!Index(p) \in DOMAIN p.list
         /\ D!Index(p) \in Nat
<1> DEFINE S == {i \in DOMAIN p.list : p.list[i] = p.selected}
<1>1. p.list \in Seq(RowT) /\ DOMAIN p.list = 1 .. Len(p.list) /\ Len(p.list) \in Nat
  BY DEF DialogPageT
<1>2. D!Contains(p.list, p.selected) <=> S # {}
  BY <1>1 DEF D!Contains
<1>3. S # {} => D!Min(S) \in S
  <2>1. S \in SUBSET Nat
    BY <1>1
  <2> HIDE DEF S
  <2> QED
    BY <2>1, LeastOfAny DEF D!Min
<1>4. D!Index(p) = IF S # {} THEN D!Min(S) ELSE 0
  BY <1>2, Zenon DEF D!Index
<1>5. \A i \in S : i \in DOMAIN p.list /\ i \in Nat
  BY <1>1
<1> HIDE DEF S
<1> QED
  BY <1>3, <1>4, <1>5

\* Only the list, the selected profile and the buttons have changed.
SameFrame(q, p) ==
  /\ q \in DialogPageT /\ q.collector = p.collector /\ q.invalid = p.invalid
  /\ q.inProgress = p.inProgress /\ q.url = p.url

LEMMA AddCreatedIs ==
  ASSUME NEW p \in DialogPageT, NEW c \in RowT, NEW q, q = D!AddCreated(p, c)
  PROVE  /\ SameFrame(q, p) /\ q.selected = c /\ q.updating = FALSE
         /\ Joined(q.list, RowT, p.list, c)
<1> DEFINE place == IF D!Index(p) > 0 THEN D!Index(p) ELSE D!Max({1, Len(p.list)})
           list == D!InsertAt(p.list, place, c)
<1>1. p.list \in Seq(RowT) /\ DOMAIN p.list = 1 .. Len(p.list) /\ Len(p.list) \in Nat
  BY DEF DialogPageT
<1>2. q = [p EXCEPT !.list = list, !.selected = c, !.updating = FALSE]
  BY DEF D!AddCreated
<1>3. place \in 1 .. Len(p.list) + 1
  <2>1. D!Max({1, Len(p.list)}) = IF Len(p.list) > 1 THEN Len(p.list) ELSE 1
    BY <1>1 DEF D!Max
  <2> QED
    BY <1>1, <2>1, IndexIs
<1> HIDE DEF place
<1>4. Joined(list, RowT, p.list, c)
  BY <1>1, <1>3, InsertedIs
<1>5. list \in Seq(RowT)
  BY <1>4 DEF Joined
<1> HIDE DEF list
<1>6. PICK up \in BOOLEAN : up = FALSE
  OBVIOUS
<1>7. q = [p EXCEPT !.list = list, !.selected = c, !.updating = up]
  BY <1>2, <1>6
<1>8. SameFrame(q, p) /\ q.list = list /\ q.selected = c /\ q.updating = up
  BY <1>5, <1>7 DEF DialogPageT, SameFrame
<1> QED
  BY <1>4, <1>6, <1>8

LEMMA RemoveSelectedIs ==
  ASSUME NEW p \in DialogPageT, NEW q, q = D!RemoveSelected(p)
  PROVE  /\ SameFrame(q, p) /\ q.updating = p.updating /\ Selected(q)
         /\ \A i \in DOMAIN q.list : \E m \in DOMAIN p.list : q.list[i] = p.list[m]
<1> DEFINE place == IF D!Index(p) > 0 THEN D!Index(p) ELSE Len(p.list)
           list == IF p.list = <<>> THEN <<>> ELSE D!RemoveAt(p.list, place)
           now == IF D!Index(p) \in DOMAIN list THEN list[D!Index(p)] ELSE D!NoProfile
<1>1. p.list \in Seq(RowT) /\ DOMAIN p.list = 1 .. Len(p.list) /\ Len(p.list) \in Nat
      /\ p.updating \in BOOLEAN
  BY DEF DialogPageT
<1>2. q = [p EXCEPT !.list = list, !.selected = now]
  BY Zenon DEF D!RemoveSelected
<1>3. p.list # <<>> => place \in DOMAIN p.list
  BY <1>1, IndexIs
<1>4. list \in Seq(RowT) /\ \A i \in DOMAIN list : \E m \in DOMAIN p.list : list[i] = p.list[m]
  <2>1. CASE p.list = <<>>
    BY <2>1
  <2>2. CASE p.list # <<>>
    <3> HIDE DEF place
    <3>1. LeftOf(D!RemoveAt(p.list, place), RowT, p.list, place)
      BY <1>1, <1>3, <2>2, RemovalIs
    <3> QED
      BY <2>2, <3>1 DEF LeftOf
  <2> QED
    BY <2>1, <2>2
<1> HIDE DEF list, place
<1>5. now \in RowT /\ (now = D!NoProfile \/ \E i \in DOMAIN list : list[i] = now)
  BY <1>4, NothingIs
<1> HIDE DEF now
<1>6. q = [p EXCEPT !.list = list, !.selected = now, !.updating = p.updating]
  BY <1>1, <1>2 DEF DialogPageT
<1>7. SameFrame(q, p) /\ q.list = list /\ q.selected = now /\ q.updating = p.updating
  BY <1>1, <1>4, <1>5, <1>6 DEF DialogPageT, SameFrame
<1> QED
  BY <1>4, <1>5, <1>7 DEF Selected

LEMMA WithoutReceiverIs ==
  ASSUME NEW p \in DialogPageT, NEW made, NEW id, NEW q, q = D!WithoutReceiver(p, made, id)
  PROVE  /\ SameFrame(q, p) /\ q.updating = p.updating /\ (Selected(p) => Selected(q))
         /\ \A i \in DOMAIN q.list : i \in DOMAIN p.list /\ q.list[i].url = p.list[i].url
<1> DEFINE Cleared(row) ==
             IF row.made = made /\ row.id = id THEN [row EXCEPT !.receiver = 0] ELSE row
           list == [i \in DOMAIN p.list |-> Cleared(p.list[i])]
           now == Cleared(p.selected)
<1>1. p.list \in Seq(RowT) /\ DOMAIN p.list = 1 .. Len(p.list) /\ Len(p.list) \in Nat
      /\ p.updating \in BOOLEAN /\ p.selected \in RowT /\ \A i \in DOMAIN p.list : p.list[i] \in RowT
  BY DEF DialogPageT
<1>2. q = [p EXCEPT !.list = list, !.selected = now]
  BY DEF D!WithoutReceiver
<1>3. \A row \in RowT : Cleared(row) \in RowT /\ Cleared(row).url = row.url
                        /\ Cleared(row).settings = row.settings
  BY DEF RowT
<1>4. Cleared(D!NoProfile) = D!NoProfile
  BY DEF D!NoProfile, D!Profile
<1>5. list \in [1 .. Len(p.list) -> RowT]
  BY <1>1, <1>3
<1>6. list \in Seq(RowT) /\ DOMAIN list = DOMAIN p.list
  BY <1>1, <1>5, RowOf
<1>7. \A i \in DOMAIN p.list : list[i] = Cleared(p.list[i])
  OBVIOUS
<1>8. now \in RowT /\ now.settings = p.selected.settings
  BY <1>1, <1>3
<1>9. p.list = <<>> => list = <<>>
  BY <1>1, <1>6
<1>10. q = [p EXCEPT !.list = list, !.selected = now, !.updating = p.updating]
  BY <1>1, <1>2 DEF DialogPageT
<1>11. p.selected = D!NoProfile => now = D!NoProfile
  BY <1>4
<1>12. \A i \in DOMAIN p.list : p.list[i] = p.selected => list[i] = now
  BY <1>7
<1>13. \A i \in DOMAIN list : i \in DOMAIN p.list /\ list[i].url = p.list[i].url
  BY <1>1, <1>3, <1>6, <1>7
<1> HIDE DEF list, now, Cleared
<1>14. SameFrame(q, p) /\ q.list = list /\ q.selected = now /\ q.updating = p.updating
  BY <1>1, <1>6, <1>8, <1>10 DEF DialogPageT, SameFrame
<1>15. Selected(p) => Selected(q)
  BY <1>6, <1>8, <1>9, <1>11, <1>12, <1>14 DEF Selected
<1> QED
  BY <1>13, <1>14, <1>15

\* The rows for the profiles found, and the one that says that nothing is selected.
LEMMA RowsAre ==
  ASSUME NEW r \in AskT, NEW rows,
         rows = IF r.url \in Bare THEN <<>>
                ELSE <<D!Profile(r.no, r.url, 0, TRUE, 0)>> \o
                     [i \in DOMAIN D!Sorted(DOMAIN r.list) |->
                        D!Profile(r.no, r.url, D!Sorted(DOMAIN r.list)[i], TRUE,
                                  r.list[D!Sorted(DOMAIN r.list)[i]])]
  PROVE  rows \in Seq(RowT) /\ \A i \in DOMAIN rows : rows[i].url = r.url
<1>1. /\ r.url \in Urls /\ r.no \in Int /\ r.id \in Int /\ r.list \in Lists
  BY DEF AskT
<1>2. PICK S \in SUBSET ProfileId : r.list \in [S -> Nat]
  BY <1>1 DEF Lists
<1>3. DOMAIN r.list = S
  BY <1>2
<1> DEFINE n == Cardinality(S)
<1>4. S \in SUBSET Ids /\ IsFiniteSet(S) /\ \A id \in S : id \in Int
  <2>1. IsFiniteSet(ProfileId) /\ ProfileId \subseteq Ids /\ \A id \in Ids : id \in Int
    BY PagesAssumption DEF Ids
  <2>2. IsFiniteSet(S)
    BY <2>1, FS_Subset
  <2> QED
    BY <2>1, <2>2
<1>5. n \in Nat /\ D!Cardinality(S) = n /\ \A i \in 1 .. n : D!Sorted(S)[i] \in S
  BY <1>4, SortedIs
<1> HIDE DEF n
<1>6. DOMAIN D!Sorted(S) = 1 .. n
  BY <1>5 DEF D!Sorted
<1> DEFINE first == D!Profile(r.no, r.url, 0, TRUE, 0)
           b == [i \in 1 .. n |-> D!Profile(r.no, r.url, D!Sorted(S)[i], TRUE, r.list[D!Sorted(S)[i]])]
           a == <<first>>
<1>7. first \in RowT /\ first.url = r.url
  BY <1>1 DEF D!Profile, RowT
<1>8. \A i \in 1 .. n : b[i] \in RowT /\ b[i].url = r.url
  <2> SUFFICES ASSUME NEW i \in 1 .. n PROVE b[i] \in RowT /\ b[i].url = r.url
    OBVIOUS
  <2> DEFINE id == D!Sorted(S)[i]
             receiver == r.list[id]
  <2>1. id \in S
    BY <1>5
  <2>2. receiver \in Int
    BY <1>2, <2>1
  <2>3. id \in Int
    BY <1>4, <2>1
  <2>4. b[i] = D!Profile(r.no, r.url, id, TRUE, receiver)
    OBVIOUS
  <2> HIDE DEF id, receiver, b
  <2> QED
    BY <1>1, <2>2, <2>3, <2>4 DEF D!Profile, RowT
<1>9. rows = IF r.url \in Bare THEN <<>> ELSE a \o b
  BY <1>3, <1>6
<1>10. b \in [1 .. n -> RowT]
  BY <1>8
<1>11. b \in Seq(RowT) /\ DOMAIN b = 1 .. n
  BY <1>5, <1>10, RowOf
<1>12. Len(b) = n
  BY <1>5, <1>11
<1> HIDE DEF first
<1>13. a \in Seq(RowT) /\ Len(a) = 1 /\ a[1] = first
  BY <1>7
<1> HIDE DEF a, b
<1> DEFINE ab == a \o b
<1>14. ab \in Seq(RowT) /\ Len(ab) = 1 + n /\ DOMAIN ab = 1 .. 1 + n
  <2>1. ab \in Seq(RowT) /\ Len(ab) = Len(a) + Len(b)
    BY <1>11, <1>13, ConcatProperties
  <2> HIDE DEF ab
  <2> QED
    BY <1>5, <1>12, <1>13, <2>1
<1>15. \A j \in 1 .. 1 + n : ab[j] = IF j <= 1 THEN a[j] ELSE b[j - 1]
  <2>1. \A j \in 1 .. Len(a) + Len(b) : ab[j] = IF j <= Len(a) THEN a[j] ELSE b[j - Len(a)]
    BY <1>11, <1>13, ConcatProperties
  <2> HIDE DEF ab
  <2> QED
    BY <1>12, <1>13, <2>1
<1> HIDE DEF ab
<1>16. \A i \in DOMAIN ab : ab[i].url = r.url
  <2> SUFFICES ASSUME NEW i \in 1 .. 1 + n PROVE ab[i].url = r.url
    BY <1>14
  <2>1. CASE i = 1
    <3>1. ab[i] = first
      BY <1>5, <1>13, <1>15, <2>1
    <3> QED
      BY <1>7, <3>1
  <2>2. CASE i # 1
    <3>1. i - 1 \in 1 .. n /\ ab[i] = b[i - 1]
      BY <1>5, <1>15, <2>2
    <3> QED
      BY <1>8, <3>1
  <2> QED
    BY <2>1, <2>2
<1>17. rows = IF r.url \in Bare THEN <<>> ELSE ab
  BY <1>9 DEF ab
<1>18. CASE r.url \in Bare
  <2>1. rows = <<>>
    BY <1>17, <1>18
  <2>2. <<>> \in Seq(RowT) /\ \A i \in DOMAIN <<>> : FALSE
    OBVIOUS
  <2> QED
    BY <2>1, <2>2, Zenon
<1>19. CASE r.url \notin Bare
  BY <1>14, <1>16, <1>17, <1>19
<1> QED
  BY <1>18, <1>19

LEMMA WithProfilesIs ==
  ASSUME NEW p \in DialogPageT, NEW r \in AskT, NEW q, q = D!WithProfiles(p, r)
  PROVE  /\ q \in DialogPageT /\ q.collector.url = r.url /\ q.invalid = p.invalid
         /\ q.inProgress = p.inProgress /\ q.url = p.url /\ q.updating = p.updating
         /\ p.selected = D!NoProfile => Selected(q)
         /\ \A i \in DOMAIN q.list : q.list[i].url \in {r.url, NoUrl}
<1> DEFINE ids == D!Sorted(DOMAIN r.list)
           rows == IF r.url \in Bare THEN <<>>
                   ELSE <<D!Profile(r.no, r.url, 0, TRUE, 0)>> \o
                        [i \in DOMAIN ids |-> D!Profile(r.no, r.url, ids[i], TRUE, r.list[ids[i]])]
           named == {i \in DOMAIN rows : r.id # 0 /\ rows[i].id = r.id}
           other == D!Profile(r.no, NoUrl, r.id, FALSE, 0)
           none == named = {} /\ p.selected = D!NoProfile
           more == <<other>> \o rows
           list == IF none /\ rows # <<>> THEN more ELSE rows
           now == IF named # {} THEN rows[D!Max(named)] ELSE IF none THEN other ELSE p.selected
           c == D!At(r.url, 0)
<1>1. rows \in Seq(RowT) /\ \A i \in DOMAIN rows : rows[i].url = r.url
  <2>1. rows = IF r.url \in Bare THEN <<>>
                ELSE <<D!Profile(r.no, r.url, 0, TRUE, 0)>> \o
                     [i \in DOMAIN D!Sorted(DOMAIN r.list) |->
                        D!Profile(r.no, r.url, D!Sorted(DOMAIN r.list)[i], TRUE,
                                  r.list[D!Sorted(DOMAIN r.list)[i]])]
    BY Zenon
  <2> HIDE DEF rows
  <2> QED
    BY <2>1, RowsAre, Zenon
<1>2. q = [p EXCEPT !.collector = c, !.list = list, !.selected = now]
  BY Zenon DEF D!WithProfiles
<1> HIDE DEF rows
<1>3. DOMAIN rows = 1 .. Len(rows) /\ Len(rows) \in Nat
  BY <1>1
<1>4. named # {} => D!Max(named) \in named
  <2>1. named \subseteq DOMAIN rows
    OBVIOUS
  <2>2. IsFiniteSet(DOMAIN rows)
    BY <1>3, SizeOfRange
  <2>3. IsFiniteSet(named) /\ named \in SUBSET Int
    BY <1>3, <2>1, <2>2, FS_Subset
  <2> HIDE DEF named
  <2> QED
    BY <2>3, GreatestOfAny DEF D!Max
<1>5. r.url \in Urls /\ r.no \in Int /\ r.id \in Int /\ p.selected \in RowT /\ p.list \in Seq(RowT)
  BY DEF AskT, DialogPageT
<1>6. other \in RowT /\ other.url = NoUrl /\ other.settings = FALSE
  BY <1>5 DEF D!Profile, RowT, Urls
<1>7. c \in AddressT /\ c.url = r.url
  BY <1>5 DEF D!At, AddressT
<1>8. named # {} => D!Max(named) \in DOMAIN rows
  BY <1>4
<1> HIDE DEF other, c, named
<1>9. /\ more \in Seq(RowT) /\ 1 \in DOMAIN more /\ more[1] = other
      /\ \A i \in DOMAIN more : more[i] = other \/ \E j \in DOMAIN rows : more[i] = rows[j]
  <2> DEFINE a == <<other>>
  <2>1. a \in Seq(RowT) /\ Len(a) = 1 /\ a[1] = other
    BY <1>6
  <2>2. more = a \o rows
    OBVIOUS
  <2> HIDE DEF a, more
  <2>3. more \in Seq(RowT) /\ Len(more) = Len(a) + Len(rows)
    BY <1>1, <2>1, <2>2, ConcatProperties
  <2>4. \A j \in 1 .. Len(a) + Len(rows) : more[j] = IF j <= Len(a) THEN a[j] ELSE rows[j - Len(a)]
    BY <1>1, <2>1, <2>2, ConcatProperties
  <2>5. DOMAIN more = 1 .. 1 + Len(rows)
    BY <1>3, <2>1, <2>3
  <2>6. 1 \in DOMAIN more /\ more[1] = other
    BY <1>3, <2>1, <2>4, <2>5
  <2>7. ASSUME NEW i \in DOMAIN more, i # 1 PROVE i - 1 \in DOMAIN rows /\ more[i] = rows[i - 1]
    BY <1>3, <2>1, <2>4, <2>5, <2>7
  <2> QED
    BY <2>3, <2>6, <2>7
<1> HIDE DEF more
<1>10. list \in Seq(RowT) /\ now \in RowT
  BY <1>1, <1>5, <1>6, <1>8, <1>9
<1>11. \A i \in DOMAIN list : list[i].url \in {r.url, NoUrl}
  BY <1>1, <1>6, <1>9
<1>12. p.selected = D!NoProfile =>
         (\E i \in DOMAIN list : list[i] = now) \/ (list = <<>> /\ ~now.settings)
  BY <1>6, <1>8, <1>9
<1> HIDE DEF list, now
<1>13. /\ q \in DialogPageT /\ q.collector = c /\ q.list = list /\ q.selected = now
       /\ q.invalid = p.invalid /\ q.inProgress = p.inProgress /\ q.url = p.url
       /\ q.updating = p.updating
  BY <1>2, <1>7, <1>10 DEF DialogPageT
<1>14. p.selected = D!NoProfile => Selected(q)
  BY <1>12, <1>13 DEF Selected
<1> QED
  BY <1>7, <1>11, <1>13, <1>14


-----------------------------------------------------------------------------
(* The dialog of a new receiver: what its steps keep *)

\* The request of a dialog above, or of no dialog.
AskedAbove(r) ==
  /\ r.kind # "profiles"
  /\ Changes(r) => /\ r.no \in 1 .. dialogs
                   /\ \E i \in DOMAIN nested : nested[i].no = r.no /\ nested[i].url = r.url

\* Requests are those there were, answered or not, or such ones.
AsksKept(q) ==
  \A j \in DOMAIN q :
    \/ \E m \in DOMAIN asks : q[j].kind = asks[m].kind /\ q[j].no = asks[m].no /\ q[j].url = asks[m].url
    \/ AskedAbove(q[j])

\* No dialog is new.
DialogsKept(q) ==
  /\ \A j \in DOMAIN q : \E m \in DOMAIN nested : q[j].no = nested[m].no /\ q[j].url = nested[m].url
  /\ nested = <<>> => q = <<>>

\* A step that searches nothing and asks for no dialog.
LEMMA StepKeeps ==
  ASSUME DialogInv, DialogTypes', AsksKept(asks'), DialogsKept(nested'),
         UNCHANGED <<searches, dialogs, raced>>,
         page'.url = page.url, page'.inProgress \in {0, page.inProgress},
         page'.collector.url \in {NoUrl, page.url}, Buttons(page', nested'),
         ~raced =>
           /\ Selected(page')
           /\ \A i \in DOMAIN page'.list : page'.list[i].url \in {page'.collector.url, NoUrl}
           /\ nested # <<>> => page'.collector.url = page.collector.url
           /\ page'.inProgress # 0 =>
                page'.list = <<>> /\ page'.selected = D!NoProfile /\ ~page'.invalid
  PROVE  DialogInv'
<1>1. Answers(asks', page', searches')
  <2>1. \A m \in DOMAIN asks : Answer(asks[m], page, searches)
    BY DEF DialogInv, Answers
  <2>2. searches \in Nat
    BY DEF DialogInv, DialogTypes
  <2>3. \A k \in DOMAIN asks' : Answer(asks'[k], page', searches)
    BY <2>1, <2>2 DEF AsksKept, AskedAbove, Answer
  <2> QED
    BY <2>3 DEF Answers
<1>2. Numbered(nested', asks', dialogs')
  <2>1. /\ \A i \in DOMAIN nested : nested[i].no \in 1 .. dialogs
        /\ \A k \in DOMAIN asks : Changes(asks[k]) => asks[k].no \in 1 .. dialogs
    BY DEF DialogInv, Numbered
  <2>2. \A i \in DOMAIN nested' : nested'[i].no \in 1 .. dialogs
    BY <2>1 DEF DialogsKept
  <2>3. \A k \in DOMAIN asks' : Changes(asks'[k]) => asks'[k].no \in 1 .. dialogs
    BY <2>1 DEF AsksKept, AskedAbove, Changes
  <2> QED
    BY <2>2, <2>3 DEF Numbered
<1>3. ASSUME ~raced PROVE Apart(page', nested', asks')
  <2>1. Quiet(page, nested) /\ OfCollector(page, nested, asks)
    BY <1>3 DEF DialogInv, Apart
  <2>2. Quiet(page', nested')
    BY <1>3, <2>1 DEF Quiet, DialogsKept
  <2>3. \A j \in DOMAIN nested' : nested # <<>>
    BY DEF DialogsKept
  <2>4. \A j \in DOMAIN nested' : nested'[j].url = page'.collector.url
    BY <1>3, <2>1, <2>3 DEF DialogsKept, OfCollector
  <2>5. ASSUME NEW k \in DOMAIN asks', NEW j \in DOMAIN nested', Changes(asks'[k]),
               asks'[k].no = nested'[j].no
        PROVE  asks'[k].url = nested'[j].url
    <3>1. PICK m \in DOMAIN nested : nested'[j].no = nested[m].no /\ nested'[j].url = nested[m].url
      BY DEF DialogsKept
    <3>2. CASE \E l \in DOMAIN asks : asks'[k].kind = asks[l].kind /\ asks'[k].no = asks[l].no
                                      /\ asks'[k].url = asks[l].url
      <4>1. PICK l \in DOMAIN asks : asks'[k].kind = asks[l].kind /\ asks'[k].no = asks[l].no
                                     /\ asks'[k].url = asks[l].url
        BY <3>2
      <4>2. Changes(asks[l]) /\ asks[l].no = nested[m].no
        BY <2>5, <3>1, <4>1 DEF Changes
      <4> QED
        BY <2>1, <3>1, <4>1, <4>2 DEF OfCollector
    <3>3. CASE AskedAbove(asks'[k])
      BY <2>1, <2>5, <3>1, <3>3 DEF AskedAbove, OfCollector
    <3> QED
      BY <3>2, <3>3 DEF AsksKept
  <2>6. OfCollector(page', nested', asks')
    BY <1>3, <2>4, <2>5 DEF OfCollector
  <2> QED
    BY <1>3, <2>2, <2>6 DEF Apart
<1> QED
  BY <1>1, <1>2, <1>3, DialogPrimed

\* Everything but the requests and the dialogs is as before.
LEMMA PageKeeps ==
  ASSUME DialogInv, DialogTypes', AsksKept(asks'), DialogsKept(nested'),
         UNCHANGED <<searches, dialogs, raced, page>>, Buttons(page, nested')
  PROVE  DialogInv'
<1>1. page.collector.url \in {NoUrl, page.url}
  BY DEF DialogInv, Answers
<1>2. ~raced => /\ Selected(page)
                /\ \A i \in DOMAIN page.list : page.list[i].url \in {page.collector.url, NoUrl}
                /\ page.inProgress # 0 =>
                     page.list = <<>> /\ page.selected = D!NoProfile /\ ~page.invalid
  BY DEF DialogInv, Apart, OfCollector, Quiet
<1> QED
  BY <1>1, <1>2, StepKeeps

LEMMA AsksSame == asks' = asks => AsksKept(asks')
BY DEF AsksKept

LEMMA DialogsSame == nested' = nested => DialogsKept(nested')
BY DEF DialogsKept

\* A request is sent.
LEMMA AskIs ==
  ASSUME DialogTypes, NEW kind \in {"profiles", "receiver", "save", "delete"}, NEW no \in Nat,
         NEW place, place.url \in Urls, place.id \in Int, NEW receiver \in Int,
         kind = "save" => place.id \in ProfileId, D!Ask(kind, no, place, receiver)
  PROVE  /\ asks' \in Seq(AskT) /\ Len(asks') <= MaxRequests
         /\ \E r \in AskT : /\ Joined(asks', AskT, asks, r)
                            /\ r.kind = kind /\ r.no = no /\ r.url = place.url
<1> DEFINE r == [kind |-> kind, no |-> no, url |-> place.url, id |-> place.id,
                 receiver |-> receiver, stage |-> "sent", list |-> <<>>]
<1>1. asks' = Append(asks, r) /\ Len(asks) < MaxRequests
  BY DEF D!Ask
<1>2. r \in AskT
  BY NoList DEF AskT, Stages
<1>3. r.kind = kind /\ r.no = no /\ r.url = place.url
  OBVIOUS
<1> HIDE DEF r
<1>4. asks \in Seq(AskT) /\ MaxRequests \in Nat
  BY PagesAssumption DEF DialogTypes
<1>5. Joined(asks', AskT, asks, r)
  BY <1>1, <1>2, <1>4, AppendedIs
<1>6. asks' \in Seq(AskT) /\ Len(asks') <= MaxRequests
  BY <1>1, <1>4, <1>5 DEF Joined
<1> QED
  BY <1>2, <1>3, <1>5, <1>6

LEMMA SearchedIs ==
  \A place \in Searched : place.url \in Url /\ place.url \in Urls /\ place.id \in Int
<1>1. \A u \in Connected : u \in Url
  BY PagesAssumption
<1>2. \A id \in ProfileId : id \in Int
  BY PagesAssumption
<1>3. \A place \in [url : Url, id : {0}] : place.url \in Url /\ place.id \in Int
  OBVIOUS
<1>4. \A place \in [url : Connected, id : ProfileId \ {1}] : place.url \in Url /\ place.id \in Int
  BY <1>1, <1>2
<1> QED
  BY <1>3, <1>4 DEF Searched, Urls

LEMMA FindingKeeps ==
  ASSUME DialogInv, NEW place \in Searched, D!Find(place)
  PROVE  DialogInv'
<1>1. /\ searches' = searches + 1 /\ searches + dialogs < MaxClicks
      /\ page' = D!Searching(place.url) /\ D!Ask("profiles", searches + 1, place, 0)
      /\ raced' = (raced \/ nested # <<>>)
      /\ UNCHANGED <<collectors, receivers, nested, dialogs, outOfStep>>
  BY DEF D!Find
<1>2. place.url \in Urls /\ place.id \in Int
  BY SearchedIs
<1>3. /\ DialogTypes /\ searches \in Nat /\ dialogs \in Nat /\ page \in DialogPageT
      /\ raced \in BOOLEAN /\ MaxClicks \in Nat
  BY PagesAssumption DEF DialogInv, DialogTypes
<1>4. /\ asks' \in Seq(AskT) /\ Len(asks') <= MaxRequests
      /\ \E r \in AskT : /\ Joined(asks', AskT, asks, r)
                         /\ r.kind = "profiles" /\ r.no = searches + 1 /\ r.url = place.url
  <2>1. searches + 1 \in Nat
    BY <1>3
  <2> QED
    BY <1>1, <1>2, <1>3, <2>1, AskIs
<1>5. PICK r \in AskT : /\ Joined(asks', AskT, asks, r)
                        /\ r.kind = "profiles" /\ r.no = searches + 1 /\ r.url = place.url
  BY <1>4
<1>6. /\ page' \in DialogPageT /\ page'.collector = D!Nowhere /\ page'.list = <<>>
      /\ page'.selected = D!NoProfile /\ ~page'.invalid /\ page'.inProgress = searches + 1
      /\ page'.url = place.url /\ page'.updating = page.updating
  <2> DEFINE none == D!NoProfile
             nowhere == D!Nowhere
             n == searches + 1
  <2>1. page' = [page EXCEPT !.collector = nowhere, !.list = <<>>, !.selected = none,
                             !.invalid = FALSE, !.inProgress = n, !.url = place.url]
    BY <1>1 DEF D!Searching
  <2>2. none \in RowT /\ nowhere \in AddressT /\ n \in Nat /\ <<>> \in Seq(RowT)
    BY <1>3, NothingIs
  <2> HIDE DEF none, nowhere, n
  <2>3. /\ page' \in DialogPageT /\ page'.collector = nowhere /\ page'.list = <<>>
        /\ page'.selected = none /\ ~page'.invalid /\ page'.inProgress = n
        /\ page'.url = place.url /\ page'.updating = page.updating
    BY <1>2, <1>3, <2>1, <2>2 DEF DialogPageT
  <2> QED
    BY <2>3 DEF none, nowhere, n
<1>7. DialogTypes'
  <2>1. searches' \in Nat /\ searches' + dialogs' <= MaxClicks /\ page'.inProgress <= searches'
    BY <1>1, <1>3, <1>6
  <2>2. raced' \in BOOLEAN
    BY <1>1, <1>3
  <2> QED
    BY <1>1, <1>3, <1>4, <1>6, <2>1, <2>2 DEF DialogTypes
<1>8. Answers(asks', page', searches')
  <2>1. Answer(r, page', searches')
    BY <1>1, <1>3, <1>5, <1>6 DEF Answer
  <2>2. ASSUME NEW k \in DOMAIN asks PROVE Answer(asks[k], page', searches')
    <3>1. Answer(asks[k], page, searches)
      BY DEF DialogInv, Answers
    <3> QED
      BY <1>1, <1>3, <1>6, <3>1 DEF Answer
  <2>3. \A k \in DOMAIN asks' : Answer(asks'[k], page', searches')
    BY <1>5, <2>1, <2>2 DEF Joined
  <2> QED
    BY <1>6, <2>3, NothingIs DEF Answers
<1>9. Numbered(nested', asks', dialogs')
  <2>1. ~Changes(r)
    BY <1>5 DEF Changes
  <2> QED
    BY <1>1, <1>5, <2>1 DEF DialogInv, Numbered, Joined
<1>10. Buttons(page', nested')
  BY <1>1, <1>6 DEF DialogInv, Buttons
<1>11. ~raced' => Apart(page', nested', asks')
  <2> SUFFICES ASSUME ~raced' PROVE Apart(page', nested', asks')
    OBVIOUS
  <2>1. nested' = <<>> /\ page'.list = <<>>
    BY <1>1, <1>6, Zenon
  <2>2. DOMAIN nested' = {} /\ DOMAIN page'.list = {}
    BY <2>1
  <2> QED
    BY <1>6, <2>1, <2>2 DEF Apart, Quiet, Selected, OfCollector
<1> QED
  BY <1>7, <1>8, <1>9, <1>10, <1>11, DialogPrimed

LEMMA SelectProfileKeeps ==
  ASSUME DialogInv, NEW i \in DOMAIN page.list, D!SelectProfile(i)
  PROVE  DialogInv'
<1>1. /\ page' = [page EXCEPT !.selected = page.list[i]] /\ raced' = (raced \/ nested # <<>>)
      /\ UNCHANGED <<collectors, receivers, nested, asks, searches, dialogs, outOfStep>>
  BY DEF D!SelectProfile
<1>2. page \in DialogPageT /\ page.list \in Seq(RowT) /\ page.list[i] \in RowT /\ raced \in BOOLEAN
  BY DEF DialogInv, DialogTypes, DialogPageT
<1>3. /\ page' \in DialogPageT /\ page'.list = page.list /\ page'.selected = page.list[i]
      /\ page'.collector = page.collector /\ page'.inProgress = page.inProgress
      /\ page'.url = page.url /\ page'.updating = page.updating /\ page'.invalid = page.invalid
  BY <1>1, <1>2 DEF DialogPageT
<1>4. DialogTypes'
  BY <1>1, <1>2, <1>3 DEF DialogInv, DialogTypes
<1>5. Answers(asks', page', searches') /\ Numbered(nested', asks', dialogs')
  BY <1>1, <1>3 DEF DialogInv, Answers, Answer, Numbered
<1>6. Buttons(page', nested')
  BY <1>1, <1>3 DEF DialogInv, Buttons
<1>7. ~raced' => Apart(page', nested', asks')
  <2> SUFFICES ASSUME ~raced' PROVE Apart(page', nested', asks')
    OBVIOUS
  <2>1. Apart(page, nested, asks)
    BY <1>1 DEF DialogInv
  <2>2. page.inProgress = 0
    <3>1. page.list # <<>>
      BY <1>2
    <3> QED
      BY <2>1, <3>1 DEF Apart, Quiet
  <2>3. Selected(page') /\ Quiet(page', nested')
    BY <1>3, <2>2 DEF Selected, Quiet
  <2>4. OfCollector(page', nested', asks')
    BY <1>1, <1>3, <2>1 DEF Apart, OfCollector
  <2> QED
    BY <2>3, <2>4 DEF Apart
<1> QED
  BY <1>4, <1>5, <1>6, <1>7, DialogPrimed

\* A dialog is asked for, about the collector that is shown.
LEMMA OpenKeeps ==
  ASSUME DialogInv, NEW kind \in {"create", "configure", "delete"}, NEW over \in Nat, NEW place,
         place.url \in Urls, place.id \in Int, NEW made \in Int, NEW receiver \in Int,
         D!OpenDialog(kind, over, place, made, receiver),
         SameFrame(page', page), page'.list = page.list, page'.selected = page.selected,
         page'.updating => page.updating \/ kind = "create",
         ~raced => page.inProgress = 0 /\ place.url = page.collector.url
  PROVE  DialogInv'
<1> DEFINE d == [no |-> dialogs + 1, kind |-> kind, over |-> over, open |-> FALSE,
                 url |-> place.url, id |-> place.id, made |-> made,
                 receiver |-> receiver, updating |-> FALSE]
<1>1. /\ searches + dialogs < MaxClicks /\ dialogs' = dialogs + 1 /\ nested' = Append(nested, d)
      /\ raced' = (raced \/ (nested # <<>> /\ over = 0))
      /\ UNCHANGED <<collectors, receivers, asks, searches, outOfStep>>
  BY DEF D!OpenDialog
<1>2. /\ DialogTypes /\ searches \in Nat /\ dialogs \in Nat /\ nested \in Seq(NestedT)
      /\ raced \in BOOLEAN /\ MaxClicks \in Nat /\ Len(nested) <= dialogs /\ Len(nested) \in Nat
  BY PagesAssumption DEF DialogInv, DialogTypes
<1>3. d \in NestedT /\ d.no = dialogs + 1 /\ d.kind = kind /\ d.url = place.url
  <2>1. dialogs + 1 \in Nat
    BY <1>2
  <2> QED
    BY <2>1 DEF NestedT
<1> HIDE DEF d
<1>4. Joined(nested', NestedT, nested, d)
  BY <1>1, <1>2, <1>3, AppendedIs
<1>5. nested' \in Seq(NestedT) /\ Len(nested') = Len(nested) + 1
  BY <1>4 DEF Joined
<1>6. DialogTypes'
  <2>1. dialogs' \in Nat /\ searches' + dialogs' <= MaxClicks /\ Len(nested') <= dialogs'
    BY <1>1, <1>2, <1>5
  <2>2. raced' \in BOOLEAN /\ page' \in DialogPageT /\ page'.inProgress = page.inProgress
    BY <1>1, <1>2 DEF SameFrame
  <2> QED
    BY <1>1, <1>2, <1>5, <2>1, <2>2 DEF DialogTypes
<1>7. Answers(asks', page', searches')
  BY <1>1 DEF DialogInv, Answers, Answer, SameFrame
<1>8. Numbered(nested', asks', dialogs')
  <2>1. /\ \A i \in DOMAIN nested : nested[i].no \in 1 .. dialogs
        /\ \A k \in DOMAIN asks : Changes(asks[k]) => asks[k].no \in 1 .. dialogs
    BY DEF DialogInv, Numbered
  <2>2. \A n \in 1 .. dialogs : n \in 1 .. dialogs'
    BY <1>1, <1>2
  <2>3. d.no \in 1 .. dialogs'
    BY <1>1, <1>2, <1>3
  <2>4. \A j \in DOMAIN nested' : nested'[j].no \in 1 .. dialogs'
    BY <1>4, <2>1, <2>2, <2>3 DEF Joined
  <2> QED
    BY <1>1, <2>1, <2>2, <2>4 DEF Numbered
<1>9. Buttons(page', nested')
  <2> SUFFICES ASSUME page'.updating PROVE \E j \in DOMAIN nested' : nested'[j].kind = "create"
    BY DEF Buttons
  <2>1. CASE kind = "create"
    BY <1>3, <1>4, <2>1 DEF Joined
  <2>2. CASE page.updating
    <3>1. PICK m \in DOMAIN nested : nested[m].kind = "create"
      BY <2>2 DEF DialogInv, Buttons
    <3> QED
      BY <1>4, <3>1 DEF Joined
  <2> QED
    BY <2>1, <2>2
<1>10. ~raced' => Apart(page', nested', asks')
  <2> SUFFICES ASSUME ~raced' PROVE Apart(page', nested', asks')
    OBVIOUS
  <2>1. /\ ~raced /\ Apart(page, nested, asks)
        /\ page.inProgress = 0 /\ d.url = page.collector.url
    BY <1>1, <1>3 DEF DialogInv
  <2>2. Quiet(page', nested') /\ Selected(page')
    BY <2>1 DEF SameFrame, Quiet, Selected, Apart
  <2>3. \A j \in DOMAIN nested' : nested'[j].url = page'.collector.url
    BY <1>4, <2>1 DEF Joined, Apart, OfCollector, SameFrame
  <2>4. \A k \in DOMAIN asks : Changes(asks[k]) => asks[k].no # d.no
    <3>1. \A k \in DOMAIN asks : Changes(asks[k]) => asks[k].no \in 1 .. dialogs
      BY DEF DialogInv, Numbered
    <3> QED
      BY <1>2, <1>3, <3>1
  <2>5. \A k \in DOMAIN asks, j \in DOMAIN nested' :
          Changes(asks[k]) /\ asks[k].no = nested'[j].no => asks[k].url = nested'[j].url
    <3> SUFFICES ASSUME NEW k \in DOMAIN asks, NEW j \in DOMAIN nested', Changes(asks[k]),
                        asks[k].no = nested'[j].no
                 PROVE  asks[k].url = nested'[j].url
      OBVIOUS
    <3>1. PICK m \in DOMAIN nested : nested'[j] = nested[m]
      BY <1>4, <2>4 DEF Joined
    <3> QED
      BY <2>1, <3>1 DEF Apart, OfCollector
  <2>6. OfCollector(page', nested', asks')
    BY <1>1, <2>1, <2>3, <2>5 DEF Apart, OfCollector, SameFrame
  <2> QED
    BY <2>2, <2>6 DEF Apart
<1> QED
  BY <1>6, <1>7, <1>8, <1>9, <1>10, DialogPrimed

\* While a search is waited for, nothing is selected that a dialog could be asked for.
LEMMA ModeIs ==
  ASSUME DialogInv, ~raced, D!Mode \in {"new", "connect", "again"}
  PROVE  page.inProgress = 0
<1>1. ASSUME page.selected = D!NoProfile, ~page.invalid PROVE FALSE
  BY <1>1, NothingIs DEF D!Mode
<1> QED
  BY <1>1 DEF DialogInv, Apart, Quiet

LEMMA PageParts ==
  ASSUME DialogInv
  PROVE  /\ page \in DialogPageT /\ page.collector \in AddressT /\ page.collector.url \in Urls
         /\ page.selected \in RowT /\ page.selected.id \in Int /\ page.selected.made \in Int
         /\ page.selected.receiver \in Int
<1>1. page \in DialogPageT
  BY DEF DialogInv, DialogTypes
<1>2. page.collector \in AddressT /\ page.selected \in RowT
  BY <1>1 DEF DialogPageT
<1> QED
  BY <1>1, <1>2 DEF AddressT, RowT

LEMMA CreateProfileKeeps ==
  ASSUME DialogInv, D!CreateProfile
  PROVE  DialogInv'
<1> DEFINE place == D!At(page.collector.url, 0)
<1>1. /\ D!Mode = "new" /\ D!OpenDialog("create", 0, place, 0, 0)
      /\ page' = [page EXCEPT !.updating = TRUE]
  BY DEF D!CreateProfile
<1>2. place.url = page.collector.url /\ place.id = 0
  BY DEF D!At
<1> HIDE DEF place
<1>3. SameFrame(page', page) /\ page'.list = page.list /\ page'.selected = page.selected
  BY <1>1, PageParts DEF SameFrame, DialogPageT
<1>4. ~raced => page.inProgress = 0
  BY <1>1, ModeIs
<1> DEFINE kind == "create"
<1>5. kind \in {"create", "configure", "delete"} /\ 0 \in Nat /\ 0 \in Int
  OBVIOUS
<1>6. D!OpenDialog(kind, 0, place, 0, 0) /\ (page'.updating => page.updating \/ kind = "create")
  BY <1>1
<1> HIDE DEF kind
<1>7. place.url \in Urls /\ place.id \in Int
  BY <1>2, <1>5, PageParts
<1> QED
  BY <1>2, <1>3, <1>4, <1>5, <1>6, <1>7, OpenKeeps

LEMMA OpenSelectedKeeps ==
  ASSUME DialogInv, NEW kind \in {"configure", "delete"}, D!OpenSelected(kind)
  PROVE  DialogInv'
<1> DEFINE place == D!At(page.collector.url, page.selected.id)
<1>1. /\ D!Mode \in {"connect", "again"}
      /\ D!OpenDialog(kind, 0, place, page.selected.made, page.selected.receiver)
      /\ page' = page
  BY DEF D!OpenSelected, D!Configurable
<1>2. place.url = page.collector.url /\ place.id = page.selected.id
  BY DEF D!At
<1> HIDE DEF place
<1>3. SameFrame(page', page) /\ page'.list = page.list /\ page'.selected = page.selected
  BY <1>1, PageParts DEF SameFrame
<1>4. ~raced => page.inProgress = 0
  BY <1>1, ModeIs
<1>5. kind \in {"create", "configure", "delete"} /\ 0 \in Nat
  OBVIOUS
<1> QED
  BY <1>1, <1>2, <1>3, <1>4, <1>5, PageParts, OpenKeeps

LEMMA DeleteInsideKeeps ==
  ASSUME DialogInv, NEW i \in DOMAIN nested, D!DeleteInside(i)
  PROVE  DialogInv'
<1> DEFINE d == nested[i]
<1>1. D!OpenDialog("delete", d.no, d, d.made, d.receiver) /\ page' = page
  BY DEF D!DeleteInside
<1>2. d.no \in Nat /\ d.url \in Urls /\ d.id \in Int /\ d.made \in Int /\ d.receiver \in Int
  <2>1. nested \in Seq(NestedT)
    BY DEF DialogInv, DialogTypes
  <2>2. nested[i] \in NestedT
    BY <2>1
  <2> QED
    BY <2>2 DEF NestedT
<1>3. ~raced => page.inProgress = 0 /\ d.url = page.collector.url
  BY DEF DialogInv, Apart, Quiet, OfCollector
<1> HIDE DEF d
<1>4. SameFrame(page', page) /\ page'.list = page.list /\ page'.selected = page.selected
  BY <1>1, PageParts DEF SameFrame
<1> QED
  BY <1>1, <1>2, <1>3, <1>4, OpenKeeps

\* The dialogs are the same ones, in any order.
SameDialogs(q) ==
  /\ q \in Seq(NestedT) /\ Len(q) = Len(nested) /\ DialogsKept(q)
  /\ \A m \in DOMAIN nested : \E j \in DOMAIN q : q[j].kind = nested[m].kind

LEMMA SameDialogsKeep ==
  ASSUME DialogInv, SameDialogs(nested'), AsksKept(asks'), asks' \in Seq(AskT), Len(asks') <= MaxRequests,
         UNCHANGED <<collectors, receivers, page, searches, dialogs, raced>>
  PROVE  DialogInv'
<1>1. DialogTypes'
  BY DEF DialogInv, DialogTypes, SameDialogs
<1>2. Buttons(page, nested')
  BY DEF DialogInv, Buttons, SameDialogs
<1> QED
  BY <1>1, <1>2, PageKeeps DEF SameDialogs

LEMMA DialogOpensKeeps ==
  ASSUME DialogInv, NEW i \in DOMAIN nested, D!DialogOpens(i)
  PROVE  DialogInv'
<1> DEFINE d == [nested[i] EXCEPT !.open = TRUE]
           rest == D!RemoveAt(nested, i)
<1>1. /\ nested' = Append(rest, d)
      /\ UNCHANGED <<collectors, receivers, page, asks, searches, dialogs, raced, outOfStep>>
  BY Zenon DEF D!DialogOpens
<1>2. nested \in Seq(NestedT) /\ nested[i] \in NestedT /\ DOMAIN nested = 1 .. Len(nested)
      /\ Len(nested) \in Nat /\ asks \in Seq(AskT) /\ Len(asks) <= MaxRequests
  BY DEF DialogInv, DialogTypes
<1>3. /\ d \in NestedT /\ d.no = nested[i].no /\ d.url = nested[i].url /\ d.kind = nested[i].kind
  BY <1>2 DEF NestedT
<1>4. LeftOf(rest, NestedT, nested, i)
  BY <1>2, RemovalIs
<1> HIDE DEF d, rest
<1>5. rest \in Seq(NestedT) /\ Len(rest) = Len(nested) - 1
  BY <1>4 DEF LeftOf
<1>6. Joined(nested', NestedT, rest, d)
  BY <1>1, <1>3, <1>5, AppendedIs
<1>7. nested' \in Seq(NestedT) /\ Len(nested') = Len(nested)
  BY <1>2, <1>5, <1>6 DEF Joined
<1>8. \A j \in DOMAIN nested' :
        \E m \in DOMAIN nested : nested'[j].no = nested[m].no /\ nested'[j].url = nested[m].url
  <2> SUFFICES ASSUME NEW j \in DOMAIN nested'
               PROVE  \E m \in DOMAIN nested : nested'[j].no = nested[m].no /\ nested'[j].url = nested[m].url
    OBVIOUS
  <2>1. CASE nested'[j] = d
    BY <1>3, <2>1
  <2>2. CASE \E l \in DOMAIN rest : nested'[j] = rest[l]
    BY <1>4, <2>2 DEF LeftOf
  <2> QED
    BY <1>6, <2>1, <2>2 DEF Joined
<1>9. \A m \in DOMAIN nested : \E j \in DOMAIN nested' : nested'[j].kind = nested[m].kind
  <2> SUFFICES ASSUME NEW m \in DOMAIN nested
               PROVE  \E j \in DOMAIN nested' : nested'[j].kind = nested[m].kind
    OBVIOUS
  <2>1. CASE m = i
    BY <1>3, <1>6, <2>1 DEF Joined
  <2>2. CASE m # i
    <3>1. PICK l \in DOMAIN rest : rest[l] = nested[m]
      BY <1>4, <2>2 DEF LeftOf
    <3>2. PICK j \in DOMAIN nested' : nested'[j] = rest[l]
      BY <1>6 DEF Joined
    <3> QED
      BY <3>1, <3>2
  <2> QED
    BY <2>1, <2>2
<1>10. nested # <<>>
  BY <1>2
<1>11. SameDialogs(nested')
  BY <1>7, <1>8, <1>9, <1>10 DEF SameDialogs, DialogsKept
<1> QED
  BY <1>1, <1>2, <1>11, AsksSame, SameDialogsKeep

\* Dialog i waits, or does not any more.
LEMMA UpdatedIs ==
  ASSUME nested \in Seq(NestedT), NEW i \in DOMAIN nested, NEW up \in BOOLEAN, NEW q,
         q = [nested EXCEPT ![i].updating = up]
  PROVE  SameDialogs(q)
<1> DEFINE d == [nested[i] EXCEPT !.updating = up]
<1>1. nested[i] \in NestedT
  OBVIOUS
<1>2. d \in NestedT /\ d.no = nested[i].no /\ d.url = nested[i].url /\ d.kind = nested[i].kind
  BY <1>1 DEF NestedT
<1>3. q = [nested EXCEPT ![i] = d]
  OBVIOUS
<1> HIDE DEF d
<1>4. q \in Seq(NestedT) /\ Len(q) = Len(nested) /\ DOMAIN q = DOMAIN nested
  BY <1>2, <1>3
<1>5. \A m \in DOMAIN nested : q[m] = IF m = i THEN d ELSE nested[m]
  BY <1>3
<1>6. nested # <<>>
  OBVIOUS
<1> QED
  BY <1>2, <1>4, <1>5, <1>6 DEF SameDialogs, DialogsKept

\* Dialog i has sent a change and waits for it.
LEMMA ChangeKeeps ==
  ASSUME DialogInv, NEW i \in DOMAIN nested, NEW kind \in {"save", "delete"}, NEW place,
         place.url = nested[i].url, place.id \in Int, NEW receiver \in Int,
         kind = "save" => place.id \in ProfileId,
         nested' = [nested EXCEPT ![i].updating = TRUE],
         D!Ask(kind, nested[i].no, place, receiver),
         UNCHANGED <<collectors, receivers, page, searches, dialogs, raced>>
  PROVE  DialogInv'
<1>1. DialogTypes /\ nested \in Seq(NestedT) /\ nested[i] \in NestedT
  BY DEF DialogInv, DialogTypes
<1>2. nested[i].no \in Nat /\ nested[i].url \in Urls /\ nested[i].no \in 1 .. dialogs
  BY <1>1 DEF NestedT, DialogInv, Numbered
<1>3. SameDialogs(nested')
  <2>1. PICK up \in BOOLEAN : up = TRUE
    OBVIOUS
  <2>2. nested' = [nested EXCEPT ![i].updating = up]
    BY <2>1
  <2> QED
    BY <1>1, <2>2, UpdatedIs
<1>4. kind \in {"profiles", "receiver", "save", "delete"} /\ place.url \in Urls
  BY <1>2
<1> DEFINE no == nested[i].no
<1>5. no \in Nat /\ D!Ask(kind, no, place, receiver)
  BY <1>2
<1> HIDE DEF no
<1>6. /\ asks' \in Seq(AskT) /\ Len(asks') <= MaxRequests
      /\ \E r \in AskT : Joined(asks', AskT, asks, r) /\ r.kind = kind /\ r.no = no /\ r.url = place.url
  BY <1>1, <1>4, <1>5, AskIs
<1>7. PICK r \in AskT : Joined(asks', AskT, asks, r) /\ r.kind = kind /\ r.no = no /\ r.url = place.url
  BY <1>6
<1>8. AskedAbove(r)
  BY <1>2, <1>7 DEF AskedAbove, no
<1>9. AsksKept(asks')
  BY <1>7, <1>8 DEF AsksKept, Joined
<1> QED
  BY <1>3, <1>6, <1>9, SameDialogsKeep

LEMMA SaveKeeps ==
  ASSUME DialogInv, NEW i \in DOMAIN nested, NEW id \in ProfileId, D!Save(i, id)
  PROVE  DialogInv'
<1> DEFINE place == D!At(nested[i].url, id)
           kind == "save"
<1>1. /\ nested' = [nested EXCEPT ![i].updating = TRUE]
      /\ D!Ask(kind, nested[i].no, place, 0)
      /\ UNCHANGED <<collectors, receivers, page, searches, dialogs, raced>>
  BY DEF D!Save
<1>2. place.url = nested[i].url /\ place.id = id /\ id \in Int /\ kind \in {"save", "delete"}
  BY PagesAssumption DEF D!At
<1> HIDE DEF place, kind
<1>3. place.id \in Int /\ (kind = "save" => place.id \in ProfileId) /\ 0 \in Int
  BY <1>2
<1> QED
  BY <1>1, <1>2, <1>3, ChangeKeeps

LEMMA ConfirmDeleteKeeps ==
  ASSUME DialogInv, NEW i \in DOMAIN nested, NEW withProfile \in BOOLEAN,
         D!ConfirmDelete(i, withProfile)
  PROVE  DialogInv'
<1> DEFINE place == D!At(nested[i].url, IF withProfile THEN nested[i].id ELSE 0)
           kind == "delete"
<1>1. /\ nested' = [nested EXCEPT ![i].updating = TRUE]
      /\ D!Ask(kind, nested[i].no, place, nested[i].receiver)
      /\ UNCHANGED <<collectors, receivers, page, searches, dialogs, raced>>
  BY DEF D!ConfirmDelete
<1>2. nested[i].id \in Int /\ nested[i].receiver \in Int
  <2>1. nested \in Seq(NestedT)
    BY DEF DialogInv, DialogTypes
  <2>2. nested[i] \in NestedT
    BY <2>1
  <2> QED
    BY <2>2 DEF NestedT
<1>3. place.url = nested[i].url /\ place.id \in Int /\ kind \in {"save", "delete"} /\ kind # "save"
  BY <1>2 DEF D!At
<1> HIDE DEF place, kind
<1> QED
  BY <1>1, <1>2, <1>3, ChangeKeeps

LEMMA CreateReceiverKeeps ==
  ASSUME DialogInv, D!CreateReceiver
  PROVE  DialogInv'
<1> DEFINE c == page.collector
           place == IF page.selected.id = 0 THEN c
                    ELSE IF c.id = 0 THEN D!At(c.url, page.selected.id) ELSE D!Nowhere
           kind == "receiver"
<1>1. /\ D!Ask(kind, 0, place, 0)
      /\ UNCHANGED <<collectors, receivers, page, nested, searches, dialogs, raced, outOfStep>>
  BY DEF D!CreateReceiver
<1>2. place.url \in Urls /\ place.id \in Int
  BY PageParts, NothingIs DEF AddressT, Urls, D!At
<1>3. kind \in {"profiles", "receiver", "save", "delete"} /\ kind # "save" /\ 0 \in Nat /\ 0 \in Int
  OBVIOUS
<1>4. DialogTypes
  BY DEF DialogInv
<1> HIDE DEF place
<1>5. /\ asks' \in Seq(AskT) /\ Len(asks') <= MaxRequests
      /\ \E r \in AskT : Joined(asks', AskT, asks, r) /\ r.kind = "receiver"
  <2> HIDE DEF kind
  <2>1. /\ asks' \in Seq(AskT) /\ Len(asks') <= MaxRequests
        /\ \E r \in AskT : Joined(asks', AskT, asks, r) /\ r.kind = kind
    BY <1>1, <1>2, <1>3, <1>4, AskIs
  <2> QED
    BY <2>1 DEF kind
<1>6. AsksKept(asks')
  <2>1. PICK r \in AskT : Joined(asks', AskT, asks, r) /\ r.kind = "receiver"
    BY <1>5
  <2>2. AskedAbove(r)
    BY <2>1 DEF AskedAbove, Changes
  <2> QED
    BY <2>1, <2>2 DEF AsksKept, Joined
<1>7. DialogTypes'
  BY <1>1, <1>4, <1>5 DEF DialogTypes
<1>8. Buttons(page, nested')
  BY <1>1 DEF DialogInv, Buttons
<1> QED
  BY <1>1, <1>6, <1>7, <1>8, DialogsSame, PageKeeps

-----------------------------------------------------------------------------
(* The dialog of a new receiver: dialogs that close, and answers *)

LEMMA ClosedIs ==
  ASSUME DialogInv, NEW i \in DOMAIN nested, D!Closed(i)
  PROVE  /\ nested' \in Seq(NestedT) /\ Len(nested') <= dialogs /\ DialogsKept(nested')
         /\ \A m \in DOMAIN nested : m # i => \E j \in DOMAIN nested' : nested'[j] = nested[m]
<1>1. nested \in Seq(NestedT) /\ Len(nested) <= dialogs /\ dialogs \in Nat /\ Len(nested) \in Nat
  BY DEF DialogInv, DialogTypes
<1>2. LeftOf(nested', NestedT, nested, i)
  BY <1>1, RemovalIs DEF D!Closed
<1>3. nested # <<>>
  BY <1>1
<1>4. nested' \in Seq(NestedT) /\ Len(nested') <= dialogs
  BY <1>1, <1>2 DEF LeftOf
<1> QED
  BY <1>2, <1>3, <1>4 DEF LeftOf, DialogsKept

\* Dialog i closes and the page changes nothing but its list, its selection and its buttons.
LEMMA ClosingDialogKeeps ==
  ASSUME DialogInv, NEW i \in DOMAIN nested, D!Closed(i), SameFrame(page', page),
         asks' \in Seq(AskT), Len(asks') <= MaxRequests, AsksKept(asks'),
         page'.updating => page.updating /\ nested[i].kind # "create",
         ~raced => /\ Selected(page')
                   /\ \A j \in DOMAIN page'.list : page'.list[j].url \in {page.collector.url, NoUrl},
         UNCHANGED <<collectors, receivers, searches, dialogs, raced>>
  PROVE  DialogInv'
<1>1. DialogTypes'
  BY ClosedIs DEF DialogInv, DialogTypes, SameFrame
<1>2. Buttons(page', nested')
  <2> SUFFICES ASSUME page'.updating PROVE \E j \in DOMAIN nested' : nested'[j].kind = "create"
    BY DEF Buttons
  <2>1. PICK m \in DOMAIN nested : nested[m].kind = "create"
    BY DEF DialogInv, Buttons
  <2> QED
    BY <2>1, ClosedIs
<1>3. page'.collector.url \in {NoUrl, page.url}
  BY DEF DialogInv, Answers, SameFrame
<1>4. ~raced => page.inProgress = 0
  <2>1. nested # <<>>
    <3>1. nested \in Seq(NestedT)
      BY DEF DialogInv, DialogTypes
    <3> QED
      BY <3>1
  <2> QED
    BY <2>1 DEF DialogInv, Apart, Quiet
<1>5. DialogsKept(nested')
  BY ClosedIs
<1> QED
  BY <1>1, <1>2, <1>3, <1>4, <1>5, StepKeeps DEF SameFrame

LEMMA DismissedKeeps ==
  ASSUME DialogInv, NEW i \in DOMAIN nested, D!Closed(i), D!Rejected(i),
         UNCHANGED <<collectors, receivers, asks, searches, dialogs, raced>>
  PROVE  DialogInv'
<1>1. page \in DialogPageT /\ asks \in Seq(AskT) /\ Len(asks) <= MaxRequests
  BY DEF DialogInv, DialogTypes
<1>2. /\ SameFrame(page', page) /\ page'.list = page.list /\ page'.selected = page.selected
      /\ page'.updating = (page.updating /\ nested[i].kind # "create")
  BY <1>1 DEF D!Rejected, SameFrame, DialogPageT
<1>3. ~raced => /\ Selected(page')
                /\ \A j \in DOMAIN page'.list : page'.list[j].url \in {page.collector.url, NoUrl}
  BY <1>2 DEF DialogInv, Apart, Selected, OfCollector
<1> QED
  BY <1>1, <1>2, <1>3, AsksSame, ClosingDialogKeeps

LEMMA DialogFailsKeeps ==
  ASSUME DialogInv, NEW i \in DOMAIN nested, D!DialogFails(i)
  PROVE  DialogInv'
BY DismissedKeeps DEF D!DialogFails

LEMMA DismissKeeps ==
  ASSUME DialogInv, NEW i \in DOMAIN nested, D!Dismiss(i)
  PROVE  DialogInv'
BY DismissedKeeps DEF D!Dismiss

\* What a search finds is shown, and nothing was before.
LEMMA HeardIs ==
  ASSUME NEW p \in DialogPageT, NEW r \in AskT, r.stage # "sent", NEW q, q = D!Heard(p, r)
  PROVE  /\ q \in DialogPageT /\ q.inProgress = p.inProgress /\ q.url = p.url
         /\ q.updating = p.updating /\ q.collector.url \in {p.collector.url, r.url}
         /\ p.selected = D!NoProfile /\ p.list = <<>> =>
              Selected(q) /\ \A i \in DOMAIN q.list : q.list[i].url \in {q.collector.url, NoUrl}
<1>1. r.stage \in {"done", "failed", "refused", "invalid"}
  BY DEF AskT, Stages
<1>2. CASE r.stage = "done"
  <2>1. q = D!WithProfiles(p, r)
    BY <1>2 DEF D!Heard
  <2> QED
    BY <2>1, WithProfilesIs
<1>3. CASE r.stage = "failed"
  <2>1. q = p
    BY <1>3 DEF D!Heard
  <2> QED
    BY <2>1 DEF Selected
<1>4. CASE r.stage \in {"refused", "invalid"}
  <2> DEFINE c == D!At(r.url, r.id)
             invalid == r.stage = "invalid"
  <2>1. q = [p EXCEPT !.collector = c, !.invalid = invalid]
    BY <1>4 DEF D!Heard
  <2>2. c \in AddressT /\ c.url = r.url /\ invalid \in BOOLEAN
    BY DEF AskT, AddressT, D!At
  <2> HIDE DEF c, invalid
  <2>3. /\ q \in DialogPageT /\ q.inProgress = p.inProgress /\ q.url = p.url
        /\ q.updating = p.updating /\ q.collector = c /\ q.list = p.list /\ q.selected = p.selected
    BY <2>1, <2>2 DEF DialogPageT
  <2> QED
    BY <2>2, <2>3 DEF Selected
<1> QED
  BY <1>1, <1>2, <1>3, <1>4

\* Request k has been answered.
LEMMA LeftIs ==
  ASSUME DialogInv, NEW k \in DOMAIN asks, asks' = D!RemoveAt(asks, k)
  PROVE  asks' \in Seq(AskT) /\ Len(asks') <= MaxRequests /\ AsksKept(asks')
<1>1. asks \in Seq(AskT) /\ Len(asks) <= MaxRequests /\ MaxRequests \in Nat
  BY PagesAssumption DEF DialogInv, DialogTypes
<1>2. LeftOf(asks', AskT, asks, k)
  BY <1>1, RemovalIs
<1>3. asks' \in Seq(AskT) /\ Len(asks') <= MaxRequests
  BY <1>1, <1>2 DEF LeftOf
<1> QED
  BY <1>2, <1>3 DEF LeftOf, AsksKept

LEMMA ProfilesKeep ==
  ASSUME DialogInv, NEW r \in AskT, r.kind = "profiles", r.stage # "sent", Answer(r, page, searches),
         asks' \in Seq(AskT), Len(asks') <= MaxRequests, AsksKept(asks'), page' = D!Found(r),
         UNCHANGED <<collectors, receivers, nested, searches, dialogs, raced>>
  PROVE  DialogInv'
<1>1. CASE page.inProgress # r.no
  <2>1. page' = page
    BY <1>1 DEF D!Found
  <2>2. DialogTypes'
    BY <2>1 DEF DialogInv, DialogTypes
  <2>3. Buttons(page, nested')
    BY DEF DialogInv, Buttons
  <2> QED
    BY <2>1, <2>2, <2>3, DialogsSame, PageKeeps
<1>2. CASE page.inProgress = r.no
  <2> DEFINE p == [page EXCEPT !.inProgress = 0]
  <2>1. page' = D!Heard(p, r)
    BY <1>2 DEF D!Found
  <2>2. /\ p \in DialogPageT /\ p.inProgress = 0 /\ p.url = page.url /\ p.updating = page.updating
        /\ p.list = page.list /\ p.selected = page.selected /\ p.collector = page.collector
    BY PageParts DEF DialogPageT
  <2> HIDE DEF p
  <2>3. /\ page' \in DialogPageT /\ page'.inProgress = 0 /\ page'.url = page.url
        /\ page'.updating = page.updating /\ page'.collector.url \in {page.collector.url, r.url}
        /\ page.selected = D!NoProfile /\ page.list = <<>> =>
             Selected(page') /\ \A i \in DOMAIN page'.list : page'.list[i].url \in {page'.collector.url, NoUrl}
    BY <2>1, <2>2, HeardIs
  <2>4. r.url = page.url /\ r.no # 0 /\ page.collector.url \in {NoUrl, page.url}
    BY <1>2 DEF Answer, DialogInv, Answers
  <2>5. ~raced => page.list = <<>> /\ page.selected = D!NoProfile /\ nested = <<>>
    BY <1>2, <2>4 DEF DialogInv, Apart, Quiet
  <2>6. DialogTypes'
    BY <2>3 DEF DialogInv, DialogTypes
  <2>7. Buttons(page', nested')
    BY <2>3 DEF DialogInv, Buttons
  <2> QED
    BY <2>3, <2>4, <2>5, <2>6, <2>7, DialogsSame, StepKeeps
<1> QED
  BY <1>1, <1>2

\* The dialog closes when its receiver was created.
LEMMA ReceiverKeeps ==
  ASSUME DialogInv, asks' \in Seq(AskT), Len(asks') <= MaxRequests, AsksKept(asks'),
         page' = page \/ page' = [page EXCEPT !.open = FALSE],
         UNCHANGED <<collectors, receivers, nested, searches, dialogs, raced>>
  PROVE  DialogInv'
<1>1. /\ SameFrame(page', page) /\ page'.list = page.list /\ page'.selected = page.selected
      /\ page'.updating = page.updating
  BY PageParts DEF SameFrame, DialogPageT
<1>2. DialogTypes'
  BY <1>1 DEF DialogInv, DialogTypes, SameFrame
<1>3. Buttons(page', nested')
  BY <1>1 DEF DialogInv, Buttons
<1>4. page'.collector.url \in {NoUrl, page.url}
  BY <1>1 DEF DialogInv, Answers, SameFrame
<1>5. ~raced =>
        /\ Selected(page')
        /\ \A i \in DOMAIN page'.list : page'.list[i].url \in {page'.collector.url, NoUrl}
        /\ page'.inProgress # 0 => page'.list = <<>> /\ page'.selected = D!NoProfile /\ ~page'.invalid
  BY <1>1 DEF DialogInv, Apart, Quiet, Selected, OfCollector, SameFrame
<1> QED
  BY <1>1, <1>2, <1>3, <1>4, <1>5, DialogsSame, StepKeeps DEF SameFrame

\* A change whose dialog has closed: nobody hears of it.
LEMMA UnheardKeeps ==
  ASSUME DialogInv, asks' \in Seq(AskT), Len(asks') <= MaxRequests, AsksKept(asks'),
         UNCHANGED <<collectors, receivers, page, nested, searches, dialogs, raced>>
  PROVE  DialogInv'
BY ReceiverKeeps

\* A change that was refused leaves its dialog open.
LEMMA RefusedKeeps ==
  ASSUME DialogInv, NEW i \in DOMAIN nested, NEW up \in BOOLEAN,
         nested' = [nested EXCEPT ![i].updating = up],
         asks' \in Seq(AskT), Len(asks') <= MaxRequests, AsksKept(asks'),
         UNCHANGED <<collectors, receivers, page, searches, dialogs, raced>>
  PROVE  DialogInv'
<1>1. nested \in Seq(NestedT)
  BY DEF DialogInv, DialogTypes
<1>2. SameDialogs(nested')
  BY <1>1, UpdatedIs
<1> QED
  BY <1>2, SameDialogsKeep

\* A change that was made closes its dialog, and the page does what it says.
LEMMA ChangedKeeps ==
  ASSUME DialogInv, NEW i \in DOMAIN nested, NEW r \in AskT, Changes(r), r.no = nested[i].no,
         \E k \in DOMAIN asks : asks[k] = r,
         D!Closed(i), page' = D!Resulted(nested[i], r),
         asks' \in Seq(AskT), Len(asks') <= MaxRequests, AsksKept(asks'),
         UNCHANGED <<collectors, receivers, searches, dialogs, raced>>
  PROVE  DialogInv'
<1> DEFINE d == nested[i]
<1>1. d \in NestedT
  <2>1. nested \in Seq(NestedT)
    BY DEF DialogInv, DialogTypes
  <2> QED
    BY <2>1
<1>2. page \in DialogPageT
  BY PageParts
<1>3. ~raced => Selected(page) /\ \A j \in DOMAIN page.list : page.list[j].url \in {page.collector.url, NoUrl}
  BY DEF DialogInv, Apart, OfCollector
<1>4. ~raced => r.url = page.collector.url
  BY DEF DialogInv, Apart, OfCollector
<1>5. CASE d.kind = "create"
  <2> DEFINE made == -d.no
             settings == TRUE
             row == D!Profile(made, r.url, r.id, settings, 0)
  <2>1. page' = D!AddCreated(page, row)
    BY <1>5 DEF D!Resulted
  <2>2. made \in Int
    BY <1>1 DEF NestedT
  <2>3. row \in RowT /\ row.url = r.url
    BY <2>2 DEF AskT, RowT, D!Profile
  <2> HIDE DEF row
  <2>4. /\ SameFrame(page', page) /\ page'.selected = row /\ page'.updating = FALSE
        /\ Joined(page'.list, RowT, page.list, row)
    BY <1>2, <2>1, <2>3, AddCreatedIs
  <2>5. Selected(page')
    BY <2>4 DEF Selected, Joined
  <2>6. ~raced => \A j \in DOMAIN page'.list : page'.list[j].url \in {page.collector.url, NoUrl}
    BY <1>3, <1>4, <2>3, <2>4 DEF Joined
  <2> QED
    BY <2>4, <2>5, <2>6, ClosingDialogKeeps
<1>6. ASSUME NEW made, NEW id, d.kind # "create", page' = D!WithoutReceiver(page, made, id)
      PROVE  DialogInv'
  <2>1. /\ SameFrame(page', page) /\ page'.updating = page.updating /\ (Selected(page) => Selected(page'))
        /\ \A j \in DOMAIN page'.list : j \in DOMAIN page.list /\ page'.list[j].url = page.list[j].url
    BY <1>2, <1>6, WithoutReceiverIs
  <2>2. ~raced => \A j \in DOMAIN page'.list : page'.list[j].url \in {page.collector.url, NoUrl}
    BY <1>3, <2>1
  <2> QED
    BY <1>3, <1>6, <2>1, <2>2, ClosingDialogKeeps
<1>7. CASE d.kind = "configure"
  BY <1>6, <1>7 DEF D!Resulted
<1>8. CASE d.kind = "delete"
  <2>1. CASE d.over # 0
    <3>1. page' = page
      BY <1>8, <2>1 DEF D!Resulted
    <3> QED
      BY <1>2, <1>3, <1>8, <3>1, ClosingDialogKeeps DEF SameFrame
  <2>2. CASE d.over = 0 /\ r.id # 0
    <3>1. page' = D!RemoveSelected(page)
      BY <1>8, <2>2 DEF D!Resulted
    <3>2. /\ SameFrame(page', page) /\ page'.updating = page.updating /\ Selected(page')
          /\ \A j \in DOMAIN page'.list : \E m \in DOMAIN page.list : page'.list[j] = page.list[m]
      BY <1>2, <3>1, RemoveSelectedIs
    <3>3. ~raced => \A j \in DOMAIN page'.list : page'.list[j].url \in {page.collector.url, NoUrl}
      BY <1>3, <3>2
    <3> QED
      BY <1>8, <3>2, <3>3, ClosingDialogKeeps
  <2>3. CASE d.over = 0 /\ r.id = 0
    <3>1. page' = D!WithoutReceiver(page, page.selected.made, page.selected.id)
      BY <1>8, <2>3 DEF D!Resulted
    <3> QED
      BY <1>6, <1>8, <3>1
  <2> QED
    BY <2>1, <2>2, <2>3
<1> QED
  BY <1>1, <1>5, <1>7, <1>8 DEF NestedT

LEMMA SenderIs ==
  ASSUME DialogInv, NEW r, D!Sender(r) # {}
  PROVE  D!Min(D!Sender(r)) \in DOMAIN nested /\ nested[D!Min(D!Sender(r))].no = r.no
<1> DEFINE S == D!Sender(r)
<1>1. \A i \in S : i \in DOMAIN nested /\ nested[i].no = r.no
  BY DEF D!Sender
<1>2. S \in SUBSET Nat
  <2>1. nested \in Seq(NestedT)
    BY DEF DialogInv, DialogTypes
  <2> QED
    BY <1>1, <2>1
<1> HIDE DEF S
<1>3. D!Min(S) \in S
  <2>1. S # {}
    BY DEF S
  <2> QED
    BY <1>2, <2>1, LeastOfAny DEF D!Min
<1> QED
  BY <1>1, <1>3 DEF S

LEMMA ReplyKeeps ==
  ASSUME DialogInv, NEW k \in DOMAIN asks, D!Reply(k)
  PROVE  DialogInv'
<1> DEFINE r == asks[k]
<1>1. /\ r.stage # "sent" /\ asks' = D!RemoveAt(asks, k) /\ D!Answered(r)
      /\ UNCHANGED <<collectors, receivers, searches, dialogs, raced>>
  BY DEF D!Reply
<1>2. r \in AskT /\ Answer(r, page, searches) /\ \E m \in DOMAIN asks : asks[m] = r
  <2>1. asks \in Seq(AskT)
    BY DEF DialogInv, DialogTypes
  <2>2. Answer(r, page, searches)
    BY DEF DialogInv, Answers
  <2> QED
    BY <2>1, <2>2
<1>3. asks' \in Seq(AskT) /\ Len(asks') <= MaxRequests /\ AsksKept(asks')
  BY <1>1, LeftIs
<1> HIDE DEF r
<1>4. CASE r.kind = "profiles"
  <2>1. page' = D!Found(r) /\ UNCHANGED nested
    BY <1>1, <1>4 DEF D!Answered
  <2> QED
    BY <1>1, <1>2, <1>3, <1>4, <2>1, ProfilesKeep
<1>5. CASE r.kind = "receiver"
  <2>1. /\ page' = IF r.stage = "failed" THEN page ELSE [page EXCEPT !.open = FALSE]
        /\ UNCHANGED nested
    BY <1>1, <1>5 DEF D!Answered
  <2>2. page' = page \/ page' = [page EXCEPT !.open = FALSE]
    BY <2>1
  <2> QED
    BY <1>1, <1>3, <2>1, <2>2, ReceiverKeeps
<1>6. CASE r.kind \in {"save", "delete"} /\ D!Sender(r) = {}
  <2>1. UNCHANGED <<page, nested>>
    BY <1>1, <1>6 DEF D!Answered
  <2> QED
    BY <1>1, <1>3, <2>1, UnheardKeeps
<1>7. CASE r.kind \in {"save", "delete"} /\ D!Sender(r) # {}
  <2> DEFINE i == D!Min(D!Sender(r))
             up == r.kind = "delete"
  <2>1. i \in DOMAIN nested /\ nested[i].no = r.no
    BY <1>7, SenderIs
  <2>2. IF r.stage = "failed"
        THEN nested' = [nested EXCEPT ![i].updating = up] /\ UNCHANGED page
        ELSE D!Closed(i) /\ page' = D!Resulted(nested[i], r)
    BY <1>1, <1>7 DEF D!Answered
  <2>3. up \in BOOLEAN /\ Changes(r)
    BY <1>7 DEF Changes
  <2> HIDE DEF i, up
  <2>4. CASE r.stage = "failed"
    BY <1>1, <1>3, <2>1, <2>2, <2>3, <2>4, RefusedKeeps
  <2>5. CASE r.stage # "failed"
    BY <1>1, <1>2, <1>3, <2>1, <2>2, <2>3, <2>5, ChangedKeeps
  <2> QED
    BY <2>4, <2>5
<1> QED
  BY <1>2, <1>4, <1>5, <1>6, <1>7 DEF AskT

LEMMA ReceiverOfIs ==
  ASSUME receivers \in Seq(AddressT), NEW place
  PROVE  D!ReceiverOf(place) \in Nat
<1> DEFINE S == {n \in DOMAIN receivers : receivers[n] = place}
<1>1. S \in SUBSET Nat
  OBVIOUS
<1>2. D!ReceiverOf(place) = IF S = {} THEN 0 ELSE D!Min(S)
  BY DEF D!ReceiverOf
<1> HIDE DEF S
<1>3. S # {} => D!Min(S) \in S
  BY <1>1, LeastOfAny DEF D!Min
<1>4. S # {} => D!Min(S) \in Nat
  BY <1>1, <1>3
<1>5. CASE S = {}
  BY <1>2, <1>5
<1>6. CASE S # {}
  BY <1>2, <1>4, <1>6, Zenon
<1> QED
  BY <1>5, <1>6

\* A request is carried out: what it asked for is the same.
LEMMA CarriedIs ==
  ASSUME asks \in Seq(AskT), NEW k \in DOMAIN asks, NEW st \in Stages, NEW l \in Lists,
         asks' = [asks EXCEPT ![k].stage = st, ![k].list = l]
  PROVE  asks' \in Seq(AskT) /\ Len(asks') = Len(asks) /\ AsksKept(asks')
<1> DEFINE r == [asks[k] EXCEPT !.stage = st, !.list = l]
<1>1. asks[k] \in AskT
  OBVIOUS
<1>2. /\ r \in AskT /\ r.kind = asks[k].kind /\ r.no = asks[k].no /\ r.url = asks[k].url
  BY <1>1 DEF AskT
<1>3. asks' = [asks EXCEPT ![k] = r]
  OBVIOUS
<1>4. \A w \in AskT : [asks EXCEPT ![k] = w] \in Seq(AskT) /\ Len([asks EXCEPT ![k] = w]) = Len(asks)
  OBVIOUS
<1> HIDE DEF r
<1>5. asks' \in Seq(AskT) /\ Len(asks') = Len(asks)
  <2> DEFINE q == [asks EXCEPT ![k] = r]
  <2>1. q \in Seq(AskT) /\ Len(q) = Len(asks)
    BY <1>2, <1>4, Zenon
  <2>2. asks' = q
    BY <1>3
  <2> HIDE DEF q
  <2> QED
    BY <2>1, <2>2
<1>6. DOMAIN asks' = DOMAIN asks
  BY <1>3
<1>7. \A m \in DOMAIN asks : asks'[m] = IF m = k THEN r ELSE asks[m]
  BY <1>3
<1> QED
  BY <1>2, <1>5, <1>6, <1>7 DEF AsksKept

LEMMA CarryKeeps ==
  ASSUME DialogInv, NEW k \in DOMAIN asks, NEW why \in {"done", "failed", "refused", "invalid"},
         D!Carry(k, why)
  PROVE  DialogInv'
<1> DEFINE r == asks[k]
           profile == r.kind = "delete" /\ r.id # 0
           done == /\ why = "done"
                   /\ r.kind \in {"profiles", "save"} \/ profile => r.url \in Url
                   /\ profile => r.id \in collectors[r.url]
           gone == r.kind = "delete" /\ r.receiver # 0 /\ ~D!HasReceiver(r.receiver)
           st == IF done /\ ~gone THEN "done" ELSE IF why = "done" THEN "failed" ELSE why
           l == IF done /\ r.kind = "profiles"
                THEN [id \in collectors[r.url] |-> D!ReceiverOf(D!At(r.url, id))] ELSE <<>>
<1>1. /\ asks' = [asks EXCEPT ![k].stage = st, ![k].list = l]
      /\ collectors' = IF done /\ r.kind = "save" THEN [collectors EXCEPT ![r.url] = @ \cup {r.id}]
                       ELSE IF done /\ profile THEN [collectors EXCEPT ![r.url] = @ \ {r.id}]
                       ELSE collectors
      /\ receivers' = IF done /\ r.kind = "receiver" THEN Append(receivers, D!At(r.url, r.id))
                      ELSE IF done /\ r.kind = "delete" /\ r.receiver # 0 /\ ~gone
                      THEN [receivers EXCEPT ![r.receiver] = D!Nowhere]
                      ELSE receivers
      /\ UNCHANGED <<page, nested, searches, dialogs, raced, outOfStep>>
  BY DEF D!Carry
<1>2. /\ asks \in Seq(AskT) /\ collectors \in [Url -> SUBSET ProfileId] /\ receivers \in Seq(AddressT)
      /\ Len(asks) <= MaxRequests
  BY DEF DialogInv, DialogTypes
<1>3. r \in AskT
  BY <1>2
<1>4. st \in Stages
  BY DEF Stages
<1>5. l \in Lists
  <2>1. CASE done /\ r.kind = "profiles"
    <3>1. r.url \in Url
      BY <2>1
    <3>2. collectors[r.url] \in SUBSET ProfileId
      BY <1>2, <3>1
    <3> DEFINE S == collectors[r.url]
               f == [id \in S |-> D!ReceiverOf(D!At(r.url, id))]
    <3>3. \A id \in S : D!ReceiverOf(D!At(r.url, id)) \in Nat
      BY <1>2, ReceiverOfIs
    <3>4. f \in [S -> Nat]
      BY <3>3
    <3>5. l = f
      BY <2>1
    <3> QED
      BY <3>2, <3>4, <3>5 DEF Lists
  <2>2. CASE ~(done /\ r.kind = "profiles")
    BY <2>2, NoList
  <2> QED
    BY <2>1, <2>2
<1>6. collectors' \in [Url -> SUBSET ProfileId]
  <2>1. CASE done /\ r.kind = "save"
    <3>1. r.url \in Url /\ r.id \in ProfileId
      BY <1>3, <2>1 DEF AskT
    <3> QED
      BY <1>1, <1>2, <2>1, <3>1
  <2>2. CASE done /\ profile
    <3>1. r.url \in Url /\ r.kind # "save"
      BY <2>2
    <3>2. collectors' = [collectors EXCEPT ![r.url] = @ \ {r.id}]
      BY <1>1, <2>2, <3>1
    <3> QED
      BY <1>2, <3>1, <3>2
  <2>3. CASE ~(done /\ r.kind = "save") /\ ~(done /\ profile)
    <3> HIDE DEF done, profile
    <3>1. collectors' = collectors
      BY <1>1, <2>3
    <3> QED
      BY <1>2, <3>1
  <2> QED
    BY <2>1, <2>2, <2>3
<1>7. receivers' \in Seq(AddressT)
  <2>1. D!At(r.url, r.id) \in AddressT
    BY <1>3 DEF AskT, AddressT, D!At
  <2>2. receivers' = IF done /\ r.kind = "receiver" THEN Append(receivers, D!At(r.url, r.id))
                       ELSE IF done /\ r.kind = "delete" /\ r.receiver # 0 /\ ~gone
                       THEN [receivers EXCEPT ![r.receiver] = D!Nowhere]
                       ELSE receivers
    BY <1>1, Zenon
  <2>3. CASE done /\ r.kind = "receiver"
    BY <1>1, <1>2, <2>1, <2>3
  <2>4. CASE done /\ r.kind = "delete" /\ r.receiver # 0 /\ ~gone
    <3>1. r.receiver \in DOMAIN receivers
      BY <2>4 DEF D!HasReceiver
    <3>2. receivers' = [receivers EXCEPT ![r.receiver] = D!Nowhere]
      BY <1>1, <2>4
    <3> DEFINE nowhere == D!Nowhere
    <3>3. nowhere \in AddressT
      BY NothingIs
    <3> HIDE DEF nowhere
    <3>4. receivers' = [receivers EXCEPT ![r.receiver] = nowhere]
      BY <3>2 DEF nowhere
    <3> QED
      BY <1>2, <3>1, <3>3, <3>4
  <2>5. CASE ~(done /\ r.kind = "receiver") /\ ~(done /\ r.kind = "delete" /\ r.receiver # 0 /\ ~gone)
    <3> HIDE DEF done, gone
    <3>1. receivers' = receivers
      BY <2>2, <2>5, Zenon
    <3> QED
      BY <1>2, <3>1
  <2> QED
    BY <2>3, <2>4, <2>5
<1> HIDE DEF st, l, done, gone, profile
<1>8. asks' \in Seq(AskT) /\ Len(asks') = Len(asks) /\ AsksKept(asks')
  <2>1. asks' = [asks EXCEPT ![k].stage = st, ![k].list = l] /\ asks \in Seq(AskT)
    BY <1>1, <1>2
  <2> QED
    BY <1>4, <1>5, <2>1, CarriedIs, Zenon
<1>9. DialogTypes'
  BY <1>1, <1>2, <1>6, <1>7, <1>8 DEF DialogInv, DialogTypes
<1>10. Buttons(page, nested')
  BY <1>1 DEF DialogInv, Buttons
<1> QED
  BY <1>1, <1>8, <1>9, <1>10, DialogsSame, PageKeeps

LEMMA DialogNext ==
  ASSUME DialogInv, D!NrNext
  PROVE  DialogInv'
<1>1. ASSUME NEW place \in Searched, D!Find(place) PROVE DialogInv'
  BY <1>1, FindingKeeps
<1>2. ASSUME NEW i \in DOMAIN page.list, D!SelectProfile(i) PROVE DialogInv'
  BY <1>2, SelectProfileKeeps
<1>3. CASE D!CreateProfile
  BY <1>3, CreateProfileKeeps
<1>4. ASSUME NEW kind \in {"configure", "delete"}, D!OpenSelected(kind) PROVE DialogInv'
  BY <1>4, OpenSelectedKeeps
<1>5. CASE D!CreateReceiver
  BY <1>5, CreateReceiverKeeps
<1>6. ASSUME NEW i \in DOMAIN nested, D!DeleteInside(i) PROVE DialogInv'
  BY <1>6, DeleteInsideKeeps
<1>7. ASSUME NEW i \in DOMAIN nested, D!DialogOpens(i) PROVE DialogInv'
  BY <1>7, DialogOpensKeeps
<1>8. ASSUME NEW i \in DOMAIN nested, D!DialogFails(i) PROVE DialogInv'
  BY <1>8, DialogFailsKeeps
<1>9. ASSUME NEW i \in DOMAIN nested, D!Dismiss(i) PROVE DialogInv'
  BY <1>9, DismissKeeps
<1>10. ASSUME NEW i \in DOMAIN nested, NEW withProfile \in BOOLEAN, D!ConfirmDelete(i, withProfile)
       PROVE  DialogInv'
  BY <1>10, ConfirmDeleteKeeps
<1>11. ASSUME NEW i \in DOMAIN nested, NEW id \in ProfileId, D!Save(i, id) PROVE DialogInv'
  BY <1>11, SaveKeeps
<1>12. ASSUME NEW k \in DOMAIN asks, D!Reply(k) PROVE DialogInv'
  BY <1>12, ReplyKeeps
<1>13. ASSUME NEW k \in DOMAIN asks, NEW why \in {"done", "failed", "refused", "invalid"}, D!Carry(k, why)
       PROVE  DialogInv'
  BY <1>13, CarryKeeps
<1>14. CASE D!OpenSelected("configure") \/ D!OpenSelected("delete")
  BY <1>4, <1>14
<1> QED
  BY <1>1, <1>2, <1>3, <1>5, <1>6, <1>7, <1>8, <1>9, <1>10, <1>11, <1>12, <1>13, <1>14 DEF D!NrNext

\* The invariant says of the dialog what the properties do.
LEMMA DialogShows ==
  ASSUME DialogInv
  PROVE  DialogInOrder /\ D!NrTypeOK
<1>1. page \in DialogPageT /\ page.list \in Seq(RowT) /\ page.collector \in AddressT
  BY DEF DialogInv, DialogTypes, DialogPageT
<1>2. D!ProfilesOfLastSearch
  BY DEF DialogInv, Answers, D!ProfilesOfLastSearch
<1>3. D!ListOfOneCollector
  BY DEF DialogInv, Apart, OfCollector, D!ListOfOneCollector
<1>4. D!SelectedIsListed
  <2>1. DOMAIN page.list = 1 .. Len(page.list)
    BY <1>1
  <2> QED
    BY <2>1 DEF DialogInv, Apart, Selected, D!SelectedIsListed, D!Contains
<1>5. D!ButtonsComeBack
  BY DEF DialogInv, Buttons, D!ButtonsComeBack
<1>6. D!NrTypeOK
  <2>1. \A u \in Url : collectors[u] \subseteq ProfileId
    BY DEF DialogInv, DialogTypes
  <2>2. page.collector.url \in Url \cup {NoUrl} /\ page.url \in Url \cup {NoUrl} /\ page.inProgress \in Nat
    BY <1>1 DEF DialogPageT, AddressT, Urls
  <2>3. /\ searches \in Nat /\ dialogs \in Nat /\ searches + dialogs <= MaxClicks
        /\ page.inProgress <= searches /\ Len(nested) <= dialogs /\ Len(asks) <= MaxRequests
        /\ nested \in Seq(NestedT)
    BY DEF DialogInv, DialogTypes
  <2>4. Len(nested) \in Nat /\ MaxClicks \in Nat
    BY <2>3, PagesAssumption
  <2>5. page.inProgress \in 0 .. MaxClicks /\ Len(nested) <= MaxClicks
    BY <2>2, <2>3, <2>4
  <2> QED
    BY <2>1, <2>2, <2>3, <2>5 DEF D!NrTypeOK
<1> QED
  BY <1>2, <1>3, <1>4, <1>5, <1>6 DEF DialogInOrder

-----------------------------------------------------------------------------
(* The parts together: a step of one leaves the others as they are *)

IInv ==
  /\ DialogInv /\ TagsPart /\ MessagesInv /\ PagerInv /\ RequestsInv /\ CacheInv
  /\ LocationInv /\ RouteInv

LEMMA IInvInit == Init => IInv
<1>1. Init => DialogInv /\ TagsPart /\ MessagesInv /\ PagerInv
  BY DialogInit, TagsInit, MessagesInit, PagerInit DEF Init
<1>2. Init => RequestsInv /\ CacheInv
  BY RequestsBegin, CacheInit, PagesAssumption DEF Init
<1>3. Init => LocationInv /\ RouteInv
  BY LocationBegins, RouteBegins DEF Init
<1> QED
  BY <1>1, <1>2, <1>3 DEF IInv

LEMMA DialogSame ==
  ASSUME DialogInv, UNCHANGED dialogVars
  PROVE  DialogInv'
<1>1. UNCHANGED <<collectors, receivers, page, nested, asks, searches, dialogs, raced, outOfStep>>
  BY DEF dialogVars
<1> QED
  BY <1>1, DialogPrimed DEF DialogInv, DialogTypes

LEMMA TagsSame ==
  ASSUME TagsPart, UNCHANGED tagVars
  PROVE  TagsPart' /\ Forward
<1>1. UNCHANGED <<found, version, tagPage, tagSearches, failures>>
  BY DEF tagVars
<1>2. TagsPart'
  BY <1>1, TagsPrimed DEF TagsPart
<1>3. tagPage.result.version \in Nat
  BY TagsTypes
<1> QED
  BY <1>1, <1>2, <1>3 DEF Forward

LEMMA MessagesSame ==
  ASSUME MessagesInv, UNCHANGED messageVars
  PROVE  MessagesInv'
BY DEF MessagesInv, messageVars, Alone

LEMMA PagerSame ==
  ASSUME PagerInv, UNCHANGED pagerVars
  PROVE  PagerInv'
BY DEF PagerInv, pagerVars

\* What no step of the address or of the route does.
Onward == Forward /\ EntryOnlyIfAsked /\ ViewKept

LEMMA IInvNext == IInv /\ [Next]_vars => IInv' /\ Onward
<1> SUFFICES ASSUME IInv, [Next]_vars PROVE IInv' /\ Onward
  OBVIOUS
<1>1. /\ DialogInv /\ TagsPart /\ MessagesInv /\ PagerInv /\ RequestsInv /\ CacheInv
      /\ LocationInv /\ RouteInv
  BY DEF IInv
<1>2. UNCHANGED askingVars => RequestsInv' /\ CacheInv'
  BY <1>1, RequestsStutter, CacheStutter DEF askingVars
<1>3. UNCHANGED pageVars => DialogInv' /\ TagsPart' /\ MessagesInv' /\ PagerInv' /\ Forward
  BY <1>1, DialogSame, TagsSame, MessagesSame, PagerSame DEF pageVars
<1>4. UNCHANGED locationVars => LocationInv' /\ EntryOnlyIfAsked
  BY <1>1, LocationStutter, NoEntryYet DEF LocationInv, locationVars
<1>5. UNCHANGED routeVars => RouteInv' /\ ViewKept
  BY <1>1, RouteStutter DEF routeVars, Ro!roVars
<1>6. UNCHANGED addressVars => LocationInv' /\ RouteInv' /\ EntryOnlyIfAsked /\ ViewKept
  BY <1>4, <1>5 DEF addressVars
<1>7. CASE Dialog
  <2>1. DialogInv'
    BY <1>1, <1>7, DialogNext DEF Dialog
  <2>2. UNCHANGED <<tagVars, messageVars, pagerVars, askingVars, addressVars>>
    BY <1>7 DEF Dialog
  <2> QED
    BY <1>1, <1>2, <1>6, <2>1, <2>2, TagsSame, MessagesSame, PagerSame DEF IInv, Onward
<1>8. CASE Tags
  <2>1. TagsPart' /\ Forward
    BY <1>1, <1>8, TagsNext DEF Tags
  <2>2. UNCHANGED <<dialogVars, messageVars, pagerVars, askingVars, addressVars>>
    BY <1>8 DEF Tags
  <2> QED
    BY <1>1, <1>2, <1>6, <2>1, <2>2, DialogSame, MessagesSame, PagerSame DEF IInv, Onward
<1>9. CASE Messages
  <2>1. MessagesInv'
    BY <1>1, <1>9, MessagesNext DEF Messages
  <2>2. UNCHANGED <<dialogVars, tagVars, pagerVars, askingVars, addressVars>>
    BY <1>9 DEF Messages
  <2> QED
    BY <1>1, <1>2, <1>6, <2>1, <2>2, DialogSame, TagsSame, PagerSame DEF IInv, Onward
<1>10. CASE Pager
  <2>1. PagerInv'
    BY <1>1, <1>10, PagerNext DEF Pager
  <2>2. UNCHANGED <<dialogVars, tagVars, messageVars, askingVars, addressVars>>
    BY <1>10 DEF Pager
  <2> QED
    BY <1>1, <1>2, <1>6, <2>1, <2>2, DialogSame, TagsSame, MessagesSame DEF IInv, Onward
<1>11. CASE Asking
  <2>1. RequestsInv'
    BY <1>1, <1>11, RequestsStep DEF Asking
  <2>2. UNCHANGED pageVars /\ UNCHANGED cacheVars /\ UNCHANGED addressVars
    BY <1>11 DEF Asking
  <2> QED
    BY <1>1, <1>3, <1>6, <2>1, <2>2, CacheStutter DEF IInv, Onward
<1>12. CASE Caching
  <2>1. CacheInv'
    BY <1>1, <1>12, CacheStep, PagesAssumption DEF Caching
  <2>2. UNCHANGED pageVars /\ UNCHANGED requestVars /\ UNCHANGED addressVars
    BY <1>12 DEF Caching
  <2> QED
    BY <1>1, <1>3, <1>6, <2>1, <2>2, RequestsStutter DEF IInv, Onward
<1>13. CASE Locating
  <2>1. LocationInv' /\ EntryOnlyIfAsked
    BY <1>1, <1>13, LocationStep DEF Locating
  <2>2. UNCHANGED pageVars /\ UNCHANGED askingVars /\ UNCHANGED routeVars
    BY <1>13 DEF Locating
  <2> QED
    BY <1>2, <1>3, <1>5, <2>1, <2>2 DEF IInv, Onward
<1>14. CASE Routing
  <2>1. RouteInv' /\ ViewKept
    BY <1>1, <1>14, RouteStep DEF Routing
  <2>2. UNCHANGED pageVars /\ UNCHANGED askingVars /\ UNCHANGED locationVars
    BY <1>14 DEF Routing
  <2> QED
    BY <1>2, <1>3, <1>4, <2>1, <2>2 DEF IInv, Onward
<1>15. CASE UNCHANGED vars
  BY <1>2, <1>3, <1>6, <1>15 DEF vars, IInv, Onward
<1> QED
  BY <1>7, <1>8, <1>9, <1>10, <1>11, <1>12, <1>13, <1>14, <1>15 DEF Next

LEMMA IInvAlways == Spec => []IInv
<1>1. IInv /\ [Next]_vars => IInv'
  BY IInvNext
<1> QED
  BY <1>1, IInvInit, PTL DEF Spec

LEMMA MessagesTyped == MessagesInv => M!NtTypeOK
<1> SUFFICES ASSUME MessagesInv PROVE M!NtTypeOK
  OBVIOUS
<1>1. \A i \in DOMAIN messages : messages[i] \in MessageT
  BY DEF MessagesInv
<1> QED
  BY <1>1 DEF M!NtTypeOK, MessagesInv, MessageT

LEMMA PagerTyped == PagerInv => P!PgTypeOK
BY DEF PagerInv, PagesOf, P!PgTypeOK, P!CalculateTotalPages

\* The variables of every part have their types: what the browser holds of receivers,
\* searches, messages and pages, for any number of each (NewRfReceiver, RfTags,
\* Notifier, Pagination).
THEOREM Typed == Spec => []TypeOK
<1>1. IInv => TypeOK
  <2>1. IInv => D!NrTypeOK /\ T!TgTypeOK /\ M!NtTypeOK /\ P!PgTypeOK
    BY DialogShows, TagsShow, MessagesTyped, PagerTyped DEF IInv
  <2>2. IInv => Rq!HtTypeOK /\ Ca!CfTypeOK
    BY RequestsShow, CacheShows, PagesAssumption DEF IInv
  <2>3. IInv => Lo!LoTypeOK /\ Ro!RoTypeOK
    BY LocationShows, RouteShows DEF IInv
  <2> QED
    BY <2>1, <2>2, <2>3 DEF TypeOK
<1> QED
  BY <1>1, IInvAlways, PTL

\* However its requests and those of the dialogs above it are answered, the dialog of a new
\* receiver (receivers.js, rcm.js) lists the profiles of the collector searched for last and
\* of no other, what is selected is listed, and buttons that were disabled have a dialog
\* that enables them.  That what is listed exists is only model-checked.
THEOREM DialogStaysInOrder == Spec => []DialogInOrder
<1>1. IInv => DialogInOrder
  BY DialogShows DEF IInv
<1> QED
  BY <1>1, IInvAlways, PTL

\* The page of tags (tags.js) says that it searches as long as it does, its messages go
\* with their searches, and its results are those its address asks for.
THEOREM SearchStaysInStep == Spec => []SearchInStep
<1>1. IInv => SearchInStep
  BY TagsShow DEF IInv, SearchInStep
<1> QED
  BY <1>1, IInvAlways, PTL

\* Errors have a timer that closes them and temporary messages stand alone (notifier.js);
\* the current page is linked and the links are pages in a row (ui-bootstrap-tpls.js).
THEOREM MessagesAndLinksHold == Spec => []MessagesAndLinks
<1>1. MessagesInv => M!ErrorsWillClose /\ M!TemporaryStandsAlone
  BY DEF MessagesInv, Alone, M!ErrorsWillClose, M!TemporaryStandsAlone
<1>2. IInv => MessagesAndLinks
  BY <1>1, LinksShow DEF IInv, MessagesAndLinks
<1> QED
  BY <1>2, IInvAlways, PTL

\* Whoever asks through $http is answered, also who waits for another one in the cache: a
\* request that waits has its own call, or the one it shares, still under way, and the end
\* of each is counted once, so that $browser tells 'idle' only when nothing is; a cache of
\* $cacheFactory links its entries by their use and never keeps more than its capacity.
THEOREM AnswersAlwaysCome == Spec => []AnswersCome
<1>1. IInv => AnswersCome
  BY RequestsShow, CacheShows, PagesAssumption DEF IInv, AnswersCome
<1> QED
  BY <1>1, IInvAlways, PTL

\* Between digests the address the browser tells is the one $location has, and every change
\* of it was announced, whatever the order of the user's, the application's and the
\* browser's steps; the view shows the route of the address with its parameters, or waits
\* for its template or could not have it, and what is included is what was asked for last
\* (angular.js: $browser, $location, $route, ngView and ngInclude).
THEOREM AddressAndViewAgree == Spec => []AddressAndView
<1>1. IInv => AddressAndView
  BY LocationShows, RouteShows DEF IInv, AddressAndView
<1> QED
  BY <1>1, IInvAlways, PTL

\* No step shows older results of one controller than before (tags.js), a timer that
\* expires takes no other message with it (notifier.js), and a pagination whose total
\* shrinks goes to the last page exactly if it stood beyond it; an address that is to
\* replace another adds no entry to the history, and the view is cleared only when the
\* address has no route or one that redirects, after which the page redirected to is shown
\* if its template is there (angular.js).
THEOREM NothingGoesBackEver == Spec => NothingGoesBack
<1>1. IInv /\ [Next]_vars =>
        [tagPage'.ctrl = tagPage.ctrl => tagPage'.result.version >= tagPage.result.version]_(T!tgVars)
  BY IInvNext DEF Forward, Onward
<1>2. IInv => [\A no \in timers : M!Expire(no) =>
                 \A i \in DOMAIN messages :
                   messages[i].no \notin M!Numbers(messages') => messages[i].no = no]_messages
  BY ExpiryTakesNoOther DEF IInv
<1>3. IInv => [\A items \in 0 .. MaxItems : P!SetItems(items) =>
                 LET pages == P!CalculateTotalPages(items, perPage) IN
                 IF pages # pager.totalPages /\ pager.self > pages /\ pages > 0
                 THEN pager'.page = pages /\ pager'.self = pages
                 ELSE pager'.page = pager.page]_(P!pgVars)
  BY ShrinkingShows DEF IInv
<1>4. Spec => T!ResultsNeverGoBack
  BY <1>1, IInvAlways, PTL DEF Spec, T!ResultsNeverGoBack
<1>5. Spec => M!CloseTakesNoOther
  BY <1>2, IInvAlways, PTL DEF M!CloseTakesNoOther
<1>6. Spec => P!ShrinkShowsLastPage
  BY <1>3, IInvAlways, PTL DEF P!ShrinkShowsLastPage
<1>7. IInv /\ [Next]_vars =>
        [digest.on /\ announced # Lo!Nowhere /\ trouble = {} /\ at' > at => entry]_(Lo!loVars)
  BY IInvNext DEF Onward, EntryOnlyIfAsked
<1>8. IInv /\ [Next]_vars =>
        [/\ view # 0 /\ view' = 0 => current'.route \in {"none"} \cup Ro!Redirections
         /\ redirecting /\ ~redirecting' /\ templates[Ro!TemplateOf(Ro!RouteOf(address.path))] = "here"
              => view' = current'.number /\ view' # 0]_(Ro!roVars)
  BY IInvNext DEF Onward, ViewKept
<1>9. Spec => Lo!ReplaceAddsNoEntry
  BY <1>7, IInvAlways, PTL DEF Spec, Lo!ReplaceAddsNoEntry
<1>10. Spec => Ro!ViewIsKept
  BY <1>8, IInvAlways, PTL DEF Spec, Ro!ViewIsKept
<1> QED
  BY <1>4, <1>5, <1>6, <1>9, <1>10 DEF NothingGoesBack
===============================================================================
