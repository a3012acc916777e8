----------------------------- MODULE CacheFactory -----------------------------
(***************************************************************************)
(* A cache of $cacheFactory with a capacity.  The entries form a list by   *)
(* their last use, linked both ways; beyond the capacity the one at the    *)
(* stale end goes.  Something undefined may be put: it gets an entry, and  *)
(* no value.  A capacity of 0 stands for none (capacity || MAX_VALUE), so  *)
(* Capacity is taken to be larger.                                         *)
(***************************************************************************)
EXTENDS Integers, Sequences, FiniteSets, Functions

CONSTANTS Keys, NoKey, Capacity, MaxSize

VARIABLES data,      \* keys with a value
          lruHash,   \* keys with an entry
          p, n,      \* the links of the entries
          freshEnd, staleEnd,
          size,
          used,      \* keys with an entry, the one used last in front
          odd        \* something undefined was put

cfVars == <<data, lruHash, p, n, freshEnd, staleEnd, size, used, odd>>

CfInit ==
  /\ data = {} /\ lruHash = {} /\ p = [k \in Keys |-> NoKey] /\ n = [k \in Keys |-> NoKey]
  /\ freshEnd = NoKey /\ staleEnd = NoKey /\ size = 0 /\ used = <<>> /\ odd = FALSE

Now == [data |-> data, lruHash |-> lruHash, p |-> p, n |-> n, freshEnd |-> freshEnd,
        staleEnd |-> staleEnd, size |-> size, used |-> used]

Become(b) ==
  /\ data' = b.data /\ lruHash' = b.lruHash /\ p' = b.p /\ n' = b.n /\ freshEnd' = b.freshEnd
  /\ staleEnd' = b.staleEnd /\ size' = b.size /\ used' = b.used

-----------------------------------------------------------------------------
(* The list *)

\* link(nextEntry, prevEntry)
Linked(b, next, prev) ==
  IF next = prev THEN b
  ELSE [b EXCEPT !.p = IF next = NoKey THEN @ ELSE [@ EXCEPT ![next] = prev],
                 !.n = IF prev = NoKey THEN @ ELSE [@ EXCEPT ![prev] = next]]

\* Mutant: the entry at the stale end stays there when it is used.
RestaledOnce(b, key) == [b EXCEPT !.staleEnd = IF @ = NoKey THEN key ELSE @]

\* An entry that is used is at the stale end if it is the only one, and no longer if
\* another one is before it.
Restaled(b, key) ==
  [b EXCEPT !.staleEnd = IF @ = NoKey THEN key ELSE IF @ = key THEN b.n[key] ELSE @]

InFront(b, key) ==
  [Linked(b, key, b.freshEnd) EXCEPT !.freshEnd = key, !.n = [@ EXCEPT ![key] = NoKey]]

\* refresh(entry)
Refreshed(b, key) ==
  IF key = b.freshEnd THEN b
  ELSE InFront(Linked(Restaled(b, key), b.n[key], b.p[key]), key)

\* The keys in s, but not key.
Without(s, key) ==
  IF key \in Range(s)
  THEN LET i == CHOOSE k \in DOMAIN s : s[k] = key
       IN SubSeq(s, 1, i - 1) \o SubSeq(s, i + 1, Len(s))
  ELSE s

Use(b, key) == [Refreshed(b, key) EXCEPT !.used = <<key>> \o Without(@, key)]

\* The entry of key is at neither end, and linked to none.
Unended(b, key) ==
  [b EXCEPT !.freshEnd = IF @ = key THEN b.p[key] ELSE @,
            !.staleEnd = IF @ = key THEN b.n[key] ELSE @]
Unlinked(b, key) == Linked(Unended(b, key), b.n[key], b.p[key])

\* remove(key)
Removed(b, key) ==
  IF key \notin b.lruHash THEN b
  ELSE [Unlinked(b, key) EXCEPT !.lruHash = @ \ {key}, !.data = @ \ {key}, !.size = @ - 1,
                                !.p = [@ EXCEPT ![key] = NoKey], !.n = [@ EXCEPT ![key] = NoKey],
                                !.used = Without(@, key)]

\* Mutant: room is made too late.
RoomTooLate(b) == IF b.size > Capacity + 1 THEN Removed(b, b.staleEnd) ELSE b
\* The entry at the stale end makes room.
MakeRoom(b) == IF b.size > Capacity THEN Removed(b, b.staleEnd) ELSE b

-----------------------------------------------------------------------------
(* Operations *)

WithEntry(key) ==
  IF key \in lruHash THEN Now
  ELSE [Now EXCEPT !.lruHash = @ \cup {key}, !.p[key] = NoKey, !.n[key] = NoKey]

Put(key) ==
  LET b == Use(WithEntry(key), key)
  IN /\ Become(MakeRoom([b EXCEPT !.data = @ \cup {key},
                                  !.size = IF key \in data THEN @ ELSE @ + 1]))
     /\ UNCHANGED odd

PutUndefined(key) ==
  /\ size > -MaxSize
  /\ Become(Use(WithEntry(key), key)) /\ odd' = TRUE

Get(key) == key \in lruHash /\ Become(Use(Now, key)) /\ UNCHANGED odd

Delete(key) == key \in lruHash /\ Become(Removed(Now, key)) /\ UNCHANGED odd

RemoveAll ==
  /\ data' = {} /\ lruHash' = {} /\ size' = 0 /\ freshEnd' = NoKey /\ staleEnd' = NoKey
  /\ p' = [k \in Keys |-> NoKey] /\ n' = p' /\ used' = <<>> /\ odd' = FALSE

CfNext ==
  \/ \E key \in Keys : Put(key) \/ PutUndefined(key) \/ Get(key) \/ Delete(key)
  \/ RemoveAll

CfSpec == CfInit /\ [][CfNext]_cfVars

-----------------------------------------------------------------------------
(* Properties *)

CfTypeOK ==
  /\ data \subseteq lruHash /\ lruHash \subseteq Keys
  /\ p \in [Keys -> Keys \cup {NoKey}] /\ n \in [Keys -> Keys \cup {NoKey}]
  /\ freshEnd \in Keys \cup {NoKey} /\ staleEnd \in Keys \cup {NoKey}
  /\ size \in -MaxSize - Cardinality(Keys) .. Cardinality(Keys) /\ odd \in BOOLEAN

\* Whatever is put, found and removed, the list runs from the entry used last to
\* the one not used for the longest time, and back the same way.
ListIsByUse ==
  /\ Range(used) = lruHash /\ IsInjective(used)
  /\ IF used = <<>> THEN freshEnd = NoKey /\ staleEnd = NoKey
     ELSE freshEnd = Head(used) /\ staleEnd = used[Len(used)]
  /\ \A i \in 1 .. Len(used) :
       /\ n[used[i]] = IF i = 1 THEN NoKey ELSE used[i - 1]
       /\ p[used[i]] = IF i = Len(used) THEN NoKey ELSE used[i + 1]

\* The cache holds no more values than its capacity, as long as nothing undefined
\* is put: an entry without a value is counted out when it goes, never in.
CapacityIsKept == ~odd => size = Cardinality(data) /\ size <= Capacity

=============================================================================
