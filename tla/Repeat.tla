-------------------------------- MODULE Repeat --------------------------------
(***************************************************************************)
(* The rows ngRepeat keeps of a collection (angular.js, ngRepeatWatch and  *)
(* HashQueueMap), as the list of receivers is shown: a row is an element   *)
(* and a scope; the row of a value is used again wherever the value is     *)
(* now, and rows nobody used are removed.  An array may hold a value       *)
(* twice.  A value stands for its hashKey().                               *)
(***************************************************************************)
EXTENDS Integers, Sequences, FiniteSets, SequencesExt, FiniteSetsExt

CONSTANTS Values, MaxLength,
          MaxSince    \* times it is listed from when a controller has thrown

VARIABLES collection, \* what was listed last: its keys and values in order
          rows,       \* scope, index and element of the rows there are
          dom,        \* the elements after the comment, in their order
          lastOrder,  \* of each value, the rows that show it
          since       \* how often it was listed since a controller threw

rpVars == <<collection, rows, dom, lastOrder, since>>

\* Rows are numbered; the comment that stands for the element is 0.
Rows == 1 .. MaxLength * (MaxSince + 2)

Array(values) == [i \in DOMAIN values |-> [key |-> i - 1, value |-> values[i]]]
\* The properties of an object are numbered in the order of their names and after every
\* index; the name of the first one starts with '$': it is left out.
Properties == {10, 11, 12}
Object(object) ==
  LET keys == SelectSeq(<<11, 12>>, LAMBDA key : key \in DOMAIN object)
  IN [i \in DOMAIN keys |-> [key |-> keys[i], value |-> object[keys[i]]]]

Collections ==
  {Array(values) : values \in BoundedSeq(Values, MaxLength)} \cup
  UNION {{Object(object) : object \in [keys -> Values]} : keys \in SUBSET Properties}

RpInit ==
  /\ collection = <<>> /\ dom = <<>> /\ since = 0
  /\ rows = [r \in {} |-> 0] /\ lastOrder = [v \in Values |-> <<>>]

\* cursor.after(element)
After(elements, cursor, r) ==
  LET rest == SelectSeq(elements, LAMBDA s : s # r)
      at == IF cursor = 0 THEN 0 ELSE CHOOSE i \in DOMAIN rest : rest[i] = cursor
  IN SubSeq(rest, 1, at) \o <<r>> \o SubSeq(rest, at + 1, Len(rest))

\* childScope and last.index of the row of an item.
Set(item, index, at) == [value |-> item.value, key |-> item.key, index |-> index, at |-> at]

\* Mutant: where a row was is remembered from when it was made.
MovedUnnoticed(b, r, item, index) ==
  IF index = b.rows[r].at THEN [b EXCEPT !.cursor = r, !.rows[r] = Set(item, index, index)]
  ELSE [b EXCEPT !.dom = After(b.dom, b.cursor, r), !.cursor = r,
                 !.rows[r] = Set(item, index, b.rows[r].at)]

\* A row is used again, in its place or in another one.
Moved(b, r, item, index) ==
  LET c == [b EXCEPT !.cursor = r, !.rows[r] = Set(item, index, index)]
  IN IF index = b.rows[r].at THEN c ELSE [c EXCEPT !.dom = After(b.dom, b.cursor, r)]

\* A new scope, linked to a clone of the element; a controller in it that throws ends the watch.
Made(b, item, index, bad) ==
  LET r == Min(Rows \ ToSet(b.dom))
  IN [b EXCEPT !.dom = After(b.dom, b.cursor, r), !.cursor = r, !.thrown = (index = bad),
               !.rows = [s \in DOMAIN b.rows \cup {r} |-> IF s = r THEN Set(item, index, index)
                                                           ELSE b.rows[s]],
               !.next[item.value] = Append(@, r)]

Listed(b, item, index, bad) ==
  LET v == item.value
  IN IF b.thrown THEN b
     ELSE IF b.last[v] = <<>> THEN Made(b, item, index, bad)
     ELSE LET r == Head(b.last[v])
              c == [b EXCEPT !.last[v] = Tail(@), !.next[v] = Append(@, r)]
          IN Moved(c, r, item, index)

\* Rows that were not used again go; after an exception nobody sees to them, and the rows
\* that were used are in no order that is kept.
Shrunk(b) ==
  IF b.thrown THEN b
  ELSE LET gone == UNION {ToSet(b.last[v]) : v \in Values}
       IN [b EXCEPT !.dom = SelectSeq(b.dom, LAMBDA r : r \notin gone),
                    !.rows = [r \in DOMAIN b.rows \ gone |-> b.rows[r]],
                    !.last = b.next]

\* ngRepeatWatch: it is a watcher without a listener, so that it runs in every pass.  bad is
\* the index of a row whose controller throws, -1 for none.
NgRepeatWatch(c, bad) ==
  LET start == [rows |-> rows, dom |-> dom, last |-> lastOrder, cursor |-> 0, thrown |-> FALSE,
                next |-> [v \in Values |-> <<>>]]
      b == Shrunk(FoldLeftDomain(LAMBDA d, i : Listed(d, c[i], i - 1, bad), start, c))
  IN /\ since < MaxSince /\ (bad >= 0 => since = 0 /\ b.thrown)
     /\ collection' = c /\ rows' = b.rows /\ dom' = b.dom /\ lastOrder' = b.last
     /\ since' = IF b.thrown \/ since > 0 THEN since + 1 ELSE since

RpNext == \E c \in Collections : \E bad \in -1 .. Len(c) - 1 : NgRepeatWatch(c, bad)

RpSpec == RpInit /\ [][RpNext]_rpVars

-----------------------------------------------------------------------------
\* Rows that an exception has left: they stay on the page for ever.
Left == ToSet(dom) \ UNION {ToSet(lastOrder[v]) : v \in Values}

RpTypeOK ==
  /\ collection \in Collections /\ since \in 0 .. MaxSince
  /\ DOMAIN rows = ToSet(dom) /\ IsInjective(dom) /\ DOMAIN rows \subseteq Rows
  /\ \A r \in DOMAIN rows : rows[r].value \in Values /\ rows[r].at \in Nat

\* However values come, go, move and are repeated, the elements lie in the order of the
\* collection and the scope of each has the value, the key and the index it stands for:
\* an element is not touched when its index is the same, whatever was moved around it,
\* elements that an exception has left among them.
ListedAsItIs ==
  LET elements == SelectSeq(dom, LAMBDA r : r \notin Left)
  IN since # 1 => /\ Len(elements) = Len(collection)
                  /\ \A i \in DOMAIN elements :
                       rows[elements[i]] = Set(collection[i], i - 1, i - 1)

\* Each row is found again under its value, the rows of a repeated one in their order.
FoundAgain ==
  \A v \in Values :
    lastOrder[v] = SelectSeq(dom, LAMBDA r : r \notin Left /\ rows[r].value = v)

\* A value that stays keeps its row, with what the user typed into it: the n-th row of a
\* value is the n-th before, and rows are made only for what there are no rows of.
RowsKept ==
  [][\A v \in Values :
       LET n == Min({Len(lastOrder[v]), Len(lastOrder'[v])})
       IN Left' = Left => SubSeq(lastOrder'[v], 1, n) = SubSeq(lastOrder[v], 1, n)]_rpVars
===============================================================================
