------------------------------ MODULE Pagination ------------------------------
(***************************************************************************)
(* The pagination widget (ui.bootstrap.pagination).  Its scope is bound to *)
(* the page, the number of items and of items per page of the page around  *)
(* it, which may change them at any time; what the widget makes of them is *)
(* worked out by its watchers in the digest that follows.                  *)
(***************************************************************************)
EXTENDS Integers, Sequences, FiniteSets, FiniteSetsExt, Functions

CONSTANTS MaxItems, MaxPage, PerPage, MaxSize

VARIABLES total,     \* totalItems
          perPage,   \* itemsPerPage
          rotate,    \* whether the current page is in the middle of the links
          pager      \* the scope and the controller of the widget

pgVars == <<total, perPage, rotate, pager>>

CalculateTotalPages(items, per) == (items + per - 1) \div per

\* Mutant: the links in front of the current page are not limited by the first one.
FirstUnlimited(current, pages, size, rot) ==
  IF size >= pages THEN 1
  ELSE IF ~rot THEN ((current + size - 1) \div size - 1) * size + 1
  ELSE Min({current - size \div 2, pages - size + 1})

FirstPage(current, pages, size, rot) ==
  IF size >= pages THEN 1
  ELSE IF ~rot THEN ((current + size - 1) \div size - 1) * size + 1
  ELSE Min({Max({current - size \div 2, 1}), pages - size + 1})

\* Mutant: one page too many.
LastTooFar(first, pages, size) == Min({first + size, pages})

LastPage(first, pages, size) == Min({first + size - 1, pages})

\* getPages(): the page numbers that are linked, with the links to the sets of
\* pages before and after them when the pages do not rotate.
Window(current, pages, size, rot) ==
  LET first == FirstPage(current, pages, size, rot)
      last == LastPage(first, pages, size)
      numbers == [i \in 1 .. last - first + 1 |-> first + i - 1]
  IN IF size >= pages \/ rot THEN numbers
     ELSE (IF first > 1 THEN <<first - 1>> ELSE <<>>) \o numbers
          \o (IF last < pages THEN <<last + 1>> ELSE <<>>)

Render(p, rot) ==
  [p EXCEPT !.self = p.page, !.links = Window(p.page, p.totalPages, MaxSize, rot)]

\* Mutant: a page that does not exist is selected.
PageToShowZero(p, pages) == IF pages # p.totalPages /\ p.self > pages THEN pages ELSE p.page

\* Mutant: the page is left alone.
PageToShowBeyond(p, pages) == p.page

\* The watcher of totalPages: a page beyond the last one is given up for it, if there is one.
PageToShow(p, pages) ==
  IF pages # p.totalPages /\ p.self > pages /\ pages > 0 THEN pages ELSE p.page

\* The watchers of a digest: totalItems and itemsPerPage, then totalPages, then page.
DigestPager(p, items, per, rot) ==
  LET pages == CalculateTotalPages(items, per)
      beyond == pages # p.totalPages /\ p.self > pages
      selected == [p EXCEPT !.totalPages = pages, !.page = PageToShow(p, pages)]
  IN IF (pages # p.totalPages /\ ~beyond) \/ selected.page # p.self
     THEN Render(selected, rot) ELSE selected

PgInit ==
  /\ total = 0 /\ perPage \in PerPage /\ rotate \in BOOLEAN
  /\ \E page \in 1 .. MaxPage :
       pager = Render([page |-> page, self |-> 0, totalPages |-> 0, links |-> <<>>], rotate)

\* A link is clicked: a page of the list, the one before or after, the first or the last.
Links == Range(pager.links) \cup {pager.self - 1, pager.self + 1, 1, pager.totalPages}

SelectPage(page) ==
  /\ page # pager.self /\ page > 0 /\ page <= pager.totalPages
  /\ pager' = DigestPager([pager EXCEPT !.page = page], total, perPage, rotate)
  /\ UNCHANGED <<total, perPage, rotate>>

\* The page around the widget changes what it is bound to.
SetItems(items) ==
  /\ total' = items
  /\ pager' = DigestPager(pager, items, perPage, rotate)
  /\ UNCHANGED <<perPage, rotate>>

SetPerPage(per) ==
  /\ perPage' = per
  /\ pager' = DigestPager(pager, total, per, rotate)
  /\ UNCHANGED <<total, rotate>>

SetPage(page) ==
  /\ pager' = DigestPager([pager EXCEPT !.page = page], total, perPage, rotate)
  /\ UNCHANGED <<total, perPage, rotate>>

PgNext ==
  \/ \E page \in Links : SelectPage(page)
  \/ \E items \in 0 .. MaxItems : SetItems(items)
  \/ \E per \in PerPage : SetPerPage(per)
  \/ \E page \in 1 .. MaxPage : SetPage(page)

PgSpec == PgInit /\ [][PgNext]_pgVars

-----------------------------------------------------------------------------
\* Type correctness: the pages the widget knows are those of its items, and the page it
\* shows is one that was asked for or one of theirs.
PgTypeOK ==
  /\ total \in 0 .. MaxItems /\ perPage \in PerPage
  /\ pager.page \in 1 .. Max({MaxPage, MaxItems})
  /\ pager.totalPages = CalculateTotalPages(total, perPage)

\* Whatever order the number of items, the size of a page and the page change in, a
\* page that exists is among the links, and no link leads out of the list (getPages).
CurrentPageLinked ==
  pager.self \in 1 .. pager.totalPages =>
    /\ pager.self \in Range(pager.links)
    /\ Range(pager.links) \subseteq 1 .. pager.totalPages

\* The links are MaxSize pages in a row, or all the pages when there are fewer; the
\* links to the sets before and after make one or two more.
LinksInARow ==
  pager.self \in 1 .. pager.totalPages =>
    /\ \A i \in 1 .. Len(pager.links) - 1 : pager.links[i + 1] = pager.links[i] + 1
    /\ rotate => Len(pager.links) = Min({MaxSize, pager.totalPages})
    /\ Len(pager.links) <= MaxSize + 2

\* A list that gets shorter takes the user to its last page; the page is left alone as
\* long as it exists (the watcher of totalPages).
ShrinkShowsLastPage ==
  [][\A items \in 0 .. MaxItems : SetItems(items) =>
       LET pages == CalculateTotalPages(items, perPage) IN
       IF pages # pager.totalPages /\ pager.self > pages /\ pages > 0
       THEN pager'.page = pages /\ pager'.self = pages
       ELSE pager'.page = pager.page]_pgVars
===============================================================================
