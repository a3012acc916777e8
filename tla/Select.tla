------------------------------- MODULE Select -------------------------------
(***************************************************************************)
(* The select element of angular.js (selectDirective).  With ngOptions its *)
(* options are made of a collection, in groups, and elements are used      *)
(* again for whatever stands in their place now; without, the options are  *)
(* elements of the page that come and go, and one more stands for a model  *)
(* that is none of them.  The browser has rules of its own for what is     *)
(* selected: they are the operators SetOn, AskForReset and Val.            *)
(*                                                                         *)
(* An item is its value, which is its label too, and its group.            *)
(***************************************************************************)
EXTENDS Integers, Sequences, FiniteSets, SequencesExt

CONSTANTS Collections, \* sequences of items: [value, group]
          OptionValues,     \* values of the options of a plain select
          MaxOptions   \* options of a plain select

VARIABLES kind,        \* made by ngOptions?  multiple?  a placeholder?  a list or a menu?
          collection, chosenModel,
          groups,      \* optionGroupsCache; that of the select itself is the first
          ahead,       \* groups that stand before the options without a group
          pending,     \* the user made a selection, its event has yet to come
          plain        \* a plain select: options, optionsMap, the unknown option, selection

seVars == <<kind, collection, chosenModel, groups, ahead, pending, plain>>

Undefined == "undefined"
Null == "null"
\* The identifiers of the option for null and of the one for what is not in the collection;
\* the others have the index of their item.
NullId == 0
UnknownId == -1

-----------------------------------------------------------------------------
(* The elements in the document: b.groups and b.ahead *)

Places(b) == UNION {{g} \X DOMAIN b.groups[g].options : g \in DOMAIN b.groups}
OptionAt(b, p) == b.groups[p[1]].options[p[2]]
Ons(b) == {p \in Places(b) : OptionAt(b, p).on}

\* Groups in the order of the document.
Order(b) == [k \in DOMAIN b.groups |->
               IF k <= b.ahead THEN k + 1 ELSE IF k = b.ahead + 1 THEN 1 ELSE k]

\* A menu always has an option selected: the first one unless another is.
AskForReset(b) ==
  LET order == Order(b)
      first == SelectInSeq(order, LAMBDA g : b.groups[g].options # <<>>)
  IN IF kind.multiple \/ kind.list \/ first = 0 \/ Ons(b) # {} THEN b
     ELSE [b EXCEPT !.groups[order[first]].options[1].on = TRUE]

AllOff(b) ==
  FoldSet(LAMBDA p, d : [d EXCEPT !.groups[p[1]].options[p[2]].on = FALSE], b, Ons(b))

SetOn(b, g, i, on) ==
  IF ~on THEN AskForReset([b EXCEPT !.groups[g].options[i].on = FALSE])
  ELSE [(IF kind.multiple THEN b ELSE AllOff(b)) EXCEPT !.groups[g].options[i].on = TRUE]

-----------------------------------------------------------------------------
(* render() of ngOptions *)

\* optionGroupNames: in the order in which the collection names them.
Names(c) ==
  FoldLeft(LAMBDA names, item : IF Contains(names, item.group) THEN names
                                ELSE Append(names, item.group),
           <<"">>, c)

Selected(c, m, i) ==
  IF kind.multiple THEN c[i].value \in m /\ \A j \in 1 .. i - 1 : c[j].value # c[i].value
  ELSE c[i].value = m

\* optionGroups[name]: those without a group begin with the null or the unknown option.
Wanted(c, m, name) ==
  LET mine == SelectSeq([i \in DOMAIN c |-> i], LAMBDA i : c[i].group = name)
      listed == [k \in DOMAIN mine |-> [id |-> mine[k], label |-> c[mine[k]].value,
                                        on |-> Selected(c, m, mine[k])]]
      selectedSet == \E i \in DOMAIN c : Selected(c, m, i)
  IN CASE name # "" \/ kind.multiple -> listed
       [] name = "" /\ ~kind.multiple /\ (kind.placeholder \/ m = Null) ->
            <<[id |-> NullId, label |-> "", on |-> ~selectedSet]>> \o listed
       [] OTHER -> IF selectedSet THEN listed
                   ELSE <<[id |-> UnknownId, label |-> "", on |-> TRUE]>> \o listed

\* Mutant: an element that is used again keeps its identifier.
UpdatedKeepsId(old, option) == [old EXCEPT !.label = option.label]

Updated(old, option) == [old EXCEPT !.label = option.label, !.id = option.id]

\* An element is used again, or a new one comes in behind those of its group - at the end of
\* the select when it is the first one without a group.  The placeholder is put back as it is.
PutOption(b, g, i, option) ==
  LET there == b.groups[g].options
      kept == [b EXCEPT !.groups[g].options[i] = Updated(there[i], option)]
      on == option.on /\ ~(option.id = NullId /\ kind.placeholder)
      new == [b EXCEPT !.groups[g].options = Append(@, [option EXCEPT !.on = FALSE]),
                       !.ahead = IF g = 1 /\ there = <<>> THEN Len(b.groups) - 1 ELSE @]
  IN IF i \in DOMAIN there
     THEN IF there[i].on = option.on THEN kept ELSE SetOn(kept, g, i, option.on)
     ELSE IF on THEN SetOn(new, g, i, TRUE) ELSE AskForReset(new)

RenderGroup(b, g, name, wanted) ==
  LET grown == IF g > Len(b.groups)
               THEN [b EXCEPT !.groups = Append(@, [name |-> name, options |-> <<>>])]
               ELSE [b EXCEPT !.groups[g].name = name]
      put == FoldLeft(LAMBDA d, i : PutOption(d, g, i, wanted[i]), grown,
                      [i \in DOMAIN wanted |-> i])
  IN AskForReset([put EXCEPT !.groups[g].options = SubSeq(@, 1, Len(wanted))])

Render(b, c, m) ==
  LET names == Names(c)
      n == Len(names)
      put == FoldLeft(LAMBDA d, g : RenderGroup(d, g, names[g], Wanted(c, m, names[g])), b,
                      [g \in 1 .. n |-> g])
  IN AskForReset([put EXCEPT !.groups = SubSeq(@, 1, n),
                             !.ahead = IF @ < n THEN @ ELSE n - 1])

Now == [groups |-> groups, ahead |-> ahead]

\* A digest: ngModel tells the model, and render() runs once in every pass.
Digest(c, m) ==
  /\ collection' = c /\ chosenModel' = m
  /\ \E passes \in 1 .. 2 :
       LET one == Render(Now, c, m)
           b == IF passes = 1 THEN one ELSE Render(one, c, m)
       IN groups' = b.groups /\ ahead' = b.ahead
  /\ pending' = FALSE
  /\ UNCHANGED <<kind, plain>>

Models == IF kind.multiple THEN SUBSET {"a", "b"} ELSE {"a", "b", Null, Undefined}

\* The page brings another collection, or another model.
Refresh == kind.options /\ \E c \in Collections : Digest(c, chosenModel)
SetModel == kind.options /\ \E m \in Models : Digest(collection, m)

\* The user selects; the browser may tell of it later, when the select loses the focus.  If
\* a digest comes first it takes the selection back, and there is nothing to tell.
Choose ==
  /\ kind.options /\ ~pending /\ pending' = TRUE
  /\ \/ \E g \in DOMAIN groups : \E i \in DOMAIN groups[g].options :
          /\ kind.multiple \/ ~groups[g].options[i].on
          /\ groups' = SetOn(Now, g, i, ~groups[g].options[i].on).groups
     \/ /\ kind.list /\ ~kind.multiple
        /\ groups' = AllOff(Now).groups
  /\ UNCHANGED <<kind, collection, chosenModel, ahead, plain>>

\* The event: what is selected is looked up in the collection by its identifier.
Change ==
  LET ids == {OptionAt(Now, p).id : p \in Ons(Now)}
      valueOf(id) == CASE id = UnknownId -> Undefined
                       [] id = NullId -> Null
                       [] OTHER -> collection[id].value
  IN
  /\ kind.options /\ pending
  /\ Digest(collection,
            IF kind.multiple THEN {collection[id].value : id \in ids}
            ELSE IF ids = {} THEN Null ELSE valueOf(CHOOSE id \in ids : TRUE))

-----------------------------------------------------------------------------
(* A plain select: p.on is the index of an option, 0 for none, -1 for the unknown one *)

FirstOf(p, value) ==
  IF Contains(p.options, value) THEN SelectInSeq(p.options, LAMBDA o : o = value) ELSE 0

Reset(p) ==
  IF p.on # 0 THEN p
  ELSE [p EXCEPT !.on = IF p.unknown THEN -1 ELSE IF p.options = <<>> THEN 0 ELSE 1]

\* select.val(value)
Val(p, value) == [p EXCEPT !.on = FirstOf(p, value)]

RenderUnknownOption(p) == [p EXCEPT !.unknown = TRUE, !.on = -1]

DropUnknown(p) == Reset([p EXCEPT !.unknown = FALSE, !.on = IF @ = -1 THEN 0 ELSE @])

AddOption(p, value, view) ==
  LET known == [p EXCEPT !.known = @ \cup {value}]
  IN IF view = value THEN DropUnknown(Val(known, value)) ELSE known

\* Mutant: an option goes though it is the model's.
RemoveOptionOnly(p, value, view) == [p EXCEPT !.known = @ \ {value}]

RemoveOption(p, value, view) ==
  LET gone == [p EXCEPT !.known = @ \ {value}]
  IN IF value \in p.known /\ view = value THEN RenderUnknownOption(gone) ELSE gone

RenderSingle(p, view) ==
  IF view \in p.known THEN Val(DropUnknown(p), view)
  ELSE IF view = Undefined /\ kind.placeholder THEN Val(p, "") ELSE RenderUnknownOption(p)

\* 'twice' remembers that two options had one value.
BecomePlain(p, m) ==
  /\ plain' = [p EXCEPT !.twice = @ \/ ~IsInjective(p.options)]
  /\ chosenModel' = m
  /\ UNCHANGED <<kind, collection, groups, ahead, pending>>

\* An option is linked, after the one it follows on the page.
OptionComes ==
  /\ ~kind.options /\ Len(plain.options) < MaxOptions
  /\ \E value \in OptionValues, i \in 1 .. Len(plain.options) + 1 :
       /\ ~(kind.placeholder /\ i = 1)
       /\ BecomePlain(AddOption(Reset([plain EXCEPT !.options = InsertAt(@, i, value),
                                                    !.on = IF @ >= i THEN @ + 1 ELSE @]),
                                value, chosenModel),
                      chosenModel)

\* Its '$destroy' comes before it is taken out of the document.
OptionGoes ==
  /\ ~kind.options
  /\ \E i \in DOMAIN plain.options :
       /\ plain.options[i] # ""
       /\ LET p == RemoveOption(plain, plain.options[i], chosenModel)
          IN BecomePlain(Reset([p EXCEPT !.options = RemoveAt(@, i),
                                         !.on = IF @ = i THEN 0 ELSE IF @ > i THEN @ - 1 ELSE @]),
                         chosenModel)

\* Its value is interpolated, and changed.
OptionChanges ==
  /\ ~kind.options
  /\ \E i \in DOMAIN plain.options, value \in OptionValues :
       /\ plain.options[i] \notin {"", value}
       /\ BecomePlain(AddOption(RemoveOption([plain EXCEPT !.options[i] = value],
                                             plain.options[i], chosenModel),
                                value, chosenModel),
                      chosenModel)

SetPlain ==
  ~kind.options /\ \E m \in OptionValues \cup {Undefined} : BecomePlain(RenderSingle(plain, m), m)

\* The user selects an option: the unknown one goes before the value is asked for.
ChangePlain ==
  /\ ~kind.options
  /\ \E i \in DOMAIN plain.options :
       /\ i # plain.on
       /\ LET p == DropUnknown([plain EXCEPT !.on = i]) IN BecomePlain(p, p.options[p.on])

-----------------------------------------------------------------------------
SeInit ==
  /\ kind \in [options : BOOLEAN, multiple : BOOLEAN, placeholder : BOOLEAN, list : BOOLEAN]
  /\ kind.multiple => kind.options /\ ~kind.placeholder /\ kind.list
  /\ ~kind.options => ~kind.list
  /\ collection = <<>>
  /\ chosenModel = IF kind.multiple THEN {} ELSE Undefined
  /\ LET empty == [groups |-> <<[name |-> "", options |-> <<>>]>>, ahead |-> 0]
         b == IF kind.options THEN Render(Render(empty, collection, chosenModel),
                                          collection, chosenModel)
              ELSE empty
     IN groups = b.groups /\ ahead = b.ahead
  /\ pending = FALSE
  /\ plain = IF kind.options THEN [options |-> <<>>, known |-> {}, unknown |-> FALSE, on |-> 0,
                                   twice |-> FALSE]
             ELSE RenderSingle([options |-> IF kind.placeholder THEN <<"">> ELSE <<>>,
                                known |-> IF kind.placeholder THEN {""} ELSE {},
                                unknown |-> FALSE, on |-> 0, twice |-> FALSE], Undefined)

SeNext ==
  \/ Refresh \/ SetModel \/ Choose \/ Change
  \/ OptionComes \/ OptionGoes \/ OptionChanges \/ SetPlain \/ ChangePlain

SeSpec == SeInit /\ [][SeNext]_seVars

-----------------------------------------------------------------------------
(* Properties *)

\* Type correctness of the select.
SeTypeOK ==
  /\ Len(groups) >= 1 /\ ahead \in 0 .. Len(groups) - 1 /\ pending \in BOOLEAN
  /\ \A g \in DOMAIN groups : \A i \in DOMAIN groups[g].options :
       groups[g].options[i].id \in -1 .. Len(collection)
  /\ plain.on \in -1 .. Len(plain.options) /\ (plain.on = -1 => plain.unknown)

\* However elements are used again, each item is offered once, under its name and in its
\* group, and stands for itself when it is selected: only one option more may lead the list.
OfferedOnce ==
  kind.options =>
    /\ \A k \in DOMAIN collection :
         LET mine == {p \in Places(Now) : OptionAt(Now, p).id = k}
         IN /\ Cardinality(mine) = 1
            /\ \A p \in mine : /\ OptionAt(Now, p).label = collection[k].value
                               /\ groups[p[1]].name = collection[k].group
    /\ \A p \in Places(Now) : OptionAt(Now, p).id < 1 => p = <<1, 1>>
    /\ \A p, q \in Places(Now) :
         p[1] = q[1] /\ p[2] < q[2] => OptionAt(Now, p).id < OptionAt(Now, q).id

\* After a digest the selection is the model, whatever the browser selected meanwhile: the
\* items that have its value, or the option that says that it is none of them.
SelectionIsModel ==
  kind.options /\ ~pending =>
    LET on == {OptionAt(Now, p).id : p \in Ons(Now)}
        values == {collection[k].value : k \in DOMAIN collection}
    IN IF kind.multiple
       THEN {collection[k].value : k \in on} = chosenModel \cap values
       ELSE /\ Cardinality(Ons(Now)) = 1
            /\ \A k \in on :
                 CASE k = NullId -> chosenModel \notin values
                                    /\ (kind.placeholder \/ chosenModel = Null)
                   [] k = UnknownId -> chosenModel \notin values /\ ~kind.placeholder
                   [] OTHER -> collection[k].value = chosenModel

\* As long as no two options have one value, a plain select shows the model, whenever its
\* option comes, changes or goes, and the unknown option when it has none.
PlainIsModel ==
  ~kind.options /\ ~plain.twice =>
    IF Contains(plain.options, chosenModel)
    THEN plain.on > 0 /\ plain.options[plain.on] = chosenModel /\ ~plain.unknown
    ELSE \/ plain.on = -1
         \/ chosenModel = Undefined /\ kind.placeholder /\ plain.options[plain.on] = ""
===============================================================================
