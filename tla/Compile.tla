------------------------------- MODULE Compile -------------------------------
(***************************************************************************)
(* The compiler of angular.js ($compile).  It collects the directives of   *)
(* an element, applies them by priority - one may stop the others, put the *)
(* element or its contents aside, or wait for its template - and gives a   *)
(* function that links clones of the element to scopes.  Two smaller parts *)
(* are explored on their own: a binding of an isolated scope ("=") and the *)
(* observers of an attribute.                                              *)
(***************************************************************************)
EXTENDS Integers, Sequences, FiniteSets, SequencesExt

CONSTANTS MaxDirectives, MaxClones, MaxChanges

VARIABLES directives, \* of the element, as they were sorted
          template,   \* "none" asked for, "loading", "ready" or "failed"
          clones,     \* what was done for each clone, in its order
          queue,      \* clones that wait for the template
          binding,    \* of the parent's value to that of the isolated scope
          attribute   \* and its observers

coVars == <<directives, template, clones, queue, binding, attribute>>

-----------------------------------------------------------------------------
(* Compilation *)

Kinds == {"plain", "terminal", "content", "element", "url", "scope", "isolate"}

\* byPriority(); the order within a priority is up to the browser.
Sorted(ds) == \A i \in 1 .. Len(ds) - 1 : ds[i].priority >= ds[i + 1].priority

Nothing == [own |-> <<>>, controllers |-> <<>>, priority |-> -1, terminal |-> FALSE, scope |-> "none",
            isolate |-> FALSE, transclude |-> 0, later |-> <<>>, failed |-> FALSE]

\* Mutant: addDirective() takes those beside the directive that put the element aside.
BelowOrBeside(is, max) ==
  SelectSeq(is, LAMBDA i : directives[i].priority <= max /\ directives[i].kind # "element")

\* addDirective(): the directives of an element that was put aside.
Below(is, max) == SelectSeq(is, LAMBDA i : directives[i].priority < max)

\* assertNoDuplicate(); there is no such check for a scope before an isolated one.
Duplicate(p, kind) ==
  \/ kind \in {"scope", "isolate"} /\ p.isolate
  \/ kind \in {"content", "element"} /\ p.transclude # 0

\* applyDirectivesToNode(): directives is (indexes), one after another, until one is below
\* the priority of a directive that stops them.  A directive that has a template to load
\* takes the rest along; it has given its controller and its scope before.
RECURSIVE Apply(_, _, _)
Apply(is, loaded, p) ==
  LET i == Head(is)
      d == directives[i]
      again == i = loaded \* the directive whose template was loaded
      aside == d.kind \in {"content", "element"}
      q == [p EXCEPT
              !.controllers = IF again THEN @ ELSE Append(@, i),
              !.scope = IF @ = "none" /\ d.kind \in {"scope", "isolate"} THEN d.kind ELSE @,
              !.isolate = @ \/ d.kind = "isolate",
              !.transclude = IF aside THEN i ELSE @,
              !.priority = IF aside \/ (d.kind = "terminal" /\ d.priority > @) THEN d.priority ELSE @,
              !.terminal = @ \/ d.kind = "terminal"]
  IN IF is = <<>> THEN p
     ELSE IF p.priority > d.priority THEN p
     ELSE IF Duplicate(p, d.kind) THEN [p EXCEPT !.failed = TRUE]
     ELSE IF d.kind = "url" /\ ~again THEN [q EXCEPT !.later = is]
     ELSE Apply(Tail(is), loaded, [q EXCEPT !.own = Append(@, i)])

All == [i \in DOMAIN directives |-> i]
Before == Apply(All, 0, Nothing)

\* What the directives do that waited for the template.
After(p) == Apply(p.later, p.later[1], Nothing)

\* The element that p has put aside is compiled with the directives below.
IsAside(p) == p.transclude # 0 /\ directives[p.transclude].kind = "element"
Aside(p) == Apply(Below(All, directives[p.transclude].priority), 0, Nothing)

\* What is compiled at once, and what when the template is there.
AtOnce == {Before} \cup (IF IsAside(Before) THEN {Aside(Before)} ELSE {})
AtLast == {After(p) : p \in {q \in AtOnce : q.later # <<>>}}
Broken(ps) == \E p \in ps : p.failed

-----------------------------------------------------------------------------
(* Linking *)

\* Every directive requires its own controller: its functions fail without it.
Calls(what, is) == [n \in DOMAIN is |-> <<what, is[n]>>]
With(is, there) == SelectSeq(is, LAMBDA i : i \in there)

Child == <<<<"child", 0>>>>
Template == <<<<"template", 0>>>>

\* nodeLinkFn(): controllers, pre-linking, what is within, post-linking.  A directive that
\* put something aside - the element or its contents - links it, once, when it is
\* post-linked itself.
RECURSIVE Link(_, _, _), Whole(_)
Link(p, within, contents) ==
  LET there == ToSet(p.controllers) \cup {i \in ToSet(All) : Contains(within, <<"controller", i>>)}
      before == ToSet(p.controllers)
      aside == Aside(p)
      inner == IF p.transclude = 0 THEN <<>>
               ELSE IF ~IsAside(p) THEN contents
               ELSE IF aside.later # <<>> /\ template # "ready" THEN <<>>
               ELSE Whole(aside)
      Post(i) == <<<<"post", i>>>> \o (IF i = p.transclude THEN inner ELSE <<>>)
  IN Calls("controller", p.controllers)
     \o Calls("pre", With(p.own, before))
     \o within
     \o FlattenSeq([n \in DOMAIN With(p.own, there) |-> Post(With(p.own, there)[n])])

\* The contents: none when they were put aside or when a directive is terminal.
Contents(p) == IF p.terminal \/ p.transclude # 0 THEN <<>> ELSE Child

\* afterTemplateNodeLinkFn(): the directives that waited are linked around the others.
Whole(p) == IF p.later = <<>> THEN Link(p, Contents(p), Child)
            ELSE LET after == After(p)
                 IN Link(after, Link(p, IF after.transclude # 0 THEN <<>> ELSE Template, Child), Template)

CoInit ==
  /\ directives \in {ds \in BoundedSeq([priority : 0 .. 1, kind : Kinds], MaxDirectives) :
                       Sorted(ds) /\ Cardinality({i \in DOMAIN ds : ds[i].kind = "url"}) <= 1}
  /\ \A p \in AtLast : ~IsAside(p)
  /\ template = IF \E p \in AtOnce : p.later # <<>> THEN "loading" ELSE "none"
  /\ clones = [c \in 1 .. MaxClones |-> <<>>]
  /\ queue = <<>>
  /\ binding = [parent |-> 0, own |-> 0, last |-> 0, changed |-> {}, assignable |-> TRUE, met |-> FALSE, n |-> 0]
  /\ attribute = [value |-> 3, expression |-> 0, observers |-> <<>>, soon |-> <<>>, changes |-> 0]

Elsewhere == binding.n = 0 /\ attribute.changes = 0

Asked == <<<<"asked", 0>>>>

\* publicLinkFn() of a clone; delayedNodeLinkFn() keeps what is to be linked with the
\* template, be it the clone or what it has put aside.
LinkClone(c) ==
  /\ Elsewhere /\ directives # <<>> /\ ~Broken(AtOnce)
  /\ clones[c] = <<>>
  /\ clones' = [clones EXCEPT ![c] =
                  Asked \o (IF template # "ready" /\ Before.later # <<>> THEN <<>> ELSE Whole(Before))]
  /\ queue' = IF template \in {"loading", "failed"} THEN Append(queue, c) ELSE queue
  /\ UNCHANGED <<directives, template, binding, attribute>>

\* Mutant: only the clone that waited last is linked.
WaitingLast == IF queue = <<>> THEN {} ELSE {Last(queue)}

Waiting == ToSet(queue)

\* The template has come: the clones that wait are linked, the last one first.
TemplateLoaded ==
  /\ template = "loading" /\ ~Broken(AtOnce \cup AtLast) /\ Elsewhere
  /\ template' = "ready"
  /\ clones' = [c \in DOMAIN clones |-> IF c \in Waiting THEN clones[c] \o Whole(IF Before.later # <<>> THEN Before ELSE Aside(Before))
                                                         ELSE clones[c]]
  /\ queue' = <<>>
  /\ UNCHANGED <<directives, binding, attribute>>

\* It does not come: what waits for it waits for ever.
TemplateFailed ==
  /\ template = "loading" /\ Elsewhere
  /\ template' = "failed"
  /\ UNCHANGED <<directives, clones, queue, binding, attribute>>

-----------------------------------------------------------------------------
(* A binding "=" of an isolated scope, to an expression that may be assignable *)

Bind(b) == binding' = b /\ UNCHANGED <<directives, template, clones, queue, attribute>>

Change(side) ==
  /\ directives = <<>> /\ attribute.changes = 0 /\ binding.n < MaxChanges
  /\ \E v \in 0 .. 2, a \in (IF binding.n = 0 THEN BOOLEAN ELSE {binding.assignable}) :
       Bind([binding EXCEPT ![side] = v, !.assignable = a, !.n = @ + 1, !.changed = @ \cup {side}])

\* parentValueWatch(); what was last seen is not noted when both sides met by themselves.
Checked(b) ==
  IF b.parent = b.own THEN [b EXCEPT !.changed = {}, !.met = @ \/ b.last # b.own]
  ELSE IF b.parent # b.last \/ ~b.assignable
    THEN [b EXCEPT !.own = b.parent, !.last = b.parent, !.changed = {}, !.met = FALSE]
  ELSE [b EXCEPT !.parent = b.own, !.last = b.own, !.changed = {}, !.met = FALSE]

CheckBinding == binding.changed # {} /\ Bind(Checked(binding))

-----------------------------------------------------------------------------
(* The observers of an attribute that holds an expression in braces *)

Attr(a) == attribute' = a /\ UNCHANGED <<directives, template, clones, queue, binding>>

\* Mutant: $set() does not call the observers.
ToldNobody(a) == [a EXCEPT !.value = a.expression]

\* $set(): the observers are told.
Told(a) == [a EXCEPT !.value = a.expression,
                     !.observers = [i \in DOMAIN @ |-> [@[i] EXCEPT !.told = a.expression]]]

\* $observe(): the value is told soon, unless the digest is to tell it.
Observe ==
  /\ directives = <<>> /\ binding.n = 0 /\ attribute.changes < MaxChanges
  /\ Attr([attribute EXCEPT !.changes = @ + 1,
             !.observers = Append(@, [told |-> -1, late |-> attribute.value = attribute.expression]),
             !.soon = Append(@, Len(attribute.observers) + 1)])

\* Its $evalAsync(): observers of an attribute with braces (listeners.$$inter) are left alone.
Soon == attribute.soon # <<>> /\ Attr([attribute EXCEPT !.soon = Tail(@)])

ExpressionChanges ==
  /\ directives = <<>> /\ binding.n = 0 /\ attribute.changes < MaxChanges
  /\ \E v \in 1 .. 2 :
       Attr([attribute EXCEPT !.expression = v, !.changes = @ + 1,
               !.observers = [i \in DOMAIN @ |-> [@[i] EXCEPT !.late = @ \/ v = attribute.value]]])

\* interpolateFnWatchAction() of the attribute
Interpolate ==
  /\ attribute.changes > 0 /\ attribute.value # attribute.expression /\ attribute.soon = <<>>
  /\ Attr(Told(attribute))

CoNext ==
  \/ \E c \in 1 .. MaxClones : LinkClone(c)
  \/ TemplateLoaded \/ TemplateFailed
  \/ \E side \in {"parent", "own"} : Change(side)
  \/ CheckBinding
  \/ Observe \/ Soon \/ ExpressionChanges \/ Interpolate

CoSpec == CoInit /\ [][CoNext]_coVars

-----------------------------------------------------------------------------
(* Properties *)

\* Type correctness of the element, its clones, the binding and the attribute.
CoTypeOK ==
  /\ Sorted(directives) /\ template \in {"none", "loading", "ready", "failed"}
  /\ \A c \in DOMAIN clones : \A n \in DOMAIN clones[c] :
       clones[c][n][1] \in {"asked", "controller", "pre", "post", "child", "template"} /\ clones[c][n][2] \in 0 .. MaxDirectives
  /\ ToSet(queue) \subseteq DOMAIN clones
  /\ binding.parent \in 0 .. 2 /\ binding.own \in 0 .. 2 /\ binding.last \in 0 .. 2
  /\ attribute.value \in 0 .. 3 /\ attribute.expression \in 0 .. 2

Times(c, call) == Cardinality({n \in DOMAIN clones[c] : clones[c][n] = call})

\* A directive that waits for its template takes the rest along, those included that were
\* stopped by one of its own priority.
Unstopped ==
  \E s, u \in DOMAIN directives :
    /\ s < u /\ directives[s].priority = directives[u].priority
    /\ directives[s].kind \in {"terminal", "content", "element"} /\ directives[u].kind = "url"

\* No directive and no content is linked twice, wherever it was put aside or waited; and a
\* directive is linked unless one above it stops it.  (One that puts its contents aside
\* stops those below it as well; Unstopped is left out.)
LinkedOnce ==
  \A c \in DOMAIN clones : clones[c] # <<>> /\ template \in {"none", "ready"} /\ ~Unstopped =>
    /\ Times(c, <<"child", 0>>) <= 1 /\ Times(c, <<"template", 0>>) <= 1
    /\ \A i \in DOMAIN directives :
         /\ Times(c, <<"post", i>>) <= 1 /\ Times(c, <<"controller", i>>) <= 1
         /\ (\A s \in DOMAIN directives :
               directives[s].priority > directives[i].priority => directives[s].kind \notin {"terminal", "content"})
            => Times(c, <<"post", i>>) = 1

Place(c, call) == CHOOSE n \in DOMAIN clones[c] : clones[c][n] = call
Has(c, call) == Contains(clones[c], call)

\* A directive's controller is there before its functions are called, pre-linking is done
\* before the contents are linked and post-linking begins after them, unless the contents
\* are put aside.  Only the directive that waits for a template is never pre-linked: its
\* functions come before its controller.
LinkedInOrder ==
  \A c \in DOMAIN clones, i \in DOMAIN directives :
    /\ Has(c, <<"pre", i>>) => Place(c, <<"controller", i>>) < Place(c, <<"pre", i>>)
    /\ Has(c, <<"post", i>>) => /\ Place(c, <<"controller", i>>) < Place(c, <<"post", i>>)
                                /\ Has(c, <<"pre", i>>) \/ directives[i].kind = "url"
    /\ Has(c, <<"child", 0>>) /\ (\A s \in DOMAIN directives : directives[s].kind \notin {"content", "element"}) =>
         /\ Has(c, <<"pre", i>>) => Place(c, <<"pre", i>>) < Place(c, <<"child", 0>>)
         /\ Has(c, <<"post", i>>) => Place(c, <<"child", 0>>) < Place(c, <<"post", i>>)

\* A clone that was asked for is linked with its contents, unless the template is still
\* loading or failed (or the contents are put aside, and not linked by those who did).
NobodyForgotten ==
  \A c \in DOMAIN clones :
    clones[c] # <<>> /\ template \in {"none", "ready"} =>
      \E n \in DOMAIN clones[c] : clones[c][n][1] = "post"

\* Whatever changes on either side, a checked binding has one value, and a change on one
\* side alone is not lost (the parent wins when both change, or when it takes none).  Once
\* both have changed to the same value, the next change may be lost, on either side.
BoundAlike ==
  LET b == Checked(binding) IN
  /\ b.parent = b.own
  /\ ~binding.met =>
       /\ binding.changed = {"own"} /\ binding.assignable => b.own = binding.own
       /\ binding.changed = {"parent"} => b.parent = binding.parent

\* In a digest that is over, every observer was told the value, but for those that came
\* when the value was known already (or before it came back to what was known).
ObserversTold ==
  attribute.value = attribute.expression /\ attribute.changes > 0 =>
    \A i \in DOMAIN attribute.observers :
      attribute.observers[i].told \in {attribute.value} \cup (IF attribute.observers[i].late THEN {-1} ELSE {})
===============================================================================
