-------------------------------- MODULE Parse --------------------------------
(***************************************************************************)
(* Expressions of angular.js ($parse): the lexer reads the characters of a *)
(* template's expression, a recursive descent makes a function of them,    *)
(* and that function reads, calls and assigns what is in a scope.  The     *)
(* state is an expression that is typed, one that is composed, or an       *)
(* object that is assigned to, each explored on its own.                   *)
(***************************************************************************)
EXTENDS Integers, Sequences, FiniteSets, SequencesExt

CONSTANTS MaxChars,  \* characters typed
          MaxNodes,  \* operators composed
          MaxDepth   \* fields of a path

VARIABLES text,   \* what is typed
          tree,   \* what is composed
          object, \* what is assigned to
          size    \* operators composed or fields nested

paVars == <<text, tree, object, size>>

-----------------------------------------------------------------------------
(* The lexer.  A token is its characters, the index does not matter here. *)

Chars == {"a", "e", "1", ".", "+", "=", "(", "'", "\\", " "}

IsNumber(c) == c = "1"
IsIdent(c) == c \in {"a", "e"}
IsExpOperator(c) == c = "+" \/ IsNumber(c)

\* Past the end peek() is false, which isNumber() takes for a digit.
End == "1"
Peek(t, i) == IF i < Len(t) THEN t[i + 1] ELSE End

\* The end of a number that begins before i, or 0 when its exponent is invalid.
RECURSIVE NumberEnd(_, _, _)
NumberEnd(t, from, i) ==
  LET c == t[i]
      e == i > from /\ t[i - 1] = "e"
  IN IF i > Len(t) THEN i
     ELSE IF c = "." \/ IsNumber(c) THEN NumberEnd(t, from, i + 1)
     ELSE IF c = "e" /\ IsExpOperator(Peek(t, i)) THEN NumberEnd(t, from, i + 1)
     ELSE IF c = "+" /\ e
       THEN IF i < Len(t) /\ IsNumber(t[i + 1]) THEN NumberEnd(t, from, i + 1) ELSE 0
     ELSE i

\* The first index from i on whose character is not in s.
Past(t, i, s) == CHOOSE j \in i .. Len(t) + 1 :
  (j > Len(t) \/ t[j] \notin s) /\ \A k \in i .. j - 1 : t[k] \in s

Failed == [ok |-> FALSE, tokens |-> <<>>]

\* Mutant: the name of a method keeps its dot.
MethodWithDot(t, i, end) == LET dot == CHOOSE d \in i .. end - 1 :
                              t[d] = "." /\ \A k \in d + 1 .. end - 1 : t[k] # "."
                   IN <<SubSeq(t, i, dot - 1)>>
                      \o (IF dot + 1 = end THEN <<>> ELSE <<<<".">>, SubSeq(t, dot, end - 1)>>)

\* readIdent(): what is behind the last dot is the name of a method, when it is called;
\* without a name the dot is lost.
Method(t, i, end) == LET dot == CHOOSE d \in i .. end - 1 :
                              t[d] = "." /\ \A k \in d + 1 .. end - 1 : t[k] # "."
                   IN <<SubSeq(t, i, dot - 1)>>
                      \o (IF dot + 1 = end THEN <<>> ELSE <<<<".">>, SubSeq(t, dot + 1, end - 1)>>)

\* readString(): the end of a string, or 0 when it has none; what escapes stand for is left out.
RECURSIVE StringEnd(_, _)
StringEnd(t, i) ==
  IF i > Len(t) THEN 0
  ELSE IF t[i] = "'" THEN i + 1
  ELSE StringEnd(t, IF t[i] = "\\" THEN i + 2 ELSE i + 1)

ReadIdent(t, i) ==
  LET end == Past(t, i, {"a", "e", "1", "."})
      next == Past(t, end, {" "})
      called == Contains(SubSeq(t, i, end - 1), ".") /\ next <= Len(t) /\ t[next] = "("
  IN [next |-> IF called THEN next ELSE end,
      tokens |-> IF called THEN Method(t, i, end) ELSE <<SubSeq(t, i, end - 1)>>]

RECURSIVE Lex(_, _, _)
Lex(t, i, tokens) ==
  LET c == t[i]
      More(next, token) == Lex(t, next, Append(tokens, token))
      quote == StringEnd(t, i + 1)
  IN IF i > Len(t) THEN [ok |-> TRUE, tokens |-> tokens]
     ELSE IF c = "'"
       THEN IF quote = 0 THEN Failed ELSE More(quote, SubSeq(t, i, quote - 1))
     ELSE IF IsNumber(c) \/ (c = "." /\ IsNumber(Peek(t, i)))
       THEN LET end == NumberEnd(t, i, i)
            IN IF end = 0 THEN Failed ELSE More(end, SubSeq(t, i, end - 1))
     ELSE IF IsIdent(c)
       THEN LET r == ReadIdent(t, i) IN Lex(t, r.next, tokens \o r.tokens)
     ELSE IF c \in {"(", "."} THEN More(i + 1, <<c>>)
     ELSE IF c = " " THEN Lex(t, i + 1, tokens)
     ELSE IF c = "=" /\ i < Len(t) /\ t[i + 1] = "=" THEN More(i + 2, <<c, c>>)
     ELSE IF c \in {"+", "="} THEN More(i + 1, <<c>>)
     ELSE Failed

-----------------------------------------------------------------------------
(* The parser.  Tokens are strings now; a tree begins with the name of its node. *)

Names == {"a", "n"} \* n is undefined
Literals == {"1"}

\* The rules of binary operators: the operators and the rule of their operands.
Operators == [logicalOR |-> {"||"}, logicalAND |-> {"&&"}, equality |-> {"==", "!="},
              relational |-> {"<", ">", "<=", ">="}, additive |-> {"+", "-"},
              multiplicative |-> {"*", "/", "%"}]
Operand == [logicalOR |-> "logicalAND", logicalAND |-> "equality", equality |-> "relational",
            relational |-> "additive", additive |-> "multiplicative", multiplicative |-> "unary"]

\* Mutant: sums are read by recursion on their right, as "&&" is.
ChainsButSums == {"logicalOR", "multiplicative"}

\* Those that are read in a loop; the others are read by recursion on their right.
Chains == {"logicalOR", "additive", "multiplicative"}

Failure == [ok |-> FALSE, tree |-> <<>>, rest |-> <<>>]
Got(tree_, rest) == [ok |-> TRUE, tree |-> tree_, rest |-> rest]
First(ts) == IF ts = <<>> THEN "end" ELSE Head(ts)
Next(r) == IF r.ok THEN First(r.rest) ELSE "failed"
As(r, t) == [r EXCEPT !.tree = t]
\* consume()
Consumed(r, token) == IF Next(r) = token THEN [r EXCEPT !.rest = Tail(@)] ELSE Failure

Assignable(t) == t[1] \in {"get", "field", "index"}

\* What follows a primary expression, in its order; what is called is bound to the object
\* it was read from, when that was read just before.
Suffixed(first, suffixes) ==
  FoldLeft(LAMBDA t, x : CASE x[1] = "call" -> <<"call", t, x[2] /\ Assignable(t), x[3]>>
                           [] OTHER -> <<x[1], t, x[2]>>, first, suffixes)

Rules == DOMAIN Operators \cup {"statements", "filterChain", "filters", "parameters", "expression", "unary",
                                "primary", "suffixes", "elements", "keyValues"}
         \cup {"logicalOR more", "additive more", "multiplicative more"}
More == [logicalOR |-> "logicalOR more", additive |-> "additive more", multiplicative |-> "multiplicative more"]
Of == [r \in {More[c] : c \in DOMAIN More} |-> CHOOSE c \in DOMAIN More : More[c] = r]

\* The function each rule is.  Rules that loop give the list of what they read.
read[job \in Rules \X Seq(STRING)] ==
  LET rule == job[1]
      ts == job[2]
      Read(r, rest) == read[<<r, rest>>]
      \* What r has read, and then whatever the same rule reads behind it.
      Then(r, item) == IF ~r.ok THEN r
                       ELSE LET others == Read(rule, r.rest) IN As(others, <<item>> \o others.tree)
      Listed(end) == IF First(Tail(ts)) = end THEN Got(<<>>, Tail(Tail(ts)))
                     ELSE Consumed(Read("elements", Tail(ts)), end)
  IN
  CASE rule = "statements" ->
         LET r == IF First(ts) \in {"end", "}", ")", ";", "]"} THEN Got(<<>>, ts)
                  ELSE LET s == Read("filterChain", ts) IN As(s, <<s.tree>>)
         IN IF Next(r) # ";" THEN r
            ELSE LET others == Read(rule, Tail(r.rest)) IN As(others, r.tree \o others.tree)
    [] rule = "filterChain" ->
         LET e == Read("expression", ts)
             fs == Read("filters", e.rest)
         IN IF ~e.ok \/ ~fs.ok THEN Failure
            ELSE As(fs, FoldLeft(LAMBDA t, f : <<"filter", t, f>>, e.tree, fs.tree))
    [] rule = "filters" ->
         IF First(ts) # "|" THEN Got(<<>>, ts)
         ELSE IF First(Tail(ts)) # "f" THEN Failure
         ELSE LET args == Read("parameters", Tail(Tail(ts))) IN Then(args, args.tree)
    [] rule = "parameters" ->
         IF First(ts) # ":" THEN Got(<<>>, ts)
         ELSE LET e == Read("expression", Tail(ts)) IN Then(e, e.tree)
    [] rule = "expression" ->
         LET left == Read("logicalOR", ts)
             right == Read("logicalOR", Tail(left.rest))
         IN IF Next(left) # "=" THEN left
            ELSE IF ~Assignable(left.tree) \/ ~right.ok THEN Failure
            ELSE As(right, <<"assign", left.tree, right.tree>>)
    [] rule \in Chains ->
         LET left == Read(Operand[rule], ts)
             more == Read(More[rule], left.rest)
         IN IF ~left.ok \/ ~more.ok THEN Failure
            ELSE As(more, FoldLeft(LAMBDA t, o : <<"binary", o[1], t, o[2]>>, left.tree, more.tree))
    [] rule \in DOMAIN Of ->
         IF First(ts) \notin Operators[Of[rule]] THEN Got(<<>>, ts)
         ELSE LET e == Read(Operand[Of[rule]], Tail(ts)) IN Then(e, <<Head(ts), e.tree>>)
    [] rule \in DOMAIN Operators \ Chains ->
         LET left == Read(Operand[rule], ts)
             right == Read(rule, Tail(left.rest))
         IN IF Next(left) \notin Operators[rule] THEN left
            ELSE As(right, <<"binary", Next(left), left.tree, right.tree>>)
    [] rule = "unary" ->
         IF First(ts) = "+" THEN Read("primary", Tail(ts))
         ELSE IF First(ts) \notin {"-", "!"} THEN Read("primary", ts)
         ELSE LET e == Read("unary", Tail(ts)) IN As(e, <<"unary", Head(ts), e.tree>>)
    [] rule = "primary" ->
         LET list == Listed("]")
             first ==
               CASE First(ts) = "(" -> Consumed(Read("filterChain", Tail(ts)), ")")
                 [] First(ts) = "[" -> As(list, <<"array", list.tree>>)
                 [] First(ts) = "{" -> IF First(Tail(ts)) = "}" THEN Got(<<"object", <<>>>>, Tail(Tail(ts)))
                                       ELSE LET kvs == Consumed(Read("keyValues", Tail(ts)), "}")
                                            IN As(kvs, <<"object", kvs.tree>>)
                 [] First(ts) \in Names -> Got(<<"get", Head(ts)>>, Tail(ts))
                 [] First(ts) \in Literals -> Got(<<"literal", Head(ts)>>, Tail(ts))
                 [] OTHER -> Failure
             members == Read("suffixes", first.rest)
             \* In brackets nothing is bound.
             free == members.ok /\ members.tree # <<>> /\ Head(members.tree)[1] = "call"
             suffixes == IF free THEN <<<<"call", FALSE, Head(members.tree)[3]>>>> \o Tail(members.tree)
                         ELSE members.tree
         IN IF ~first.ok \/ ~members.ok THEN Failure ELSE As(members, Suffixed(first.tree, suffixes))
    [] rule = "suffixes" ->
         LET args == Listed(")")
             i == Consumed(Read("expression", Tail(ts)), "]")
         IN CASE First(ts) = "(" -> Then(args, <<"call", TRUE, args.tree>>)
              [] First(ts) = "[" -> Then(i, <<"index", i.tree>>)
              [] First(ts) = "." -> IF Len(ts) < 2 THEN Failure
                                    ELSE Then(Got(<<>>, Tail(Tail(ts))), <<"field", ts[2]>>)
              [] OTHER -> Got(<<>>, ts)
    [] rule = "elements" ->
         LET e == Read("expression", ts)
         IN IF Next(e) = "," THEN Then([e EXCEPT !.rest = Tail(@)], e.tree) ELSE As(e, <<e.tree>>)
    [] rule = "keyValues" ->
         LET key == IF ts = <<>> THEN Failure ELSE Consumed(Got(Head(ts), Tail(ts)), ":")
             v == IF key.ok THEN Read("expression", key.rest) ELSE Failure
         IN IF Next(v) = "," THEN Then([v EXCEPT !.rest = Tail(@)], <<key.tree, v.tree>>)
            ELSE As(v, <<<<key.tree, v.tree>>>>)

\* parser(): all tokens belong to the expression; a single statement stands for itself.
Parsed(ts) ==
  LET r == read[<<"statements", ts>>]
  IN IF ~r.ok \/ r.rest # <<>> THEN <<"error">>
     ELSE IF Len(r.tree) = 1 THEN r.tree[1] ELSE <<"block", r.tree>>

-----------------------------------------------------------------------------
(* What an expression does.  A value is the way it was come by - <<"a", "x", "()">> is *)
(* what a.x() returned - and <<>> is undefined; made are the calls, each a function    *)
(* and the object it is called on.                                                      *)

Scope == <<"scope">>

RECURSIVE Eval(_), EvalAll(_), Function(_, _)

\* Values in their order, and the calls they take.
EvalAll(ts) ==
  IF ts = <<>> THEN [v |-> <<>>, made |-> <<>>]
  ELSE LET first == Eval(Head(ts))
           rest == EvalAll(Tail(ts))
       IN [v |-> <<first.v>> \o rest.v, made |-> first.made \o rest.made]

\* Undefined and false are one value here; what is computed of other things than numbers
\* is no number, and counts for false as well.
NaN == <<"NaN">>
Falsy(v) == v \in {<<>>, NaN}

Member(v, name) == IF Falsy(v) THEN <<>> ELSE Append(v, name)

\* Mutant: the object a method was read from is read a second time.
FunctionAgain(f, context) == Eval(f)

\* fn(scope, locals, context): a field is read from the context, if there is one, and not
\* from what it was written behind; nothing else looks at the context.
Function(f, context) ==
  IF f[1] = "field" /\ ~Falsy(context) THEN [v |-> Member(context, f[3]), made |-> <<>>] ELSE Eval(f)

\* The scope is the context of what is bound to nothing: a field in brackets that is
\* called is read from it, and what it was a field of is not evaluated.
EvalCall(f, bound, args) ==
  LET context == IF bound THEN Eval(f[2]) ELSE [v |-> Scope, made |-> <<>>]
      given == EvalAll(args)
      callee == Function(f, context.v)
      before == context.made \o given.made \o callee.made
  IN IF Falsy(callee.v) THEN [v |-> <<>>, made |-> before]
     ELSE [v |-> Append(callee.v, "()"), made |-> Append(before, <<callee.v, context.v>>)]

Operate(op, l, r) ==
  CASE op = "+" -> IF l # <<>> /\ r # <<>> THEN <<"sum">> ELSE l \o r
    [] op = "==" -> IF l = r THEN <<"true">> ELSE <<>>
    [] op = "<" -> <<>>
    [] OTHER -> NaN \* one operand is always the value of a call

EvalBinary(op, left, right) ==
  LET l == Eval(left)
      r == Eval(right)
  IN IF (op = "&&" /\ Falsy(l.v)) \/ (op = "||" /\ ~Falsy(l.v)) THEN l
     ELSE [v |-> IF op \in {"&&", "||"} THEN r.v ELSE Operate(op, l.v, r.v), made |-> l.made \o r.made]

Eval(t) ==
  CASE t[1] = "get" -> [v |-> IF t[2] = "n" THEN <<>> ELSE <<t[2]>>, made |-> <<>>]
    [] t[1] = "literal" -> [v |-> <<t[2]>>, made |-> <<>>]
    [] t[1] = "block" -> LET all == EvalAll(t[2])
                         IN [all EXCEPT !.v = IF t[2] = <<>> THEN <<>> ELSE Last(@)]
    [] t[1] = "array" -> [EvalAll(t[2]) EXCEPT !.v = <<"array">>]
    [] t[1] = "object" -> [EvalAll([i \in DOMAIN t[2] |-> t[2][i][2]]) EXCEPT !.v = <<"object">>]
    [] t[1] = "filter" -> [EvalAll(<<t[2]>> \o t[3]) EXCEPT !.v = <<"filtered">>]
    [] t[1] = "field" -> LET o == Eval(t[2]) IN [o EXCEPT !.v = Member(@, t[3])]
    [] t[1] = "index" -> LET both == EvalAll(<<t[2], t[3]>>) IN [both EXCEPT !.v = Member(@[1], "[]")]
    [] t[1] = "assign" -> LET v == Eval(t[3])
                              to == IF t[2][1] = "get" THEN <<>>
                                    ELSE EvalAll(IF t[2][1] = "field" THEN <<t[2][2]>>
                                                 ELSE <<t[2][2], t[2][3]>>).made
                          IN [v EXCEPT !.made = @ \o to]
    [] t[1] = "unary" -> LET x == Eval(t[3])
                         IN [x EXCEPT !.v = IF t[2] = "!" THEN (IF Falsy(@) THEN <<"true">> ELSE <<>>)
                                            ELSE IF @ \in {<<"1">>, <<"true">>} THEN <<"1">> ELSE NaN]
    [] t[1] = "binary" -> EvalBinary(t[2], t[3], t[4])
    [] t[1] = "call" -> EvalCall(t[2], t[3], t[4])

-----------------------------------------------------------------------------
(* getter and setter.  A value is a number, undefined, a promise of a value or an object *)
(* with a field x.                                                                         *)

None == <<"undefined">>
Number(n) == <<"number", n>>
Object(v) == <<"object", v>>
Promise(v) == <<"promise", v>>

Field(o) == IF o[1] = "object" THEN o[2] ELSE None
\* A promise stands for its value once that came.
Seen(v) == IF v[1] = "promise" THEN v[2] ELSE v

\* setter(): objects are made on the way; what is no object loses what is assigned.
RECURSIVE Set(_, _, _)
Set(o, n, v) ==
  IF o[1] # "object" THEN o
  ELSE IF n = 1 THEN Object(v)
  ELSE Object(Set(IF o[2] = None THEN Object(None) ELSE o[2], n - 1, v))

\* The object whose n-th field is next.
RECURSIVE Through(_, _)
Through(o, n) == IF n = 1 THEN o ELSE Through(Field(o), n - 1)

RECURSIVE Get(_, _)
Get(o, n) == IF n = 0 \/ o = None THEN o ELSE Get(Seen(Field(o)), n - 1)

\* cspSafeGetterFn(): five fields at a time, up to the first one that there is not.
Five(n) == IF n < 5 THEN n ELSE 5
RECURSIVE GetSafe(_, _)
GetSafe(o, n) == IF n <= 0 THEN o ELSE GetSafe(Get(o, Five(n)), n - 5)

-----------------------------------------------------------------------------
PaInit == text = <<>> /\ tree = <<"get", "a">> /\ object = Object(None) /\ size = 0

Type ==
  /\ tree = <<"get", "a">> /\ size = 0 /\ Len(text) < MaxChars
  /\ \E c \in Chars : text' = Append(text, c)
  /\ UNCHANGED <<tree, object, size>>

Leaf == <<"call", <<"get", "a">>, FALSE, <<>>>>

\* The trees with one operator more: another operand calls a().
Composed(t) ==
  {<<"binary", op, t, Leaf>> : op \in {"||", "&&", "==", "<", "+", "-", "*"}}
  \cup {<<"binary", op, Leaf, t>> : op \in {"||", "&&", "==", "<", "+", "-", "*"}}
  \cup {<<"unary", op, t>> : op \in {"-", "!"}}
  \cup {<<"field", t, "x">>, <<"index", t, Leaf>>, <<"index", Leaf, t>>}
  \cup {<<"call", t, b, args>> : b \in {FALSE, t[1] \in {"field", "index"}}, args \in {<<>>, <<Leaf>>}}
  \cup {<<"call", <<"get", "a">>, FALSE, <<t, Leaf>>>>, <<"array", <<t>>>>, <<"object", <<<<"k", t>>>>>>}
  \cup {<<"assign", l, t>> : l \in {<<"get", "a">>, <<"field", Leaf, "x">>}}
  \cup (IF Assignable(t) THEN {<<"assign", t, Leaf>>} ELSE {})
  \cup {<<"filter", t, <<>>>>, <<"filter", t, <<Leaf, Leaf>>>>, <<"filter", Leaf, <<t>>>>,
        <<"block", <<t, Leaf>>>>}

Compose ==
  /\ text = <<>> /\ object = Object(None) /\ size < MaxNodes /\ tree[1] # "block"
  /\ size' = size + 1
  /\ tree' \in Composed(tree)
            \cup IF size = 0 THEN UNION {Composed(t) : t \in {<<"get", "n">>, <<"literal", "1">>, Leaf}} ELSE {}
  /\ UNCHANGED <<text, object>>

Nest ==
  /\ text = <<>> /\ tree = <<"get", "a">> /\ size < MaxDepth
  /\ size' = size + 1
  /\ object' \in {Object(object), Object(Promise(object))}
              \cup IF size = 0 THEN {Object(Number(1)), Object(Promise(None))} ELSE {}
  /\ UNCHANGED <<text, tree>>

PaNext == Type \/ Compose \/ Nest
PaSpec == PaInit /\ [][PaNext]_paVars

-----------------------------------------------------------------------------
(* Properties *)

\* Type correctness of what is typed, composed and nested.
PaTypeOK ==
  /\ text \in Seq(Chars) /\ Len(text) <= MaxChars
  /\ size \in 0 .. (IF MaxNodes > MaxDepth THEN MaxNodes ELSE MaxDepth)
  /\ tree[1] # "error" /\ object[1] = "object"

Joined(tokens, between) == FlattenSeq([i \in DOMAIN tokens |-> tokens[i] \o between])
Unspaced(t) == SelectSeq(t, LAMBDA c : c # " ")

\* A dot that a bracket follows, which readIdent() drops when there is a name before it, or
\* one before a digit, which may begin the name of a method there and a number elsewhere.
Dotted(t) ==
  \E i, j \in DOMAIN t :
    i < j /\ t[i] = "." /\ t[j] \in {"(", "1"} /\ \A k \in i + 1 .. j - 1 : t[k] = " "

\* Whatever is typed, the tokens are all of it, in its order, and where they are
\* separated by spaces already, they are read as they are.
TokensAreTheText ==
  LET r == Lex(text, 1, <<>>) IN
  r.ok /\ ~Dotted(text) =>
    /\ Unspaced(Joined(r.tokens, <<>>)) = Unspaced(text)
    /\ r.tokens # <<>> => Lex(Front(Joined(r.tokens, <<" ">>)), 1, <<>>) = r

\* The grammar of expressions: how loosely a node binds, and how loosely its operands may.
Looseness(t) ==
  CASE t[1] = "block" -> 0 [] t[1] = "filter" -> 1 [] t[1] = "assign" -> 2
    [] t[1] = "binary" -> (CASE t[2] = "||" -> 3 [] t[2] = "&&" -> 4 [] t[2] = "==" -> 5
                             [] t[2] = "<" -> 6 [] t[2] \in {"+", "-"} -> 7 [] t[2] = "*" -> 8)
    [] t[1] = "unary" -> 9
    [] OTHER -> 10

RECURSIVE Printed(_), Bracketed(_, _), PrintedAll(_, _)

Bracketed(t, least) == IF Looseness(t) < least THEN <<"(">> \o Printed(t) \o <<")">> ELSE Printed(t)

PrintedAll(ts, separator) ==
  IF ts = <<>> THEN <<>>
  ELSE Bracketed(Head(ts), 2) \o (IF Len(ts) = 1 THEN <<>> ELSE separator) \o PrintedAll(Tail(ts), separator)

Printed(t) ==
  LET own == Looseness(t) IN
  CASE t[1] \in {"get", "literal"} -> <<t[2]>>
    [] t[1] = "field" -> Bracketed(t[2], 10) \o <<".", t[3]>>
    [] t[1] = "index" -> Bracketed(t[2], 10) \o <<"[">> \o Bracketed(t[3], 2) \o <<"]">>
    [] t[1] = "call" -> Bracketed(t[2], IF t[3] \/ t[2][1] \notin {"field", "index"} THEN 10 ELSE 11)
                        \o <<"(">> \o PrintedAll(t[4], <<",">>) \o <<")">>
    [] t[1] = "array" -> <<"[">> \o PrintedAll(t[2], <<",">>) \o <<"]">>
    [] t[1] = "object" -> <<"{", t[2][1][1], ":">> \o Bracketed(t[2][1][2], 2) \o <<"}">>
    [] t[1] = "block" -> Printed(t[2][1]) \o <<";">> \o Printed(t[2][2])
    [] t[1] = "filter" -> Bracketed(t[2], 1) \o <<"|", "f">>
                          \o (IF t[3] = <<>> THEN <<>> ELSE <<":">>) \o PrintedAll(t[3], <<":">>)
    [] t[1] = "assign" -> Bracketed(t[2], 10) \o <<"=">> \o Bracketed(t[3], 3)
    [] t[1] = "unary" -> <<t[2]>> \o Bracketed(t[3], 9)
    [] t[1] = "binary" ->
         LET leftFirst == t[2] \in {"||", "+", "-", "*"}
         IN Bracketed(t[3], IF leftFirst THEN own ELSE own + 1) \o <<t[2]>>
            \o Bracketed(t[4], IF leftFirst THEN own + 1 ELSE own)

\* Each expression is read as it is meant, with no more brackets than the grammar asks for.
ReadAsMeant == Parsed(Printed(tree)) = tree

\* The expressions within one.
RECURSIVE Within(_)
Within(t) ==
  {t} \cup CASE t[1] \in {"get", "literal"} -> {}
             [] t[1] = "field" -> Within(t[2])
             [] t[1] = "unary" -> Within(t[3])
             [] t[1] = "binary" -> Within(t[3]) \cup Within(t[4])
             [] t[1] \in {"index", "assign"} -> Within(t[2]) \cup Within(t[3])
             [] t[1] = "call" -> Within(t[2]) \cup UNION {Within(a) : a \in ToSet(t[4])}
             [] t[1] = "filter" -> Within(t[2]) \cup UNION {Within(a) : a \in ToSet(t[3])}
             [] t[1] \in {"array", "block"} -> UNION {Within(a) : a \in ToSet(t[2])}
             [] t[1] = "object" -> Within(t[2][1][2])

\* How many calls are written: brackets that follow what can be called.
Written(ts) ==
  Cardinality({i \in 2 .. Len(ts) : ts[i] = "(" /\ ts[i - 1] \in Names \cup Literals \cup {"x", ")", "]", "}"}})

\* A call is made once, but for what is called through an index or on what counts for
\* false; a method is called on the object it was read from, all else on the scope.
CalledOnce ==
  LET made == Eval(tree).made
      again == \E t \in Within(tree) : t[1] = "call" /\ t[3] /\ (t[2][1] = "index" \/ Falsy(Eval(t[2][2]).v))
  IN /\ ~again => Len(made) <= Written(Printed(tree))
     /\ \A i \in DOMAIN made : made[i][2] = Scope \/ made[i][2] = Front(made[i][1])

\* What is assigned is read, unless something on the way is no object or a promise; and
\* both kinds of getters read the same.
AssignedIsRead ==
  \A n \in 1 .. MaxDepth :
    /\ GetSafe(object, n) = Get(object, n)
    /\ LET blocked == \E m \in 1 .. n - 1 : Field(Through(object, m))[1] \in {"number", "promise"}
       IN blocked \/ Get(Set(object, n, Number(7)), n) = Number(7)
===============================================================================
