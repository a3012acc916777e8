------------------------------- MODULE Resource -------------------------------
(***************************************************************************)
(* What $resource (angular-resource.js) asks $http for: the url that Route *)
(* makes of a template and its parameters, and how the arguments of an     *)
(* action are taken for parameters, data and callbacks.                    *)
(*                                                                         *)
(* A template is composed of segments, each behind '/' or '.': a literal,  *)
(* the parameter a or b, or ':a' with its colon escaped.  A url is the     *)
(* sequence of its characters; names and literals are one character long.  *)
(***************************************************************************)
EXTENDS Integers, Sequences, FiniteSets, SequencesExt

CONSTANTS MaxSegments

VARIABLES template, \* the segments
          values,   \* of the parameters a and b
          hasBody,  \* the action's method is POST, PUT or PATCH
          args      \* of its call: "f" and "g" are functions, "o" and "p" objects

reVars == <<template, values, hasBody, args>>

Params == {"a", "b"}
Absent == <<"none">> \* undefined or null
Values == [a : {Absent, <<>>, <<"x">>, <<":", "b">>, <<"$", "&">>}, b : {Absent, <<"x">>}]
Segments == [separator : {"/", "."}, kind : {"literal", "a", "b", "escaped"}]

ReInit == template = <<>> /\ values \in Values /\ hasBody \in BOOLEAN /\ args = <<>>

Written(segment) ==
  <<segment.separator>> \o
  CASE segment.kind = "literal" -> <<"x">>
    [] segment.kind = "escaped" -> <<"\\", ":", "a">>
    [] OTHER -> <<":", segment.kind>>

-----------------------------------------------------------------------------
(* Route *)

IsWord(char) == char \in {"a", "b", "x"}
\* ':name' and no more of a word at i
Names(url, i, param) ==
  i + 2 \in DOMAIN url /\ url[i] = ":" /\ url[i + 1] = param /\ ~IsWord(url[i + 2])

UrlParams(url) ==
  {param \in Params : \E i \in DOMAIN url :
     Names(url, i, param) /\ (i > 1 => url[i - 1] # "\\")}

\* template.replace(/\\:/g, ':')
Unescaped(url) ==
  LET Before(i) == url[i] = "\\" /\ i < Len(url) /\ url[i + 1] = ":"
      from[i \in 1 .. Len(url) + 1] ==
        IF i > Len(url) THEN <<>> ELSE (IF Before(i) THEN <<>> ELSE <<url[i]>>) \o from[i + 1]
  IN from[1]

\* '$&' in what replaces a match stands for the match.
Expanded(value, match) == IF value = <<"$", "&">> THEN match ELSE value

\* url.replace(): matches are looked for behind the one before, which ends with the
\* character behind the name.
Present(url, param, value) ==
  LET from[i \in 1 .. Len(url) + 1] ==
        IF i > Len(url) THEN <<>>
        ELSE IF Names(url, i, param)
          THEN Expanded(value, SubSeq(url, i, i + 2)) \o <<url[i + 2]>> \o from[i + 3]
        ELSE <<url[i]>> \o from[i + 1]
  IN from[1]

\* Mutant: a parameter that is absent leaves its slash.
SlashLeft(url, param) == Present(url, param, <<>>)

Missing(url, param) ==
  LET from[i \in 1 .. Len(url) + 1] ==
        IF i > Len(url) THEN <<>>
        ELSE IF url[i] = "/" /\ Names(url, i + 1, param)
          THEN (IF url[i + 3] = "/" THEN <<>> ELSE <<"/">>) \o <<url[i + 3]>> \o from[i + 4]
        ELSE IF Names(url, i, param) THEN <<url[i + 2]>> \o from[i + 3]
        ELSE <<url[i]>> \o from[i + 1]
  IN from[1]

\* Slashes at the end are taken away.
Trimmed(url) ==
  LET ends == {n \in 0 .. Len(url) : \A i \in n + 1 .. Len(url) : url[i] = "/"}
  IN SubSeq(url, 1, CHOOSE n \in ends : \A k \in ends : n <= k)

\* Route.url(): the parameters are put in one after the other, in the order the template
\* names them, each into what the ones before have left.
UrlOf(segments, params) ==
  LET written == FlattenSeq([i \in DOMAIN segments |-> Written(segments[i])]) \o <<"#">>
      In(url, param) ==
        IF param \notin UrlParams(written) THEN url
        ELSE IF params[param] = Absent THEN Missing(url, param)
        ELSE Present(url, param, params[param])
      first == SelectSeq(segments, LAMBDA s : s.kind \in Params)
      aFirst == first = <<>> \/ Head(first).kind = "a"
      one == In(Unescaped(written), IF aFirst THEN "a" ELSE "b")
      both == In(one, IF aFirst THEN "b" ELSE "a")
  IN Trimmed(Front(both))

-----------------------------------------------------------------------------
(* Arguments *)

None == "none"
IsFunction(arg) == arg \in {"f", "g"}
Arg(as, i) == IF i \in DOMAIN as THEN as[i] ELSE None

\* Resource[name](): params is None where it is {}.
Taken(body, as) ==
  LET a1 == Arg(as, 1) a2 == Arg(as, 2) a3 == Arg(as, 3) a4 == Arg(as, 4)
      One(success, error) ==
        IF IsFunction(a1) THEN [params |-> None, data |-> None, success |-> a1, error |-> error]
        ELSE IF body THEN [params |-> None, data |-> a1, success |-> success, error |-> error]
        ELSE [params |-> a1, data |-> None, success |-> success, error |-> error]
  IN CASE Len(as) < 2 -> One(None, None)
       [] Len(as) >= 2 /\ ~IsFunction(a2) ->
            [params |-> a1, data |-> a2, success |-> a3, error |-> a4]
       [] Len(as) >= 2 /\ IsFunction(a2) /\ IsFunction(a1) ->
            [params |-> None, data |-> None, success |-> a1, error |-> a2]
       [] OTHER -> One(a2, a3)

\* Resource.prototype['$' + name](): params is "own" for those of the object itself, and
\* data is "this" or nothing; the parameters of the url that are taken from the data ('@id')
\* are added to them. There are three arguments at most.
OfInstance(body, as) ==
  LET a1 == Arg(as, 1) a2 == Arg(as, 2) a3 == Arg(as, 3)
      data == IF body THEN "this" ELSE None
      Call(params, success, error) ==
        [Taken(body, <<params, data, success, error>>) EXCEPT
           !.params = {@} \cup (IF body THEN {"own"} ELSE {})]
  IN CASE Len(as) = 0 -> Call("own", None, None)
       [] Len(as) = 3 -> Call(a1, a2, a3)
       [] Len(as) \in {1, 2} /\ IsFunction(a1) -> Call("own", a1, a2)
       [] Len(as) \in {1, 2} /\ ~IsFunction(a1) -> Call(a1, a2, None)

-----------------------------------------------------------------------------
Compose(segment) ==
  /\ Len(template) < MaxSegments /\ args = <<>>
  /\ template' = Append(template, segment) /\ UNCHANGED <<values, hasBody, args>>

\* An action is called with one more argument.
Call(arg) ==
  /\ Len(args) < 4 /\ template = <<>>
  /\ args' = Append(args, arg) /\ UNCHANGED <<template, values, hasBody>>

ReNext == (\E s \in Segments : Compose(s)) \/ (\E a \in {"f", "g", "o", "p"} : Call(a))

ReSpec == ReInit /\ [][ReNext]_reVars

-----------------------------------------------------------------------------
ReTypeOK ==
  /\ template \in BoundedSeq(Segments, MaxSegments) /\ values \in Values
  /\ hasBody \in BOOLEAN /\ args \in BoundedSeq({"f", "g", "o", "p"}, 4)

\* A value that names a parameter put in later, or '$&', an escaped ':a' beside :a,
\* and an absent parameter twice in a row: the slash between is looked at once.
Kinds == {template[i].kind : i \in DOMAIN template}
Odd ==
  \/ "a" \in Kinds /\ (values.a = <<"$", "&">> \/ (values.a = <<":", "b">> /\ "b" \in Kinds))
  \/ {"a", "escaped"} \subseteq Kinds
  \/ \E i \in 2 .. Len(template) :
       /\ template[i].kind \in Params /\ template[i].kind = template[i - 1].kind
       /\ values[template[i].kind] = Absent

\* What segment i stands for: a slash goes with a parameter that is absent, unless
\* something other than a slash follows.
Meant(i) ==
  LET kind == template[i].kind
      slash == template[i].separator = "/"
      last == i = Len(template)
  IN IF kind \in Params /\ values[kind] = Absent
     THEN IF slash /\ ~last /\ template[i + 1].separator = "/" THEN <<>> ELSE <<template[i].separator>>
     ELSE <<template[i].separator>> \o
          CASE kind = "literal" -> <<"x">> [] kind = "escaped" -> <<":", "a">> [] OTHER -> values[kind]

\* Every segment stands in the url for what it means, whatever the ones around it are: none
\* is swallowed or put in twice, though the parameters are replaced in the text of the url.
UrlOfSegments ==
  ~Odd => UrlOf(template, values) = Trimmed(FlattenSeq([i \in DOMAIN template |-> Meant(i)]))

\* The calls that the documentation lists are taken as it lists them: [parameters], the
\* data of an action with a body, [success], [error]; and on an object, its own parameters.
Callbacks == {<<>>, <<"f">>, <<"f", "g">>}
CallsAsDocumented ==
  \A call \in Callbacks, params \in {<<>>, <<"o">>} :
    LET end == [success |-> Arg(call, 1), error |-> Arg(call, 2)]
        plain == Taken(hasBody, args)
        own == OfInstance(hasBody, args)
    IN /\ args = params \o (IF hasBody THEN <<"p">> ELSE <<>>) \o call =>
            plain = [params |-> Arg(params, 1), data |-> IF hasBody THEN "p" ELSE None,
                     success |-> end.success, error |-> end.error]
       /\ args = params \o call =>
            /\ [success |-> own.success, error |-> own.error] = end
            /\ Arg(params, 1) # None => Arg(params, 1) \in own.params
            /\ (hasBody \/ params = <<>>) => "own" \in own.params
===============================================================================
