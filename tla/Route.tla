--------------------------------- MODULE Route ---------------------------------
(***************************************************************************)
(* $route of angular.js with the routes of the application, the ngView     *)
(* that shows the route, and an ngInclude.  A change of the address is     *)
(* matched with a route, whose template is fetched before the route counts *)
(* as changed; the user goes elsewhere in the meantime, templates come in  *)
(* any order or fail.  A route that only redirects is the current one      *)
(* until the address it leads to has been looked at, in the same digest.   *)
(***************************************************************************)
EXTENDS Integers, Sequences

CONSTANTS MaxMoves

VARIABLES otherwise,      \* there is a route for addresses of no other (redirectTo)
          reloadOnSearch, \* of the route of all tags
          address,        \* path and search of $location
          redirecting,    \* a redirection has replaced it, and it was not looked at since
          moves,          \* how often the route was updated: each update has its number
          current,        \* $route.current
          routeParams,    \* $routeParams
          templates,      \* $templateCache
          waits,          \* who waits for each template, in the order it is told
          failed,         \* the template of the current route could not be had
          view,           \* number of the route whose template ngView shows, 0 for none
          viewed,         \* the parameters it was shown with
          include         \* ngInclude: what it shows and the number of its last change

roVars == <<otherwise, reloadOnSearch, address, redirecting, moves, current, routeParams, templates,
            waits, failed, view, viewed, include>>

Paths == {"/receivers", "/tags", "/tags/", "/tags/1", "/x"}
Empty == ""
Searches == {Empty, "s"}
Templates == {"receivers.html", "tags.html"}
NoParams == [receiver |-> Empty, search |-> Empty]
NoRoute == [number |-> 0, route |-> "none", params |-> NoParams]

-----------------------------------------------------------------------------
(* Matching *)

\* Routes without a template, for an address with a slash too many and for those of no other
Redirections == {"slash", "otherwise"}
Redirects(path) == path = "/tags/" \/ (path = "/x" /\ otherwise)
TargetOf(path) == IF path = "/tags/" THEN "/tags" ELSE "/receivers"

\* parseRoute(), but for "otherwise"
RouteOf(path) == CASE path = "/receivers" -> "receivers" [] path = "/tags" -> "tags"
                   [] path = "/tags/1" -> "tag" [] path = "/tags/" -> "slash" [] OTHER -> "none"

ParamsOf(path, search) == [receiver |-> IF path = "/tags/1" THEN "1" ELSE Empty, search |-> search]

TemplateOf(route) == IF route = "receivers" THEN "receivers.html" ELSE "tags.html"

-----------------------------------------------------------------------------
(* Showing *)

Now == [current |-> current, routeParams |-> routeParams, templates |-> templates, waits |-> waits,
        failed |-> failed, view |-> view, viewed |-> viewed, include |-> include, moves |-> moves]

Become(b) ==
  /\ current' = b.current /\ routeParams' = b.routeParams /\ templates' = b.templates
  /\ waits' = b.waits /\ failed' = b.failed /\ view' = b.view /\ viewed' = b.viewed
  /\ include' = b.include /\ moves' = b.moves

\* Mutant: a route that is not the current one any longer changes the view as well.
ChangeAnyway(b, number) ==
  [b EXCEPT !.routeParams = b.current.params,
            !.view = IF b.current.number = number THEN number ELSE 0,
            !.viewed = b.current.params]

\* $routeChangeSuccess, and update() of ngView: for the current route only
Change(b, number) ==
  IF b.current.number # number THEN b
  ELSE [b EXCEPT !.routeParams = b.current.params, !.view = number, !.viewed = b.current.params]

\* Mutant: what was asked for before is included when it comes.
IncludeAnyway(b, number, template) == [b EXCEPT !.include = [@ EXCEPT !.content = template]]
\* success() of ngInclude: for the last change only
Include(b, number, template) ==
  IF b.include.number # number THEN b
  ELSE [b EXCEPT !.include = [@ EXCEPT !.content = template]]

Come(b, w, template) ==
  IF w.by = "view" THEN Change(b, w.number) ELSE Include(b, w.number, template)

\* A failure leaves the view as it is ($routeChangeError) and clears the ngInclude.
Missed(b, w) ==
  CASE w.by = "view" /\ b.current.number = w.number -> [b EXCEPT !.failed = TRUE]
    [] w.by = "include" /\ b.include.number = w.number ->
         [b EXCEPT !.include = [@ EXCEPT !.content = "none"]]
    [] OTHER -> b

\* $http.get() with the cache of templates: what is there comes in the same digest.
Fetch(b, by, number, template) ==
  LET w == [by |-> by, number |-> number]
  IN IF b.templates[template] = "here" THEN Come(b, w, template)
     ELSE [b EXCEPT !.templates = [@ EXCEPT ![template] = "asked"],
                    !.waits = [@ EXCEPT ![template] = Append(b.waits[template], w)]]

-----------------------------------------------------------------------------
(* Routing *)

\* updateRoute(): the route stays what it is if only its search changed and it says
\* so, or else another becomes the current one at once.
UpdateRoute(b, path, search, forceReload) ==
  LET route == RouteOf(path)
      params == ParamsOf(path, search)
      number == b.moves + 1
      next == [number |-> number, route |-> route, params |-> params]
  IN CASE route = "tags" /\ b.current.route = "tags" /\ ~reloadOnSearch /\ ~forceReload ->
            [b EXCEPT !.current = [@ EXCEPT !.params = params], !.routeParams = params]
       [] route = "none" ->
            [b EXCEPT !.current = NoRoute, !.moves = number, !.view = 0, !.failed = FALSE,
                      !.viewed = NoParams]
       [] OTHER -> Fetch([b EXCEPT !.current = next, !.moves = number, !.failed = FALSE],
                         "view", number, TemplateOf(route))

\* updateRoute() of a route that redirects: it has nothing to wait for, and counts as changed
\* (which clears the ngView) before $location is looked at again.
Leave(b, route, params) ==
  [b EXCEPT !.current = [number |-> b.moves + 1, route |-> route, params |-> params],
            !.moves = @ + 1, !.failed = FALSE,
            !.routeParams = params, !.view = 0, !.viewed = NoParams]

\* The address changes, by the user or the page.
Go(path, search) ==
  LET to == [path |-> path, search |-> search]
  IN /\ ~redirecting /\ moves < MaxMoves /\ to # address /\ ~Redirects(path)
     /\ address' = to
     /\ Become(UpdateRoute(Now, path, search, FALSE))
     /\ UNCHANGED <<otherwise, reloadOnSearch, redirecting>>

\* It is one that redirects: the address is changed once more, and replaced.  That of no
\* other route drops the search.
Redirect(path, search) ==
  LET route == IF path = "/tags/" THEN "slash" ELSE "otherwise"
      kept == IF route = "slash" THEN search ELSE Empty
  IN /\ ~redirecting /\ moves + 1 < MaxMoves /\ Redirects(path)
     /\ redirecting' = TRUE /\ address' = [path |-> TargetOf(path), search |-> kept]
     /\ Become(Leave(Now, route, [receiver |-> Empty, search |-> kept]))
     /\ UNCHANGED <<otherwise, reloadOnSearch>>

\* $locationWatch finds the address the redirection leads to.
Follow ==
  /\ redirecting /\ redirecting' = FALSE
  /\ Become(UpdateRoute(Now, address.path, address.search, FALSE))
  /\ UNCHANGED <<otherwise, reloadOnSearch, address>>

\* $route.reload()
Reload ==
  /\ ~redirecting /\ moves < MaxMoves
  /\ Become(UpdateRoute(Now, address.path, address.search, TRUE))
  /\ UNCHANGED <<otherwise, reloadOnSearch, address, redirecting>>

\* The source of the ngInclude changes.
SetSource(template) ==
  LET b == [Now EXCEPT !.include = [@ EXCEPT !.number = include.number + 1, !.source = template]]
  IN /\ include.number < MaxMoves /\ template # include.source
     /\ Become(IF template = "none" THEN [b EXCEPT !.include = [@ EXCEPT !.content = "none"]]
               ELSE Fetch(b, "include", b.include.number, template))
     /\ UNCHANGED <<otherwise, reloadOnSearch, address, redirecting>>

\* Whoever waits is told, one after the other, that the template came or that it failed.
Told(b, waiting, template, came) ==
  LET told[i \in 0 .. Len(waiting)] ==
        IF i = 0 THEN b
        ELSE IF came THEN Come(told[i - 1], waiting[i], template)
        ELSE Missed(told[i - 1], waiting[i])
  IN told[Len(waiting)]

\* The answer to what was asked for; none comes within a digest.
Answered(template, came) ==
  LET b == [Now EXCEPT !.templates = [@ EXCEPT ![template] = IF came THEN "here" ELSE "absent"],
                       !.waits = [@ EXCEPT ![template] = <<>>]]
  IN /\ ~redirecting /\ templates[template] = "asked"
     /\ Become(Told(b, waits[template], template, came))
     /\ UNCHANGED <<otherwise, reloadOnSearch, address, redirecting>>

TemplateComes(template) == Answered(template, TRUE)
TemplateFails(template) == Answered(template, FALSE)

RoInit ==
  /\ otherwise \in BOOLEAN /\ reloadOnSearch \in BOOLEAN
  /\ address = [path |-> Empty, search |-> Empty] /\ redirecting = FALSE
  /\ moves = 0
  /\ current = NoRoute /\ routeParams = NoParams
  /\ templates = [t \in Templates |-> "absent"] /\ waits = [t \in Templates |-> <<>>]
  /\ failed = FALSE
  /\ view = 0 /\ viewed = NoParams
  /\ include = [source |-> "none", content |-> "none", number |-> 0]

RoNext ==
  \/ \E path \in Paths, search \in Searches : Go(path, search) \/ Redirect(path, search)
  \/ Follow
  \/ address.path # Empty /\ Reload
  \/ \E template \in Templates \cup {"none"} : SetSource(template)
  \/ \E template \in Templates : TemplateComes(template) \/ TemplateFails(template)

RoSpec == RoInit /\ [][RoNext]_roVars

-----------------------------------------------------------------------------
(* Properties *)

RoTypeOK ==
  /\ otherwise \in BOOLEAN /\ reloadOnSearch \in BOOLEAN /\ failed \in BOOLEAN
  /\ redirecting \in BOOLEAN
  /\ address.path \in Paths \cup {Empty} /\ address.search \in Searches
  /\ moves \in 0 .. MaxMoves /\ view \in 0 .. moves
  /\ current.route \in {"none", "receivers", "tags", "tag"} \cup Redirections
  /\ current.number \in 0 .. moves
  /\ templates \in [Templates -> {"absent", "asked", "here"}]
  /\ \A t \in Templates : \A i \in DOMAIN waits[t] : waits[t][i].by \in {"view", "include"}
  /\ include.content \in Templates \cup {"none"} /\ include.number \in 0 .. MaxMoves

Awaited(by, number) ==
  \E t \in Templates : \E i \in DOMAIN waits[t] : waits[t][i].by = by /\ waits[t][i].number = number

\* Whatever order templates come in, the view comes to show the route of the
\* address, with the parameters it has there; until it does, or when it cannot, it
\* shows a route that was current before, or nothing.  A route that redirects is the
\* current one only until the address it leads to is looked at, which is that of a page.
ViewFollowsRoute ==
  /\ redirecting = (current.route \in Redirections)
  /\ redirecting => view = 0 /\ RouteOf(address.path) \in {"receivers", "tags"}
  /\ ~redirecting =>
       /\ current.route = RouteOf(address.path) /\ (otherwise => address.path # "/x")
       /\ current.route # "none" => current.params = ParamsOf(address.path, address.search)
       /\ current.number # view => Awaited("view", current.number) \/ failed
  /\ view = current.number /\ view # 0 => /\ routeParams = current.params
                                          /\ viewed.receiver = current.params.receiver

\* What ngInclude shows is what it was told last, once that has come.
IncludeFollowsSource ==
  \/ Awaited("include", include.number)
  \/ include.content \in {include.source, "none"}

\* A step may replace what the view shows, but takes it away only when the address has no
\* route any longer, or redirects; then the page it leads to is shown next, if its template
\* is there.
ViewIsKept ==
  [][/\ view # 0 /\ view' = 0 => current'.route \in {"none"} \cup Redirections
     /\ redirecting /\ ~redirecting' /\ templates[TemplateOf(RouteOf(address.path))] = "here"
          => view' = current'.number /\ view' # 0]_roVars

=============================================================================
