------------------------------ MODULE Routing -------------------------------
(***************************************************************************)
(* Router.Handle and Router.ServeHTTP (router.go) with the radix tree      *)
(* (internal/radix): routes are registered, then requests are answered.    *)
(*                                                                         *)
(* ServeHTTP looks for a request's route in four structures, one after the *)
(* other: the map of static patterns, the method's tree without and with   *)
(* parameters, the method's list of routes.  The tree is searched without  *)
(* backtracking and splits paths its own way, the list is searched in the  *)
(* order of registration; whether the four agree is the question here.     *)
(*                                                                         *)
(* A pattern or path is the sequence of what stands between its slashes,   *)
(* behind the first one: "/" is <<"">>, "/a/" is <<"a", "">>.  Handlers    *)
(* are the number of the route they were registered with.                  *)
(***************************************************************************)
EXTENDS Integers, Sequences, FiniteSets, FiniteSetsExt

CONSTANTS Patterns,   \* patterns that are registered
          Paths,      \* paths that are requested
          Params,     \* parameter segments, such as ":x"
          MaxRoutes   \* bound: routes registered

Wild == "*"
Blank == ""   \* the empty segment
Methods == {"GET", "HEAD", "POST"}

ASSUME RoutingAssumption ==
  /\ MaxRoutes \in Nat
  /\ Patterns \cup Paths \subseteq Seq(STRING) \ {<<>>}
  /\ \A p \in Patterns :
       \A i, j \in DOMAIN p : i # j /\ p[i] = p[j] => p[i] \notin Params \cup {Wild}
  /\ Wild \notin Params /\ Blank \notin Params \cup {Wild}
  /\ \A p \in Paths : \A i \in DOMAIN p : p[i] \notin Params \cup {Wild}

VARIABLES routes,        \* the routes in order: [pattern, method]
          routeTrees,    \* per method: the nodes of its tree and their handlers
          staticRoutes,  \* per method: from static pattern to handlers
          answer         \* how the last request was answered, or NoAnswer

routerVars == <<routes, routeTrees, staticRoutes, answer>>

-----------------------------------------------------------------------------
NoRoute == 0
NoAnswer == [status |-> 0]
Nothing == [x \in {} |-> NoRoute]   \* an empty map
NoNode == <<Blank>>                 \* no node: those have no empty segments

(* The segments of a path without the empty ones. *)
Kept(path) == {i \in DOMAIN path : path[i] # Blank}
Rank(kept, i) == Cardinality({j \in kept : j <= i})
Clean(path) ==
  LET kept == Kept(path)
  IN [k \in 1..Cardinality(kept) |-> path[CHOOSE i \in kept : Rank(kept, i) = k]]

(* The last segment, which is not what stands behind a slash at the end. *)
LastIndex(path) == IF Len(path) > 1 /\ path[Len(path)] = Blank THEN Len(path) - 1 ELSE Len(path)

IsStatic(pattern) == \A i \in DOMAIN pattern : pattern[i] \notin Params \cup {Wild}

(* A route of GET is one of HEAD, too. *)
ServesMethod(registered, method) ==
  registered = method \/ (registered = "GET" /\ method = "HEAD")

(* routesByMethod[method], as the numbers of its routes *)
RoutesByMethod(method) ==
  {i \in DOMAIN routes : ServesMethod(routes[i].method, method)}

-----------------------------------------------------------------------------
(* The radix tree.  A node is the sequence of segments that leads to it,   *)
(* made[n] the route that it was made for: a route makes one child of a    *)
(* node at most, so that this is the order of each node's Children.        *)

Prefixes(node) == {SubSeq(node, 1, k) : k \in 1..Len(node)}
Parent(node) == SubSeq(node, 1, Len(node) - 1)
Label(node) == node[Len(node)]

(* Tree.Insert: the handlers are stored at the last segment, unless that   *)
(* one is empty and skipped.                                               *)
IsStored(pattern) == pattern[LastIndex(pattern)] # Blank

Insert(tree, pattern, id) ==
  LET node == Clean(pattern)
  IN [made    |-> [n \in DOMAIN tree.made \cup Prefixes(node) |->
                     IF n \in DOMAIN tree.made THEN tree.made[n] ELSE id],
      handler |-> IF ~IsStored(pattern) THEN tree.handler
                  ELSE [n \in DOMAIN tree.handler \cup {node} |->
                          IF n = node THEN id ELSE tree.handler[n]]]

HandlerAt(tree, node) == IF node \in DOMAIN tree.handler THEN tree.handler[node] ELSE NoRoute

(* Tree.FindStaticBytes *)
FindStatic(tree, path) ==
  LET node == Clean(path) IN IF IsStatic(node) THEN HandlerAt(tree, node) ELSE NoRoute

Accepts(label, segment) == label = segment \/ label \in Params \cup {Wild}

(* The children of a node that take this segment. *)
Takers(tree, node, segment) ==
  {n \in DOMAIN tree.made : Parent(n) = node /\ Accepts(Label(n), segment)}

(* One level of findNode: it enters the first child that takes the segment *)
(* and never comes back; a wildcard ends the search.                       *)
Descend(tree, at, segment) ==
  LET takers == Takers(tree, at.node, segment)
      first == CHOOSE n \in takers : \A m \in takers : tree.made[n] <= tree.made[m]
  IN IF at.over THEN at
     ELSE IF takers = {} THEN [node |-> NoNode, over |-> TRUE, params |-> at.params]
     ELSE [node   |-> first,
           over   |-> Label(first) = Wild,
           params |-> IF Label(first) \in Params
                      THEN [p \in DOMAIN at.params \cup {Label(first)} |->
                              IF p = Label(first) THEN segment ELSE at.params[p]]
                      ELSE at.params]

(* findNode: at[k] is where the search is after k segments. *)
AtRoot == [node |-> <<>>, over |-> FALSE, params |-> Nothing]
Search(tree, segments) ==
  LET at[k \in 0..Len(segments)] ==
        IF k = 0 THEN AtRoot ELSE Descend(tree, at[k - 1], segments[k])
  IN at[Len(segments)]

(* Tree.FindBytes *)
FindBytes(tree, path) ==
  LET end == Search(tree, Clean(path))
  IN [id |-> HandlerAt(tree, end.node), params |-> end.params]

-----------------------------------------------------------------------------
(* The list of routes. *)

Open(pattern) == Clean(pattern) # <<>> /\ Label(Clean(pattern)) = Wild
Body(pattern) == IF Open(pattern) THEN Parent(Clean(pattern)) ELSE Clean(pattern)

(* A wildcard that is not the last segment. *)
HasWild(labels) == \E i \in DOMAIN labels : labels[i] = Wild
MidWild(pattern) == HasWild(Body(pattern))

(* Mutant of ByteScan: a wildcard at the end needs a segment. *)
ByteScanStrict(pattern, path) ==
  LET body == Body(pattern) segments == Clean(path)
  IN /\ ~MidWild(pattern)
     /\ IF Open(pattern) THEN Len(segments) > Len(body) ELSE Len(segments) = Len(body)
     /\ \A i \in DOMAIN body : Accepts(body[i], segments[i])

(* matchRouteByteScanning; it gives up at a wildcard that is not the last. *)
ByteScan(pattern, path) ==
  LET body == Body(pattern) segments == Clean(path)
  IN /\ ~MidWild(pattern)
     /\ IF Open(pattern) THEN Len(segments) >= Len(body) ELSE Len(segments) = Len(body)
     /\ \A i \in DOMAIN body : Accepts(body[i], segments[i])

(* It has put the path into matches, whatever the result. *)
Touches(pattern, path) ==
  HasWild(Clean(pattern)) \/ Len(Clean(path)) = Len(Clean(pattern))

(* Whether these segments are those of the pattern, where its wildcard     *)
(* stands for at least so many of them.                                    *)
Fits(segment, label) == label = segment \/ (label \in Params /\ segment # Blank)

Covers(segments, labels, least) ==
  IF ~HasWild(labels)
    THEN /\ Len(segments) = Len(labels)
         /\ \A i \in DOMAIN labels : Fits(segments[i], labels[i])
    ELSE LET wild == CHOOSE i \in DOMAIN labels : labels[i] = Wild
             behind == Len(labels) - wild
         IN /\ Len(segments) >= wild - 1 + behind + least
            /\ \A i \in 1..(wild - 1) : Fits(segments[i], labels[i])
            /\ \A i \in 0..(behind - 1) :
                 Fits(segments[Len(segments) - i], labels[Len(labels) - i])

(* The regular expression of a route; its wildcard stands for any text. *)
Regex(pattern, path) ==
  IF IsStatic(pattern) THEN path = pattern ELSE Covers(path, Clean(pattern), 1)

(* HasParams: only of such a route does handleMatchedRoute store parameters. *)
HasParams(pattern) == \E i \in DOMAIN Clean(pattern) : Clean(pattern)[i] \in Params

(* ... and "*" is one of its ParamNames, if it ends in a wildcard. *)
NamesWild(pattern) == Open(pattern) /\ HasParams(pattern)

(* Mutant of ParamValues: the values are taken from the end of the path. *)
ParamValuesBack(pattern, path) ==
  LET body == Body(pattern) segments == Clean(path) shift == Len(segments) - Len(body)
      places == {i \in DOMAIN body : body[i] \in Params}
  IN [p \in {body[i] : i \in places} \cup {w \in {Wild} : NamesWild(pattern)} |->
        IF p = Wild THEN SubSeq(segments, Len(body) + 1, Len(segments))
        ELSE segments[shift + CHOOSE i \in places : body[i] = p]]

(* The parameters that handleMatchedRoute takes from the matches: for a    *)
(* parameter its segment, for a wildcard at the end the segments that are  *)
(* left, of which there may be none.                                       *)
ParamValues(pattern, path) ==
  LET body == Body(pattern) segments == Clean(path)
      places == {i \in DOMAIN body : body[i] \in Params}
  IN [p \in {body[i] : i \in places} \cup {w \in {Wild} : NamesWild(pattern)} |->
        IF p = Wild THEN SubSeq(segments, Len(body) + 1, Len(segments))
        ELSE segments[CHOOSE i \in places : body[i] = p]]

-----------------------------------------------------------------------------
(* What map, trees and list of a method find, in the order they are asked. *)
FromMap(method, path) ==
  [id |-> IF path \in DOMAIN staticRoutes[method] THEN staticRoutes[method][path] ELSE NoRoute,
   params |-> Nothing]

(* Mutant of FromTree: without the search for static routes. *)
FromTreeDynamic(method, path) == [id |-> NoRoute, params |-> Nothing]

FromTree(method, path) ==
  [id |-> FindStatic(routeTrees[method], path), params |-> Nothing]

(* The first route of the list that takes the path.  The expressions are   *)
(* tried as long as no route so far has touched the matches.               *)
FromList(method, path) ==
  LET list == RoutesByMethod(method)
      hits == {i \in list :
                 \/ ByteScan(routes[i].pattern, path)
                 \/ /\ \A j \in list : j <= i => ~Touches(routes[j].pattern, path)
                    /\ Regex(routes[i].pattern, path)}
  IN IF hits = {} THEN [id |-> NoRoute, params |-> Nothing]
     ELSE [id |-> Min(hits), params |-> ParamValues(routes[Min(hits)].pattern, path)]

Finds(method, path) ==
  <<FromMap(method, path), FromTree(method, path),
    FindBytes(routeTrees[method], path), FromList(method, path)>>

(* Neither map nor tree finds a route. *)
LeftToList(method, path) == \A k \in 1..3 : Finds(method, path)[k].id = NoRoute

(* A server that answers HEAD for its GET routes need not say so. *)
WithoutHead(methods) ==
  IF {"GET", "HEAD"} \subseteq methods THEN methods \ {"HEAD"} ELSE methods

(* Mutant of AllowedMethods: only the trees are asked. *)
AllowedByTrees(method, path) ==
  WithoutHead({m \in Methods \ {method} : FindBytes(routeTrees[m], path).id # NoRoute})

(* The methods of the Allow header: those whose trees find the path; if no *)
(* tree does, those of the routes that match it.                           *)
AllowedMethods(method, path) ==
  LET byTree == {m \in Methods \ {method} : FindBytes(routeTrees[m], path).id # NoRoute}
      byRoute == {routes[i].method : i \in
                    {j \in DOMAIN routes : /\ routes[j].method # method
                                           /\ \/ ByteScan(routes[j].pattern, path)
                                              \/ Regex(routes[j].pattern, path)}}
  IN WithoutHead(IF byTree # {} THEN byTree ELSE byRoute)

ServeHTTP(method, path) ==
  LET finds == Finds(method, path)
      found == {k \in 1..4 : finds[k].id # NoRoute}
      allowed == AllowedMethods(method, path)
      Answer(status, route, allow) ==
        [method |-> method, path |-> path, status |-> status,
         id |-> route.id, params |-> route.params, allow |-> allow]
      none == [id |-> NoRoute, params |-> Nothing]
  IN IF found # {} THEN Answer(200, finds[Min(found)], {})
     ELSE IF allowed # {} THEN Answer(405, none, allowed)
     ELSE Answer(404, none, {})

-----------------------------------------------------------------------------
NewRouter ==
  /\ routes = <<>>
  /\ routeTrees = [m \in Methods |-> [made |-> Nothing, handler |-> Nothing]]
  /\ staticRoutes = [m \in Methods |-> Nothing]
  /\ answer = NoAnswer

(* Handle: a later registration of a static pattern replaces the earlier. *)
Handle(pattern, method) ==
  LET id == Len(routes) + 1
  IN /\ Len(routes) < MaxRoutes /\ answer = NoAnswer
     /\ routes' = Append(routes, [pattern |-> pattern, method |-> method])
     /\ routeTrees' = [m \in Methods |->
          IF ServesMethod(method, m) THEN Insert(routeTrees[m], pattern, id)
          ELSE routeTrees[m]]
     /\ staticRoutes' = [m \in Methods |->
          IF IsStatic(pattern) /\ ServesMethod(method, m)
          THEN [p \in DOMAIN staticRoutes[m] \cup {pattern} |->
                  IF p = pattern THEN id ELSE staticRoutes[m][p]]
          ELSE staticRoutes[m]]
     /\ UNCHANGED answer

Serve(method, path) ==
  /\ answer = NoAnswer
  /\ answer' = ServeHTTP(method, path)
  /\ UNCHANGED <<routes, routeTrees, staticRoutes>>

(* The context of the request is put back. *)
Answered ==
  /\ answer # NoAnswer
  /\ answer' = NoAnswer
  /\ UNCHANGED <<routes, routeTrees, staticRoutes>>

RouterNext ==
  \/ \E pattern \in Patterns, method \in Methods : Handle(pattern, method)
  \/ \E method \in Methods, path \in Paths : Serve(method, path)
  \/ Answered

RouterSpec == NewRouter /\ [][RouterNext]_routerVars

-----------------------------------------------------------------------------
(* The structures are well formed: no node of a tree is without its parent *)
(* nor made for the same route as another child of it, and handlers belong *)
(* to nodes and to routes of the method (Tree.Insert, Router.Handle).      *)
TreeShape(tree) ==
  /\ \A n \in DOMAIN tree.made : /\ n \in Seq(STRING) \ {<<>>}
                                 /\ Parent(n) \in DOMAIN tree.made \cup {<<>>}
  /\ \A n, o \in DOMAIN tree.made :
       Parent(n) = Parent(o) /\ tree.made[n] = tree.made[o] => n = o
  /\ DOMAIN tree.handler \subseteq DOMAIN tree.made

TreeSound(tree, list, ids) ==
  /\ TreeShape(tree)
  /\ \A n \in DOMAIN tree.made : tree.made[n] \in DOMAIN list
  /\ \A n \in DOMAIN tree.handler :
       tree.handler[n] \in ids /\ Clean(list[tree.handler[n]].pattern) = n

MapSound(map, list, ids) ==
  \A p \in DOMAIN map : map[p] \in ids /\ list[map[p]].pattern = p

RouterTypeOK ==
  /\ routes \in Seq([pattern : Patterns, method : Methods])
  /\ \A m \in Methods : /\ TreeSound(routeTrees[m], routes, RoutesByMethod(m))
                        /\ MapSound(staticRoutes[m], routes, RoutesByMethod(m))
  /\ answer.status \in {0, 200, 404, 405}

Matches(pattern, path) == Covers(Clean(path), Clean(pattern), 0)
Served == answer.status = 200
Failed == answer.status \in {404, 405}

(* A path is answered by a route of its method that matches it, whenever   *)
(* there is one without a wildcard in the middle: where the tree's search  *)
(* runs into a dead end the list finds the route.  A route that has a      *)
(* wildcard in the middle never answers (router.go:1479 says that it falls *)
(* back to the regular expression, which ServeHTTP no longer tries then).  *)
RouteFound ==
  /\ Served =>
       /\ answer.id \in RoutesByMethod(answer.method)
       /\ Matches(routes[answer.id].pattern, answer.path)
       /\ ~MidWild(routes[answer.id].pattern)
  /\ Failed =>
       \A i \in RoutesByMethod(answer.method) :
         Matches(routes[i].pattern, answer.path) => MidWild(routes[i].pattern)

(* The parameters of the answering route have the values at their places   *)
(* in the path, whichever structure has found the route (findNode fills a  *)
(* map on its way, handleMatchedRoute counts matches).  There is one other *)
(* parameter, "*", the rest of the path, and that depends on the structure *)
(* and so on what other routes there are: the list stores it for a route   *)
(* that has parameters and ends in a wildcard, the tree never does.        *)
ParamsRight ==
  Served =>
    LET pattern == routes[answer.id].pattern
        labels == Clean(pattern)
        segments == Clean(answer.path)
        places == {i \in DOMAIN labels : labels[i] \in Params}
        wild == NamesWild(pattern) /\ LeftToList(answer.method, answer.path)
    IN /\ DOMAIN answer.params = {labels[i] : i \in places} \cup {w \in {Wild} : wild}
       /\ \A i \in places : answer.params[labels[i]] = segments[i]
       /\ wild => answer.params[Wild] = SubSeq(segments, Len(labels), Len(segments))

(* A static pattern goes before parameters and wildcards, whatever was     *)
(* registered first, also for a path with a slash too many.  It does not   *)
(* for a pattern the tree never stores ("/" or one that ends in "//") and  *)
(* that is not literally the path.                                         *)
StaticFirst ==
  Served /\ (\E i \in RoutesByMethod(answer.method) :
               LET pattern == routes[i].pattern
               IN /\ IsStatic(pattern) /\ Clean(pattern) = Clean(answer.path)
                  /\ pattern = answer.path \/ IsStored(pattern))
    => IsStatic(routes[answer.id].pattern)

(* 405 names methods that would have been answered (but for routes with a  *)
(* wildcard in the middle), and 404 means that no method would have been:  *)
(* trees and routes are searched for other methods otherwise than for the  *)
(* request's own one.                                                      *)
AllowRight ==
  /\ answer.status = 405 =>
       \A m \in answer.allow :
         \/ ServeHTTP(m, answer.path).status = 200
         \/ \E i \in RoutesByMethod(m) :
              MidWild(routes[i].pattern) /\ Matches(routes[i].pattern, answer.path)
  /\ answer.status = 404 =>
       \A m \in Methods : ServeHTTP(m, answer.path).status # 200
=============================================================================
