------------------------------ MODULE Routing -------------------------------
(***************************************************************************)
(* How a request finds its location (resolve_route and select_route_target *)
(* of upstreams/routing.rs, upstreams/http_routes.rs) and how the path of  *)
(* the location rewrites it.                                               *)
(*                                                                         *)
(* A path is a sequence of characters, a host name a sequence of labels,   *)
(* a wildcard pattern the labels after "*.".  The loops of the code are    *)
(* folds; the properties compare them with what documentation and comments *)
(* promise.                                                                *)
(***************************************************************************)
EXTENDS Naturals, Sequences, FiniteSets, SequencesExt

CONSTANTS Scenarios, \* [servers, requests, rewrites]: possible VirtualHostRoutes, requests
                     \* [path, method, headers, query, host, sni] and replacements of
                     \* ReplacePrefixMatch
          NoHost     \* no Host header, no SNI

VARIABLES vhosts, request, rewrite, pc, result
routingVars == <<vhosts, request, rewrite, pc, result>>

\* A virtual host is [name, locations], the default server has the name Default.  A
\* location is [kind, path, method, headers, query]: kinds of nginx and of HTTPRoute,
\* and the conditions of the latter.
Default == [wild |-> TRUE, labels |-> <<>>]
HttpKinds == {"http_exact", "http_prefix"}
IsHttp(v) == \E i \in DOMAIN v.locations : v.locations[i].kind \in HttpKinds

\* compile_locations rejects virtual hosts that mix the kinds.
Compiles(v) == \A i \in DOMAIN v.locations : IsHttp(v) => v.locations[i].kind \in HttpKinds

\* Names are the keys of a map, there is one default server at most; the paths of HTTP
\* rules and replacements are those validate_path accepts.
Kinds == {"exact", "prefix", "prefer", "regex", "named"} \cup HttpKinds
Absolute(path) == path \in Seq(STRING) /\ path # <<>> /\ path[1] = "/"
IsLocation(l) ==
  /\ l.kind \in Kinds /\ l.path \in Seq(STRING) /\ l.method \in BOOLEAN
  /\ IsFiniteSet(l.headers) /\ IsFiniteSet(l.query)
  /\ l.kind \in HttpKinds => Absolute(l.path)
IsServers(servers) ==
  /\ IsFiniteSet(servers)
  /\ \A v \in servers :
       /\ v.name \in [wild : BOOLEAN, labels : Seq(STRING)]
       /\ v.locations \in Seq(Range(v.locations)) /\ \A l \in Range(v.locations) : IsLocation(l)
  /\ \A v, w \in servers : v.name = w.name => v = w
IsRequest(r) ==
  /\ r.path \in Seq(STRING) /\ r.method \in BOOLEAN
  /\ r.host = NoHost \/ r.host \in Seq(STRING)
  /\ r.sni = NoHost \/ r.sni \in Seq(STRING)

ASSUME ScenariosAssumption ==
  \A s \in Scenarios :
    /\ \A servers \in s.servers : IsServers(servers)
    /\ \A r \in s.requests : IsRequest(r)
    /\ \A path \in s.rewrites : path = <<>> \/ Absolute(path)

NoRoute == [status |-> 404, name |-> Default, index |-> 0, path |-> <<>>]
Failed(code) == [NoRoute EXCEPT !.status = code]

RoutingInit ==
  /\ \E s \in Scenarios :
       vhosts \in s.servers /\ request \in s.requests /\ rewrite \in s.rewrites
  /\ \A v \in vhosts : Compiles(v)
  /\ pc = "resolve"
  /\ result = NoRoute

-----------------------------------------------------------------------------
(* select_route_target *)

\* The regular expression of a location, for which its end stands.
RegexMatches(l, path) == IsSuffix(l.path, path)

\* Fault: the last of several equal prefixes wins.
BetterOrEqual(l, best, path) ==
  IsPrefix(l.path, path) /\ (best.index = 0 \/ Len(l.path) >= best.len)
Better(l, best, path) ==
  IsPrefix(l.path, path) /\ (best.index = 0 \/ Len(l.path) > best.len)

NoBest == [index |-> 0, len |-> 0]

\* The first loop over the locations: an exact match returns at once.
ScanPrefixes(locations, path) ==
  LET Visit(acc, i) ==
        LET l == locations[i]
            best == [index |-> i, len |-> Len(l.path)]
        IN IF acc.exact # 0 THEN acc
           ELSE IF l.kind = "exact" /\ l.path = path THEN [acc EXCEPT !.exact = i]
           ELSE IF l.kind = "prefix" /\ Better(l, acc.prefix, path)
                THEN [acc EXCEPT !.prefix = best]
           ELSE IF l.kind = "prefer" /\ Better(l, acc.prefer, path)
                THEN [acc EXCEPT !.prefer = best]
           ELSE acc
  IN FoldLeftDomain(Visit, [exact |-> 0, prefix |-> NoBest, prefer |-> NoBest], locations)

SelectRouteTarget(locations, path) ==
  LET scan == ScanPrefixes(locations, path)
      regex == SelectInSeq(locations, LAMBDA l : l.kind = "regex" /\ RegexMatches(l, path))
  IN IF scan.exact # 0 THEN scan.exact
     ELSE IF scan.prefer # NoBest THEN scan.prefer.index
     ELSE IF regex # 0 THEN regex ELSE scan.prefix.index

-----------------------------------------------------------------------------
(* http_routes *)

Trim(p) == LET keep == {i \in DOMAIN p : p[i] # "/"}
           IN IF keep = {} THEN <<>> ELSE SubSeq(p, 1, Max(keep))

PrefixMatches(prefix, path) ==
  LET p == Trim(prefix)
  IN path = p \/ (IsStrictPrefix(p, path) /\ path[Len(p) + 1] = "/")

\* compile_match: the path of a prefix without trailing slashes.
Compiled(l) ==
  IF l.kind = "http_prefix" THEN IF Trim(l.path) = <<>> THEN <<"/">> ELSE Trim(l.path)
  ELSE l.path

Matches(l) ==
  /\ IF l.kind = "http_exact" THEN l.path = request.path
     ELSE PrefixMatches(Compiled(l), request.path)
  /\ l.method => request.method
  /\ l.headers \subseteq request.headers /\ l.query \subseteq request.query

MatchScore(l) ==
  <<IF l.kind = "http_exact" THEN 1 ELSE 0, Len(Compiled(l)), IF l.method THEN 1 ELSE 0,
    Cardinality(l.headers), Cardinality(l.query)>>

\* The order of tuples in Rust.
Above(s, t) ==
  \E i \in DOMAIN s : s[i] > t[i] /\ \A j \in 1 .. i - 1 : s[j] = t[j]

\* The best rule of a virtual host, the first of equals; 0 if none matches.
BestRule(locations) ==
  LET Visit(best, i) ==
        IF Matches(locations[i])
           /\ (best = 0 \/ Above(MatchScore(locations[i]), MatchScore(locations[best])))
        THEN i ELSE best
  IN FoldLeftDomain(Visit, 0, locations)

NameMatches(n, host) ==
  IF n.wild THEN IsStrictSuffix(n.labels, host) ELSE n.labels = host

\* hostname_score; the default server comes last with (false, 0).
HostnameScore(n) == <<IF n.wild THEN 0 ELSE 1, Len(n.labels)>>

-----------------------------------------------------------------------------
(* resolve_route *)

RoutingHost == IF request.host = NoHost THEN request.sni ELSE request.host

Eligible(v) ==
  v.name = Default \/ (RoutingHost # NoHost /\ NameMatches(v.name, RoutingHost))

\* The virtual hosts that match, the best first; no two have the same score.
Candidates ==
  CHOOSE s \in SetToSeqs({v \in vhosts : Eligible(v)}) :
    \A i, j \in DOMAIN s :
      i < j => Above(HostnameScore(s[i].name), HostnameScore(s[j].name))

\* Fault: only the best virtual host is asked for an HTTP rule.
FirstHttpBestOnly(candidates) ==
  IF candidates = <<>> THEN 0
  ELSE IF IsHttp(candidates[1]) /\ BestRule(candidates[1].locations) # 0 THEN 1 ELSE 0

\* The first virtual host with a matching HTTP rule; one with nginx locations ends
\* the search.
FirstHttp(candidates) ==
  LET Visit(acc, i) ==
        IF acc.stop THEN acc
        ELSE IF ~IsHttp(candidates[i]) THEN [acc EXCEPT !.stop = TRUE]
        ELSE IF BestRule(candidates[i].locations) # 0 THEN [found |-> i, stop |-> TRUE]
        ELSE acc
  IN FoldLeftDomain(Visit, [found |-> 0, stop |-> FALSE], candidates).found

\* Fault: the Host header is not compared with the name of the TLS session.
ConsistentAlways == TRUE
Consistent == request.host = NoHost \/ request.sni = NoHost \/ request.host = request.sni

\* Fault: the replacement is put before the rest as it is.
RewriteJoined(prefix, path) ==
  LET suffix == SubSeq(path, Len(Trim(prefix)) + 1, Len(path))
  IN rewrite \o suffix

\* rewrite_uri with ReplacePrefixMatch.
RewriteUri(prefix, path) ==
  LET suffix == SubSeq(path, Len(Trim(prefix)) + 1, Len(path))
      joined == IF suffix = <<>> THEN rewrite ELSE Trim(rewrite) \o suffix
  IN IF joined = <<>> THEN <<"/">> ELSE joined

Found(v, i) ==
  LET l == v.locations[i]
  IN [status |-> 200, name |-> v.name, index |-> i,
      path |-> IF l.kind = "http_prefix" THEN RewriteUri(Compiled(l), request.path)
               ELSE request.path]

ResolveRoute ==
  LET candidates == Candidates
      http == FirstHttp(candidates)
      server == candidates[1] \* select_server_routes
      index == SelectRouteTarget(server.locations, request.path)
  IN IF request.host = <<>> THEN Failed(400)
     ELSE IF ~Consistent THEN Failed(421)
     ELSE IF http # 0 THEN Found(candidates[http], BestRule(candidates[http].locations))
     ELSE IF candidates = <<>> THEN NoRoute
     ELSE IF index = 0 THEN NoRoute ELSE Found(server, index)

Resolve ==
  /\ pc = "resolve"
  /\ result' = ResolveRoute
  /\ pc' = "done"
  /\ UNCHANGED <<vhosts, request, rewrite>>

Done == pc = "done" /\ UNCHANGED routingVars

RoutingNext == Resolve \/ Done

RoutingSpec == RoutingInit /\ [][RoutingNext]_routingVars

-----------------------------------------------------------------------------
(* What the documentation says *)

Routed == pc = "done" /\ result.status = 200
Server == CHOOSE v \in vhosts : v.name = result.name
Location == Server.locations[result.index]

\* Segments of a path: what is between its slashes.
Segments(p) ==
  LET Visit(acc, c) == IF c = "/" THEN Append(acc, <<>>)
                       ELSE [acc EXCEPT ![Len(acc)] = Append(@, c)]
  IN FoldLeft(Visit, <<>>, p)

LocationRank(l) ==
  CASE l.kind = "exact" -> <<3, 0>>
    [] l.kind = "prefer" -> <<2, Len(l.path)>>
    [] l.kind = "regex" -> <<1, 0>>
    [] OTHER -> <<0, Len(l.path)>>
Applies(l, path) ==
  CASE l.kind = "exact" -> l.path = path
    [] l.kind = "regex" -> RegexMatches(l, path)
    [] l.kind = "named" -> FALSE
    [] OTHER -> IsPrefix(l.path, path)

\* "exact > longest ^~ prefix > first matching regex > longest plain prefix" (routing.rs):
\* the selected location is the best in this order, and the first of equals; a request
\* to a lone server is refused only if none of its locations applies.
MatchOrder ==
  /\ Routed /\ ~IsHttp(Server) =>
       /\ Applies(Location, request.path)
       /\ \A i \in DOMAIN Server.locations :
            LET l == Server.locations[i]
            IN Applies(l, request.path) =>
                 \/ Above(LocationRank(Location), LocationRank(l))
                 \/ LocationRank(Location) = LocationRank(l) /\ result.index <= i
  /\ pc = "done" /\ result = NoRoute =>
       \A v \in vhosts : vhosts = {v} /\ v.name = Default /\ ~IsHttp(v) =>
         \A i \in DOMAIN v.locations : ~Applies(v.locations[i], request.path)

\* "a more specific hostname without a matching rule does not hide a matching wildcard
\* rule", "exact path, longest prefix, method, number of header conditions, then number of
\* query conditions", "Snapshot route order breaks ties": if all virtual hosts have HTTP
\* rules, no matching rule of any of them precedes the selected one, and none is left
\* out.
BestHttpRule ==
  pc = "done" /\ (\A v \in vhosts : IsHttp(v)) /\ result.status \in {200, 404} =>
    LET Outranks(v, i) ==
          \/ Above(HostnameScore(v.name), HostnameScore(result.name))
          \/ /\ v.name = result.name
             /\ \/ Above(MatchScore(v.locations[i]), MatchScore(Location))
                \/ i < result.index /\ MatchScore(v.locations[i]) = MatchScore(Location)
    IN \A v \in vhosts : \A i \in DOMAIN v.locations :
         Eligible(v) /\ Matches(v.locations[i]) => result.status = 200 /\ ~Outranks(v, i)

\* The route that is selected is the best one, whichever of the two kinds of
\* rules a virtual host has.
BestMatch == MatchOrder /\ BestHttpRule

\* A request of a TLS session that was made for a name is served by a virtual host of
\* this name, or by the default server, whatever its Host header says.
TlsBound ==
  Routed /\ request.sni # NoHost => result.name = Default \/ NameMatches(result.name, request.sni)

\* "HTTP prefixes match complete slash-separated segments": the segments of the selected
\* prefix begin the request's path; in the rewritten path, which is absolute, the
\* replacement stands for them and the rest follows, whichever slashes are at the seam.
SegmentsKept ==
  Routed /\ Location.kind = "http_prefix" =>
    LET prefix == Segments(Trim(Location.path))
        path == Segments(request.path)
        rest == SubSeq(path, Len(prefix) + 1, Len(path))
    IN /\ IsPrefix(prefix, path)
       /\ result.path # <<>> /\ result.path[1] = "/"
       /\ rest # <<>> => Segments(result.path) = Segments(Trim(rewrite)) \o rest
=============================================================================
