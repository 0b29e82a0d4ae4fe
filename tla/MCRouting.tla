----------------------------- MODULE MCRouting ------------------------------
(* Paths over the alphabet "/", "a", "b"; host names "x.y", "y" and the        *)
(* pattern "*.y"; small sets of locations of both kinds.                       *)
EXTENDS Routing

P == [root |-> <<"/">>, a |-> <<"/", "a">>, as |-> <<"/", "a", "/">>,
      ab |-> <<"/", "a", "b">>, asb |-> <<"/", "a", "/", "b">>]
Plain(k, p) == [kind |-> k, path |-> p, method |-> FALSE, headers |-> {}, query |-> {}]

Exact(labels) == [wild |-> FALSE, labels |-> labels]
Wild(labels) == [wild |-> TRUE, labels |-> labels]
Hosts == {<<"x", "y">>, <<"y">>}

Get(path) == [path |-> path, method |-> TRUE, headers |-> {}, query |-> {}, host |-> NoHost,
              sni |-> NoHost]
Paths == {P.root, P.a, P.as, P.ab, P.asb}

Rewrites == {<<>>, P.root, <<"/", "b">>, <<"/", "b", "/">>}

\* One server, every sequence of up to three locations.
NginxLocations ==
  {Plain(k, p) : k \in {"prefix", "prefer"}, p \in {P.root, P.a, P.asb}}
    \cup {Plain("exact", P.a), Plain("regex", <<"b">>), Plain("regex", <<"a">>), Plain("named", P.root)}
NginxServers == {{[name |-> Default, locations |-> s]} : s \in BoundedSeq(NginxLocations, 3)}
NginxRequests == {Get(p) : p \in Paths}

\* Three servers with up to two HTTP rules each, and one of them may have a location.
HttpRules ==
  {Plain(k, p) : k \in {"http_exact", "http_prefix"}, p \in {P.a, P.as}}
    \cup {[Plain("http_prefix", P.root) EXCEPT !.method = TRUE],
          [Plain("http_prefix", P.as) EXCEPT !.headers = {"h"}],
          [Plain("http_prefix", P.a) EXCEPT !.query = {"q"}]}
Lists == {<<>>} \cup {<<r>> : r \in HttpRules} \cup
         {<<r, s>> : r \in HttpRules, s \in {Plain("http_prefix", P.a),
                                             [Plain("http_prefix", P.as) EXCEPT !.headers = {"h"}]}}
HttpServers ==
  {{[name |-> Exact(<<"x", "y">>), locations |-> s], [name |-> Wild(<<"y">>), locations |-> t],
    [name |-> Default, locations |-> <<d>>]} :
     s \in Lists, t \in {l \in Lists : Len(l) < 2},
     d \in {Plain("http_prefix", P.root), Plain("prefix", P.root)}}
HttpRequests ==
  {[path |-> p, method |-> m, headers |-> h, query |-> q, host |-> n[1], sni |-> n[2]] :
     p \in {P.a, P.ab, P.asb}, m \in BOOLEAN, h \in SUBSET {"h"}, q \in SUBSET {"q"},
     n \in {<<<<"x", "y">>, NoHost>>, <<<<"y">>, NoHost>>, <<NoHost, <<"x", "y">>>>}}

\* Everything that a Host header and a TLS name can be, for a few servers.
TlsServers ==
  {{[name |-> n, locations |-> <<Plain("prefix", P.root)>>] : n \in N} :
     N \in SUBSET {Exact(<<"x", "y">>), Exact(<<"y">>), Wild(<<"y">>), Default}}
TlsRequests ==
  {[Get(P.a) EXCEPT !.host = h, !.sni = s] : h \in Hosts \cup {NoHost, <<>>, <<"z", "y">>},
                                           s \in Hosts \cup {NoHost}}

MCScenarios ==
  {[servers |-> NginxServers, requests |-> NginxRequests, rewrites |-> {P.root}],
   [servers |-> HttpServers, requests |-> HttpRequests, rewrites |-> Rewrites],
   [servers |-> TlsServers, requests |-> TlsRequests, rewrites |-> {P.root}]}
=============================================================================
