--------------------------- MODULE RouterCompile ---------------------------
(***************************************************************************)
(* Compilation of a configuration into the router the proxy serves from    *)
(* (upstreams/compile.rs, compile/routes.rs, compile/upstream_groups.rs)   *)
(* and the check of configuration files before it (compile/validate.rs).   *)
(*                                                                         *)
(* from_http(http) is the router, or Rejected.  Inserting servers one      *)
(* after the other into maps is described by which entry is left at the    *)
(* end.  Route ids, which number the compiled locations, are left out:     *)
(* ResponseCache is about them.                                            *)
(***************************************************************************)
EXTENDS ConfigLower

CONSTANTS Canon,          \* the lower case form, without a final dot, of each name
          MaxWeight,      \* u16::MAX, the most a group's weights may add up to
          MaxShare,       \* the largest weight of a weighted backend
          Rejected        \* no router: the configuration is refused

ASSUME CanonAssumption == /\ DOMAIN Canon \subseteq Nat
                          /\ \A n \in DOMAIN Canon : Canon[n] \in DOMAIN Canon /\ Canon[Canon[n]] = Canon[n]

Sum(s) == FoldLeft(LAMBDA a, b : a + b, 0, s)

---------------------------------------------------------------------------
(* Upstream groups *)

CertPairOK(tls) == (tls.cert = None) <=> (tls.key = None)

HealthCompiles(h) == h.timeout > 0 /\ h.interval > 0 /\ h.success > 0 /\ h.failure > 0
NrfCompiles(n) == n.timeout > 0 /\ n.stale > 0 /\ CertPairOK(n.tls)

GroupSourceOK(u) ==
    /\ u.servers = <<>> /\ u.nrf = None => u.allow_empty
    /\ u.servers = <<>> \/ u.nrf = None
    /\ u.nrf # None => u.health # None
\* Mutant: only the single weights are looked at.
WeightsOneByOne(u) ==
    \A i \in DOMAIN u.servers : u.servers[i].weight > 0 /\ u.servers[i].weight <= MaxWeight
WeightsOK(u) ==
    /\ \A i \in DOMAIN u.servers : u.servers[i].weight > 0
    /\ Sum([i \in DOMAIN u.servers |-> u.servers[i].weight]) <= MaxWeight
HashOK(u) == u.hash_key # None => u.policy = "consistent_hash"

GroupCompiles(u) ==
    /\ GroupSourceOK(u) /\ WeightsOK(u) /\ HashOK(u)
    /\ \A i \in DOMAIN u.servers : u.servers[i].port > 0
    /\ u.nrf # None => NrfCompiles(u.nrf)
    /\ u.health # None => HealthCompiles(u.health)

UpstreamsCompile(us) ==
    /\ \A i \in DOMAIN us : GroupCompiles(us[i])
    /\ \A i, j \in DOMAIN us : Canon[us[i].name] = Canon[us[j].name] => i = j

compile_upstreams(us) ==
    [c \in {Canon[us[i].name] : i \in DOMAIN us} |->
        us[CHOOSE i \in DOMAIN us : Canon[us[i].name] = c]]

ProfileCompiles(p, groups) ==
    LET Query(i) == groups[p.upstreams[i]].nrf.query IN
    /\ p.api_root # None
    /\ \A i \in DOMAIN p.upstreams : p.upstreams[i] \in DOMAIN groups /\ groups[p.upstreams[i]].nrf # None
    /\ \A i, j \in DOMAIN p.upstreams : Query(i) = Query(j) => i = j
    /\ p.api_root \notin ToSet(p.targets) /\ IsInjective(p.targets)
    /\ p.upstreams # <<>> \/ p.targets # <<>>

---------------------------------------------------------------------------
(* Locations *)

Dropped == [kind |-> "dropped"]
Failed == [kind |-> "failed"]

\* A group is named by a URL without port, path or anything else.
NamesGroup(url, groups) == url.port = None /\ url.bare /\ Canon[url.host] \in DOMAIN groups

SchemeFits(group, tls) == group.nrf # None => (group.nrf.scheme = "https" <=> tls)

GroupTarget(name, tls, groups) ==
    IF Canon[name] \in DOMAIN groups /\ SchemeFits(groups[Canon[name]], tls)
    THEN [kind |-> "group", name |-> groups[Canon[name]].name, tls |-> tls] ELSE Failed

DefaultPort(tls) == IF tls THEN 443 ELSE 80

\* proxy_pass: a group by its name or through a URL, or the URL's host.  A
\* scheme that is neither http nor https drops the whole location.
PassTarget(v, groups) ==
    IF "url" \notin DOMAIN v THEN GroupTarget(v.group, v.tls, groups)
    ELSE LET url == v.url
             tls == url.scheme = "https" IN
         IF NamesGroup(url, groups)
         THEN IF url.scheme \in {"http", "https"} THEN GroupTarget(url.host, tls, groups) ELSE Failed
         ELSE IF url.scheme \notin {"http", "https"} THEN Dropped
         ELSE [kind |-> "proxy", host |-> url.host, tls |-> tls,
               port |-> IF url.port = None THEN DefaultPort(tls) ELSE url.port]

DirectTarget(status) == IF status \in 200..599 THEN [kind |-> "direct", status |-> status] ELSE Failed

WeightedTarget(bs, groups) ==
    LET t(i) == IF "status" \in DOMAIN bs[i].target THEN DirectTarget(bs[i].target.status)
                ELSE PassTarget(bs[i].target, groups) IN
    IF bs # <<>> /\ \A i \in DOMAIN bs : bs[i].weight <= MaxShare /\ t(i) \notin {Failed, Dropped}
    THEN [kind |-> "weighted", backends |-> [i \in DOMAIN bs |-> [weight |-> bs[i].weight, target |-> t(i)]]]
    ELSE Failed

Actions == {"proxy_pass", "scp_pass", "return", "weighted_backends", "direct_response", "http_redirect"}

route_target(d, groups) ==
    CASE d.d = "proxy_pass" -> PassTarget(d.v, groups)
      [] d.d = "weighted_backends" -> WeightedTarget(d.v, groups)
      [] d.d = "direct_response" -> DirectTarget(d.v)
      [] d.d = "scp_pass" -> [kind |-> "scp", profile |-> d.v]
      [] d.d = "return" -> [kind |-> "return", status |-> d.v.status, location |-> d.v.location]
      [] d.d = "http_redirect" -> [kind |-> "redirect", redirect |-> d.v]

\* Where a location has directives of these names; the value of the only one of a name
\* that may be given once; the value of the last one of a name.
Places(loc, names) == {i \in DOMAIN loc.directives : loc.directives[i].d \in names}
Slot(loc, name) == IF Places(loc, {name}) = {} THEN None
                   ELSE loc.directives[CHOOSE i \in Places(loc, {name}) : TRUE].v
LastSlot(loc, name, default) == IF Places(loc, {name}) = {} THEN default
                                ELSE loc.directives[Max(Places(loc, {name}))].v

OnceInLocation ==
    {"proxy_connect_timeout", "proxy_read_timeout", "proxy_write_timeout", "proxy_upstream_protocol",
     "proxy_ssl_certificate", "proxy_ssl_certificate_key", "url_rewrite", "client_max_body_size",
     "client_body_timeout", "send_timeout", "allow_methods", "proxy_http2_max_concurrent_streams",
     "proxy_http2_stream_window_size", "proxy_http2_connection_window_size"}

\* Rules of the action, with and without the rest of the location.
ActionsOK(loc) ==
    /\ Cardinality(Places(loc, Actions)) = 1
    /\ Places(loc, {"root", "try_files"}) = {}
Target(loc, groups) ==
    route_target(loc.directives[CHOOSE i \in Places(loc, Actions) : TRUE], groups)

ProtocolFits(p, t) ==
    CASE t.kind = "scp" -> FALSE
      [] t.kind \in {"proxy", "group"} -> (p = "h2" => t.tls) /\ (p = "h2c" => ~t.tls)
      [] OTHER -> TRUE
\* Mutant: weighted backends are not looked at.
ProtocolSkipsWeighted(p, t) == p # None => t.kind = "weighted" \/ ProtocolFits(p, t)
ProtocolOK(p, t) ==
    p # None => IF t.kind = "weighted" THEN \A i \in DOMAIN t.backends : ProtocolFits(p, t.backends[i].target)
                ELSE ProtocolFits(p, t)
\* Answers the proxy makes itself have no upstream protocol.
CompiledProtocol(p, t) == IF t.kind \in {"return", "direct", "redirect"} THEN None ELSE p

ModifierOK(m, matcher) == m # None /\ m.kind = "prefix" => matcher.kind = "http" /\ matcher.prefix

UpstreamHttp2(loc) ==
    [max_concurrent_streams |-> Slot(loc, "proxy_http2_max_concurrent_streams"),
     stream_window_size |-> Slot(loc, "proxy_http2_stream_window_size"),
     connection_window_size |-> Slot(loc, "proxy_http2_connection_window_size")]
Http2OK(h2) ==
    \A n \in DOMAIN h2 : h2[n] # None =>
        h2[n] > 0 /\ (n \in {"stream_window_size", "connection_window_size"} => h2[n] <= MaxWindow)

LocationTls(loc) ==
    TlsOptions(LastSlot(loc, "proxy_ssl_verify", "on"), LastSlot(loc, "proxy_ssl_trusted_certificate", None),
               Slot(loc, "proxy_ssl_certificate"), Slot(loc, "proxy_ssl_certificate_key"))

TargetOK(t, matcher) ==
    CASE t.kind = "redirect" -> /\ t.redirect.status \in {301, 302, 303, 307, 308}
                                /\ t.redirect.scheme \in {None, "http", "https"}
                                /\ t.redirect.port # 0 /\ ModifierOK(t.redirect.path, matcher)
      [] t.kind = "return" -> t.status \in 300..399
      [] OTHER -> TRUE

LocationCompiles(loc, groups) ==
    LET t == Target(loc, groups)
        rewrite == Slot(loc, "url_rewrite") IN
    /\ ActionsOK(loc)
    /\ t # Failed
    /\ t # Dropped =>
         /\ \A n \in OnceInLocation : Cardinality(Places(loc, {n})) <= 1
         /\ ProtocolOK(Slot(loc, "proxy_upstream_protocol"), t)
         /\ t.kind = "scp" => loc.cache = None
         /\ rewrite # None => t.kind \in {"proxy", "group", "weighted"} /\ ModifierOK(rewrite.path, loc.matcher)
         /\ TargetOK(t, loc.matcher)
         /\ Slot(loc, "allow_methods") # <<>>
         /\ Http2OK(UpstreamHttp2(loc)) /\ CertPairOK(LocationTls(loc))

WithoutRepeats(s) == FoldLeft(LAMBDA seen, x : IF Contains(seen, x) THEN seen ELSE Append(seen, x), <<>>, s)

compile_location(loc, groups) ==
    LET t == Target(loc, groups)
        methods == Slot(loc, "allow_methods") IN
    IF t = Dropped THEN Dropped ELSE
    [kind |-> "location", matcher |-> loc.matcher, access |-> loc.access, plugins |-> loc.plugins,
     cache |-> loc.cache, target |-> t, rewrite |-> Slot(loc, "url_rewrite"),
     limits |-> [max_body_size |-> Slot(loc, "client_max_body_size"),
                 body_timeout |-> Slot(loc, "client_body_timeout"), send_timeout |-> Slot(loc, "send_timeout"),
                 methods |-> IF methods = None THEN <<>> ELSE WithoutRepeats(methods)],
     timeouts |-> [connect |-> Slot(loc, "proxy_connect_timeout"), read |-> Slot(loc, "proxy_read_timeout"),
                   write |-> Slot(loc, "proxy_write_timeout")],
     protocol |-> CompiledProtocol(Slot(loc, "proxy_upstream_protocol"), t),
     http2 |-> UpstreamHttp2(loc), tls |-> LocationTls(loc)]

LocationsCompile(locs, groups) ==
    /\ \A i, j \in DOMAIN locs : locs[i].matcher.kind = "http" => locs[j].matcher.kind = "http"
    /\ \A i \in DOMAIN locs : LocationCompiles(locs[i], groups)

compile_locations(locs, groups) ==
    LET compiled == [i \in DOMAIN locs |-> compile_location(locs[i], groups)] IN
    Kept(compiled, {i \in DOMAIN locs : compiled[i] # Dropped})

---------------------------------------------------------------------------
(* Servers and listeners *)

ListenKey(l) == [addr |-> l.addr, port |-> l.port, ssl |-> l.ssl]

\* The servers paired with their listens, in the order they are added.
Entries(http) ==
    FlattenSeq([i \in DOMAIN http.servers |->
        [j \in DOMAIN http.servers[i].listens |-> [server |-> http.servers[i], listen |-> http.servers[i].listens[j]]]])
Bound(es, key) == {n \in DOMAIN es : ListenKey(es[n].listen) = key}

Protocols(l) == [http2 |-> l.http2, http2_only |-> l.http2_only]

\* Servers that share a socket agree on its protocols and TLS settings.
ListenersAgree(http) ==
    \A i, j \in DOMAIN Entries(http) :
        LET a == Entries(http)[i]
            b == Entries(http)[j] IN
        ListenKey(a.listen) = ListenKey(b.listen) =>
            /\ Protocols(a.listen) = Protocols(b.listen)
            /\ a.listen.ssl => a.server.tls_options = b.server.tls_options

AcceptsH2(l, http) == IF l.ssl THEN l.http2 \/ l.http2_only ELSE http.h2c = "on"

\* Host names other than *.suffix are not checked; names here are well formed.
ServerCompiles(s, http, groups) ==
    /\ s.tls # None /\ s.tls.provider = "letsencrypt" => Len(s.server_names) = 1
    /\ LocationsCompile(s.locations, groups)
    /\ \A i \in DOMAIN compile_locations(s.locations, groups) :
         LET t == compile_locations(s.locations, groups)[i].target IN
         t.kind = "scp" =>
            /\ \E k \in DOMAIN http.profiles : http.profiles[k].name = t.profile
            /\ \A k \in DOMAIN s.listens : IF s.listens[k].ssl THEN s.listens[k].http2 ELSE http.h2c = "on"

Set(v) == v # None /\ v # 0

\* A body timeout cannot be enforced on HTTP/2, nor a header timeout with h2c.
TimeoutsOK(http) ==
    /\ \A i \in DOMAIN http.servers :
         LET s == http.servers[i] IN
         (\E k \in DOMAIN s.listens : AcceptsH2(s.listens[k], http)) =>
            /\ ~Set(http.client_body_timeout)
            /\ \A k \in DOMAIN s.locations :
                 \A j \in Places(s.locations[k], {"client_body_timeout"}) : ~Set(s.locations[k].directives[j].v)
    /\ http.h2c = "on" => ~Set(http.client_header_timeout)

Identity(s) ==
    IF s.tls.provider = "custom" THEN [cert |-> s.tls.cert, key |-> s.tls.key]
    ELSE LET path == [src |-> "letsencrypt", id |-> s.server_names[1]] IN [cert |-> path, key |-> path]

Names(e) == {Canon[e.server.server_names[i]] : i \in DOMAIN e.server.server_names}
\* Among the entries numbered by ns, the last one with this name, and all names.
NamedIn(es, ns, name) == es[Max({n \in ns : name \in Names(es[n])})]
AllNames(es, ns) == UNION {Names(es[n]) : n \in ns}

\* The last server marked default_server, else the first one without a name, else none.
DefaultServer(es, ns) ==
    LET marked == {n \in ns : es[n].listen.default_server}
        unnamed == {n \in ns : es[n].server.server_names = <<>>} IN
    IF marked # {} THEN Max(marked) ELSE IF unnamed # {} THEN Min(unnamed) ELSE 0

\* The certificate for unknown names: the last server that is marked or has no
\* name brings it, else the first server of the listener.
DefaultIdentity(es, ns) ==
    LET claims == {n \in ns : es[n].listen.default_server \/ es[n].server.server_names = <<>>} IN
    Identity(es[IF claims # {} THEN Max(claims) ELSE Min(ns)].server)

compile_listener(http, key, groups) ==
    LET es == Entries(http)
        ns == Bound(es, key)
        default == DefaultServer(es, ns)
        routes(e) == compile_locations(e.server.locations, groups)
        certified == {n \in ns : es[n].server.tls # None} IN
    [named |-> [h \in AllNames(es, ns) |-> routes(NamedIn(es, ns, h))],
     default |-> IF default = 0 THEN None ELSE [routes |-> routes(es[default])],
     protocols |-> Protocols(es[Min(ns)].listen),
     tls |-> IF ~key.ssl THEN None ELSE
             [settings |-> es[Min(ns)].server.tls_options,
              named |-> [h \in AllNames(es, certified) |-> Identity(NamedIn(es, certified, h).server)],
              default |-> IF certified = {} THEN None ELSE DefaultIdentity(es, certified)]]

\* Mutant: rounded up when it is whole already.
KeepaliveNextSecond(ms) == IF ms = None THEN None ELSE NoneIfZero(IF ms = 0 THEN 0 ELSE ms \div 1000 + 1)
\* Whole seconds, rounded up; zero switches keep-alive off.
KeepaliveSeconds(ms) == IF ms = None THEN None ELSE NoneIfZero((ms + 999) \div 1000)

OptionsOK(http) ==
    /\ http.tcp_nodelay = "on"
    /\ Http2OK(http.http2)
    /\ http.real_ip # None => http.real_ip.header \in {"x-forwarded-for", "x-real-ip"}
    /\ http.geoip # None => http.geoip.interval > 0

HttpCompiles(http) ==
    LET groups == compile_upstreams(http.upstreams) IN
    /\ OptionsOK(http)
    /\ UpstreamsCompile(http.upstreams)
    /\ \A i \in DOMAIN http.profiles : ProfileCompiles(http.profiles[i], groups)
    /\ \A i, j \in DOMAIN http.profiles : http.profiles[i].name = http.profiles[j].name => i = j
    /\ \A i \in DOMAIN http.servers : ServerCompiles(http.servers[i], http, groups)
    /\ ListenersAgree(http)
    /\ TimeoutsOK(http)

Options(http) ==
    [client_header_timeout |-> http.client_header_timeout, client_body_timeout |-> http.client_body_timeout,
     send_timeout |-> http.send_timeout, keepalive |-> KeepaliveSeconds(http.keepalive),
     keepalive_requests |-> http.keepalive_requests, client_max_body_size |-> http.client_max_body_size,
     proxy_cache_max_size |-> http.proxy_cache_max_size, tcp_nodelay |-> http.tcp_nodelay = "on",
     connect |-> http.connect = "on", h2c |-> http.h2c = "on", http2 |-> http.http2, real_ip |-> http.real_ip]

from_http(http) ==
    LET groups == compile_upstreams(http.upstreams)
        keys == {ListenKey(Entries(http)[i].listen) : i \in DOMAIN Entries(http)} IN
    IF ~HttpCompiles(http) THEN Rejected ELSE
    [options |-> Options(http), upstreams |-> groups, le |-> http.le, geoip |-> http.geoip,
     profiles |-> ToSet(http.profiles), listeners |-> [k \in keys |-> compile_listener(http, k, groups)]]

---------------------------------------------------------------------------
(* Ir::validate, which looks at a configuration file before it is compiled *)

validate(http) ==
    /\ http.servers # <<>>
    /\ \A i \in DOMAIN http.upstreams :
         LET u == http.upstreams[i] IN
         /\ u.servers = <<>> /\ u.nrf = None => u.allow_empty
         /\ u.servers # <<>> => u.nrf = None
         /\ u.nrf # None => u.health # None
         /\ \A k \in DOMAIN u.servers : u.servers[k].weight # 0
         /\ Sum([k \in DOMAIN u.servers |-> u.servers[k].weight]) <= MaxWeight
         /\ u.policy = "consistent_hash" \/ u.hash_key = None
    /\ \A i \in DOMAIN http.servers : \A k \in DOMAIN http.servers[i].locations :
         LET ds == http.servers[i].locations[k].directives IN
         /\ Cardinality({j \in DOMAIN ds : ds[j].d \in Actions}) = 1
         /\ \A j \in DOMAIN ds : ds[j].d \notin {"root", "try_files"}
============================================================================
