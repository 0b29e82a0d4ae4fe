--------------------------- MODULE SnapshotCodec ---------------------------
(***************************************************************************)
(* The wire form of a snapshot (grpc/encode.rs, decode.rs, tls.rs,         *)
(* values.rs, client_policy.rs, http_routes.rs) and the workflow around it:*)
(* a configuration is loaded from a file or applied through gRPC, read     *)
(* back with GetSnapshot and applied again with ApplySnapshot, as clients  *)
(* of the control plane do across an upgrade.                              *)
(*                                                                         *)
(* The wire form has proto3's gaps: a plain number cannot be absent, so 0  *)
(* stands for "not set", an enum has "unspecified", an empty string or     *)
(* list is an absent one (None and <<>> here).  Fields declared optional   *)
(* keep the difference.                                                    *)
(***************************************************************************)
EXTENDS RouterCompile, FiniteSetsExt

CONSTANTS Texts,    \* http blocks a file may contain, a sequence of families
          Wires     \* snapshots a client may send, likewise

VARIABLES http,      \* what the file was lowered to, or the snapshot decoded to
          active,    \* the router in use, None before anything was accepted
          previous,  \* the router that was exported last
          wire,      \* the last export
          accepted,  \* the answer of the last load or apply
          round      \* exports applied again: 0 to 2
vars == <<http, active, previous, wire, accepted, round>>

OrZero(v) == IF v = None THEN 0 ELSE v
ValueOr(v, default) == IF v = None THEN default ELSE v
Unspecified(v, default) == IF v = "unspecified" THEN default ELSE v
Map(s, Op(_)) == [i \in DOMAIN s |-> Op(s[i])]
All(s, Test(_)) == \A i \in DOMAIN s : Test(s[i])

---------------------------------------------------------------------------
(* Export *)

\* Export of a usize: too large for the wire form, it is cut off, or left out.
Saturated(n) == Min({n, MaxU32})
ZeroIfLarge(n) == IF n > MaxU32 THEN 0 ELSE n

EncodeTlsOptions(t) == [verify |-> t.verify, trusted |-> t.trusted, cert |-> t.cert, key |-> t.key]

EncodeUpstream(u) ==
    [name |-> u.name, allow_empty |-> u.allow_empty, policy |-> u.policy, hash_key |-> u.hash_key,
     health |-> IF u.health = None THEN None
                ELSE [u.health EXCEPT !.success = Saturated(@), !.failure = Saturated(@)],
     backends |-> u.servers,
     nrf |-> IF u.nrf = None THEN None ELSE [u.nrf EXCEPT !.tls = EncodeTlsOptions(u.nrf.tls)]]

EncodePass(t) ==
    [scheme |-> IF t.tls THEN "https" ELSE "http",
     host |-> IF t.kind = "proxy" THEN t.host ELSE None,
     port |-> IF t.kind = "proxy" THEN t.port ELSE 0,
     group |-> IF t.kind = "group" THEN t.name ELSE None]

EncodeTarget(t) ==
    CASE t.kind \in {"proxy", "group"} -> [kind |-> "upstream", upstream |-> EncodePass(t)]
      [] t.kind = "weighted" ->
            [kind |-> "weighted", backends |-> Map(t.backends, LAMBDA b :
                [weight |-> b.weight, target |-> IF b.target.kind = "direct" THEN [status |-> b.target.status]
                                                 ELSE [upstream |-> EncodePass(b.target)]])]
      [] OTHER -> t

EncodeCache(c) ==
    [enabled |-> IF c.enabled THEN "on" ELSE "off", max_size |-> OrZero(c.max_size), ttl |-> OrZero(c.ttl),
     stale |-> OrZero(c.stale), key |-> c.key, min_uses |-> ZeroIfLarge(OrZero(c.min_uses)),
     statuses |-> c.statuses]

EncodeRoute(l) ==
    [match |-> l.matcher, action |-> EncodeTarget(l.target), access |-> l.access, plugins |-> l.plugins,
     limits |-> l.limits, rewrite |-> l.rewrite, http2 |-> l.http2, tls |-> EncodeTlsOptions(l.tls),
     timeouts |-> [n \in DOMAIN l.timeouts |-> OrZero(l.timeouts[n])],
     protocol |-> ValueOr(l.protocol, "unspecified"),
     cache |-> IF l.cache = None THEN None ELSE EncodeCache(l.cache)]

KeyBefore(a, b) ==
    \/ a.addr < b.addr
    \/ a.addr = b.addr /\ a.port < b.port
    \/ a.addr = b.addr /\ a.port = b.port /\ ~a.ssl /\ b.ssl
\* The elements of a set, each where it has as many others before it.
Ordered(S, Before(_, _)) ==
    [n \in 1 .. Cardinality(S) |-> CHOOSE x \in S : Cardinality({y \in S : Before(y, x)}) = n - 1]
ListenerKeys(router) == Ordered(DOMAIN router.listeners, KeyBefore)

EncodeListener(name, key, l) ==
    [name |-> name, addr |-> key.addr, port |-> key.port, tls |-> key.ssl,
     http2 |-> l.protocols.http2, http2_only |-> l.protocols.http2_only,
     options |-> IF l.tls = None THEN None ELSE
        LET s == l.tls.settings IN
        [min |-> IF s.protocols = {} THEN 0 ELSE Min(s.protocols),
         max |-> IF s.protocols = {} THEN 0 ELSE Max(s.protocols), verify |-> s.verify, ca |-> s.ca]]

\* Mutant: hosts with the same routes share an entry and its certificate.
MergeByRoutes(out, vhost) ==
    LET same == {i \in DOMAIN out : out[i].routes = vhost.routes} IN
    IF same = {} THEN Append(out, vhost)
    ELSE [out EXCEPT ![Min(same)].server_names = @ \o vhost.server_names]
\* Hosts in order, those with the same routes and certificate in one entry.
MergeOrPush(out, vhost) ==
    LET same == {i \in DOMAIN out : out[i].routes = vhost.routes /\ out[i].tls = vhost.tls} IN
    IF same = {} THEN Append(out, vhost)
    ELSE [out EXCEPT ![Min(same)].server_names = @ \o vhost.server_names]

EncodeHosts(name, l) ==
    LET hosts == Ordered(DOMAIN l.named, <)
        identity(h) == IF l.tls = None THEN None
                       ELSE IF h \in DOMAIN l.tls.named THEN l.tls.named[h] ELSE l.tls.default
        vhost(h) == [listener |-> name, server_names |-> <<h>>, default_server |-> FALSE,
                     tls |-> identity(h), routes |-> Map(l.named[h], EncodeRoute)] IN
    FoldLeft(MergeOrPush, <<>>, Map(hosts, vhost))

EncodeVirtualHosts(name, l) ==
    LET hosts == EncodeHosts(name, l)
        tls == IF l.tls = None THEN None ELSE l.tls.default
        routes == Map(l.default.routes, EncodeRoute)
        same == {i \in DOMAIN hosts : hosts[i].routes = routes /\ hosts[i].tls = tls} IN
    CASE l.default = None -> hosts
      [] l.default # None /\ same # {} -> [hosts EXCEPT ![Min(same)].default_server = TRUE]
      [] OTHER -> Append(hosts, [listener |-> name, server_names |-> <<>>, default_server |-> TRUE,
                                 tls |-> tls, routes |-> routes])

EncodeOptions(o) ==
    [client_header_timeout |-> o.client_header_timeout, client_body_timeout |-> o.client_body_timeout,
     send_timeout |-> o.send_timeout, keepalive |-> OrZero(o.keepalive),
     keepalive_requests |-> OrZero(o.keepalive_requests), client_max_body_size |-> OrZero(o.client_max_body_size),
     proxy_cache_max_size |-> OrZero(o.proxy_cache_max_size), connect |-> o.connect, h2c |-> o.h2c,
     http2 |-> o.http2, real_ip |-> o.real_ip]

proto_snapshot_from_runtime(r) ==
    LET keys == ListenerKeys(r) IN
    [http |-> EncodeOptions(r.options),
     listeners |-> [i \in DOMAIN keys |-> EncodeListener(i, keys[i], r.listeners[keys[i]])],
     vhosts |-> FlattenSeq([i \in DOMAIN keys |-> EncodeVirtualHosts(i, r.listeners[keys[i]])]),
     upstreams |-> Map(Ordered({r.upstreams[c] : c \in DOMAIN r.upstreams},
                               LAMBDA a, b : a.name < b.name), EncodeUpstream),
     profiles |-> Ordered(r.profiles, LAMBDA a, b : a.name < b.name),
     geoip |-> r.geoip, le |-> r.le]

---------------------------------------------------------------------------
(* Import: each message is refused or decoded *)

TlsOptionsOK(t) == t # None => ((t.cert = None) <=> (t.key = None))
DecodeTlsOptions(t) == [t EXCEPT !.verify = Unspecified(@, "on")]

WireBackendOK(b) == b.host # None /\ b.port \in 1..65535 /\ b.weight <= MaxWeight
WireHealthOK(h) ==
    /\ h.type # None /\ h.timeout > 0 /\ h.interval > 0 /\ h.success > 0 /\ h.failure > 0
    /\ h.type = "http" => h.host # None /\ h.path # None
WireNrfOK(n) ==
    /\ n.scheme # "unspecified" /\ TlsOptionsOK(n.tls) /\ n.api_root # None
    /\ \A i \in DOMAIN n.query : n.query[i] # None

WireUpstreamOK(u) ==
    /\ All(u.backends, WireBackendOK)
    /\ u.backends = <<>> /\ u.nrf = None => u.allow_empty
    /\ u.backends = <<>> \/ u.nrf = None
    /\ u.hash_key # None => u.hash_key.by # "unspecified"
    /\ u.nrf # None => WireNrfOK(u.nrf)
    /\ u.health # None => WireHealthOK(u.health)

IfZero(v, default) == IF v = 0 THEN default ELSE v

DecodeNrf(n) ==
    [n EXCEPT !.timeout = IfZero(@, 3000), !.stale = IfZero(@, 60000),
              !.tls = IF @ = None THEN TlsOptions("on", None, None, None) ELSE DecodeTlsOptions(@)]
DecodeUpstream(u) ==
    [name |-> u.name, allow_empty |-> u.allow_empty, hash_key |-> u.hash_key, health |-> u.health,
     policy |-> Unspecified(u.policy, "round_robin"),
     servers |-> Map(u.backends, LAMBDA b : [b EXCEPT !.weight = IfZero(@, 1)]),
     nrf |-> IF u.nrf = None THEN None ELSE DecodeNrf(u.nrf)]

WirePassOK(u) ==
    /\ u.scheme \in {"http", "https"}
    /\ IF u.group = None THEN u.host # None /\ u.port # 0 ELSE u.host = None /\ u.port = 0
DecodePass(u) ==
    IF u.group # None THEN [group |-> u.group, tls |-> u.scheme = "https"]
    ELSE [url |-> [scheme |-> u.scheme, host |-> u.host, bare |-> TRUE,
                   port |-> IF u.port = DefaultPort(u.scheme = "https") THEN None ELSE u.port]]

WireBackendTargetOK(b) == b.target # None /\ ("upstream" \in DOMAIN b.target => WirePassOK(b.target.upstream))
WireActionOK(a) ==
    /\ a # None
    /\ CASE a.kind = "upstream" -> WirePassOK(a.upstream)
         [] a.kind = "weighted" -> All(a.backends, WireBackendTargetOK)
         [] a.kind = "return" -> a.status \in 300..399 /\ a.location # None
         [] OTHER -> TRUE

DecodeAction(a) ==
    CASE a.kind = "upstream" -> [d |-> "proxy_pass", v |-> DecodePass(a.upstream)]
      [] a.kind = "weighted" ->
            [d |-> "weighted_backends", v |-> Map(a.backends, LAMBDA b :
                [weight |-> ValueOr(b.weight, 1),
                 target |-> IF "upstream" \in DOMAIN b.target THEN DecodePass(b.target.upstream) ELSE b.target])]
      [] a.kind = "direct" -> [d |-> "direct_response", v |-> a.status]
      [] a.kind = "scp" -> [d |-> "scp_pass", v |-> a.profile]
      [] a.kind = "return" -> [d |-> "return", v |-> [status |-> a.status, location |-> a.location]]
      [] a.kind = "redirect" -> [d |-> "http_redirect", v |-> [a.redirect EXCEPT !.status = IfZero(@, 302)]]

WireRouteOK(r) ==
    /\ r.match # None /\ WireActionOK(r.action) /\ TlsOptionsOK(r.tls)
    /\ All(r.access, LAMBDA a : a.action \in {"allow", "deny"})
    /\ All(r.plugins, LAMBDA p : p # None)
    /\ r.cache # None => All(r.cache.statuses, LAMBDA status : status <= 65535)

\* A plain number becomes a directive when it is not 0, an optional one when set.
Directive(name, v) == IF v = None THEN <<>> ELSE <<[d |-> name, v |-> v]>>

DecodeCache(c) ==
    [enabled |-> c.enabled # "off", max_size |-> NoneIfZero(c.max_size), ttl |-> IfZero(c.ttl, 60000),
     stale |-> NoneIfZero(c.stale), key |-> Unspecified(c.key, "uri"), min_uses |-> NoneIfZero(c.min_uses),
     statuses |-> IF c.statuses = <<>> THEN <<200, 301, 404>> ELSE c.statuses]

DecodeTls(t) ==
    IF t = None THEN <<>> ELSE
    Directive("proxy_ssl_verify", DecodeTlsOptions(t).verify)
    \o Directive("proxy_ssl_trusted_certificate", t.trusted)
    \o Directive("proxy_ssl_certificate", t.cert) \o Directive("proxy_ssl_certificate_key", t.key)

location_from_proto_route(r) ==
    [matcher |-> r.match, access |-> r.access, plugins |-> r.plugins,
     cache |-> IF r.cache = None THEN None ELSE DecodeCache(r.cache),
     directives |->
        (IF r.timeouts = None THEN <<>> ELSE
           Directive("proxy_connect_timeout", NoneIfZero(r.timeouts.connect))
           \o Directive("proxy_read_timeout", NoneIfZero(r.timeouts.read))
           \o Directive("proxy_write_timeout", NoneIfZero(r.timeouts.write)))
        \o DecodeTls(r.tls)
        \o Directive("proxy_upstream_protocol", Unspecified(r.protocol, None))
        \o (IF r.http2 = None THEN <<>> ELSE
             Directive("proxy_http2_max_concurrent_streams", r.http2.max_concurrent_streams)
             \o Directive("proxy_http2_stream_window_size", r.http2.stream_window_size)
             \o Directive("proxy_http2_connection_window_size", r.http2.connection_window_size))
        \o <<DecodeAction(r.action)>>
        \o Directive("url_rewrite", r.rewrite)
        \o Directive("client_max_body_size", r.limits.max_body_size)
        \o Directive("client_body_timeout", r.limits.body_timeout)
        \o Directive("send_timeout", r.limits.send_timeout)
        \o Directive("allow_methods", IF r.limits.methods = <<>> THEN None ELSE r.limits.methods)]

NoTlsSettings == [protocols |-> {}, verify |-> "off", ca |-> None]
DecodeSettings(o) ==
    IF o = None THEN NoTlsSettings
    ELSE [protocols |-> IF o.min = 0 THEN {} ELSE o.min .. o.max, verify |-> Unspecified(o.verify, "off"), ca |-> o.ca]

WireListenerOK(l) ==
    /\ l.port <= 65535
    /\ l.options # None => \/ l.options.min = 0 /\ l.options.max = 0
                           \/ 0 < l.options.min /\ l.options.min <= l.options.max
    /\ ~l.tls => DecodeSettings(l.options) = NoTlsSettings

ListenerOf(w, name) == w.listeners[CHOOSE i \in DOMAIN w.listeners : w.listeners[i].name = name]

server_from_proto_virtual_host(l, v) ==
    [server_names |-> v.server_names, locations |-> Map(v.routes, location_from_proto_route),
     listens |-> <<[addr |-> l.addr, port |-> l.port, ssl |-> l.tls, default_server |-> v.default_server,
                    http2 |-> l.http2, http2_only |-> l.http2_only]>>,
     tls |-> IF v.tls = None THEN None ELSE [provider |-> "custom", cert |-> v.tls.cert, key |-> v.tls.key],
     tls_options |-> DecodeSettings(l.options)]

VirtualHostOK(w, v) ==
    /\ \E i \in DOMAIN w.listeners : w.listeners[i].name = v.listener
    /\ ListenerOf(w, v.listener).tls <=> v.tls # None
    /\ v.tls # None => v.tls.cert # None /\ v.tls.key # None
    /\ All(v.routes, WireRouteOK)

WireOK(w) ==
    /\ All(w.listeners, WireListenerOK)
    /\ \A i, j \in DOMAIN w.listeners : w.listeners[i].name = w.listeners[j].name => i = j
    /\ \A i \in DOMAIN w.vhosts : VirtualHostOK(w, w.vhosts[i])
    /\ All(w.upstreams, WireUpstreamOK)

NoOptions == [client_header_timeout |-> None, client_body_timeout |-> None, send_timeout |-> None, keepalive |-> 0,
              keepalive_requests |-> 0, client_max_body_size |-> 0, proxy_cache_max_size |-> 0,
              connect |-> FALSE, h2c |-> FALSE, http2 |-> None, real_ip |-> None]

OnOff(b) == IF b THEN "on" ELSE "off"

http_from_proto_snapshot(w) ==
    LET o == ValueOr(w.http, NoOptions) IN
    [client_header_timeout |-> o.client_header_timeout, client_body_timeout |-> o.client_body_timeout,
     send_timeout |-> o.send_timeout, keepalive |-> IF o.keepalive = 0 THEN None ELSE 1000 * o.keepalive,
     keepalive_requests |-> NoneIfZero(o.keepalive_requests),
     client_max_body_size |-> NoneIfZero(o.client_max_body_size),
     proxy_cache_max_size |-> NoneIfZero(o.proxy_cache_max_size),
     tcp_nodelay |-> "on", connect |-> OnOff(o.connect), h2c |-> OnOff(o.h2c),
     http2 |-> ValueOr(o.http2, [n \in Http2Names |-> None]),
     real_ip |-> IF o.real_ip = None THEN None ELSE
        [o.real_ip EXCEPT !.header = ValueOr(@, "x-forwarded-for"), !.recursive = ValueOr(@, TRUE)],
     le |-> w.le,
     geoip |-> IF w.geoip = None THEN None ELSE [w.geoip EXCEPT !.interval = ValueOr(@, 5000)],
     profiles |-> w.profiles, upstreams |-> Map(w.upstreams, DecodeUpstream),
     servers |-> Map(w.vhosts, LAMBDA v : server_from_proto_virtual_host(ListenerOf(w, v.listener), v))]

runtime_snapshot_from_proto(w) == IF WireOK(w) THEN from_http(http_from_proto_snapshot(w)) ELSE Rejected

---------------------------------------------------------------------------
(* What the inputs look like: the parser gives blocks and arguments as     *)
(* lists, names in the order of their characters, sockets of an address    *)
(* and a port; protobuf gives repeated fields as lists.                    *)

IsList(s) == s \in Seq({s[i] : i \in DOMAIN s})

ServerText(b) ==
    /\ IsList(b.c)
    /\ \A i \in DOMAIN b.c :
         LET d == b.c[i] IN
         /\ d.n = "server_name" => d.a \in Seq(DOMAIN Canon)
         /\ d.n = "listen" /\ d.a # <<>> /\ d.a[1] # Bad => d.a[1].addr \in Nat /\ d.a[1].port \in Nat
HttpText(b) ==
    /\ IsList(b.c)
    /\ \A i \in DOMAIN b.c : IsBlock(b.c[i]) /\ b.c[i].n = "server" => ServerText(b.c[i])

WireMessage(w) ==
    /\ IsList(w.vhosts)
    /\ \A i \in DOMAIN w.vhosts : w.vhosts[i].server_names \in Seq(DOMAIN Canon) /\ IsList(w.vhosts[i].routes)
    /\ \A i \in DOMAIN w.listeners :
         LET l == w.listeners[i] IN l.addr \in Nat /\ l.port \in Nat /\ l.tls \in BOOLEAN

ASSUME TextsAssumption == \A f \in DOMAIN Texts : \A i \in DOMAIN Texts[f] : HttpText(Texts[f][i])
ASSUME WiresAssumption == \A f \in DOMAIN Wires : \A i \in DOMAIN Wires[f] : WireMessage(Wires[f][i])

---------------------------------------------------------------------------
(* The workflow *)

Init ==
    /\ http = None /\ active = None /\ previous = None /\ wire = None
    /\ accepted = FALSE /\ round = 0

\* A refused configuration leaves the active one in place.
Apply(router) == /\ accepted' = (router # Rejected)
                 /\ active' = IF router = Rejected THEN active ELSE router

\* The server starts with a configuration file.
LoadFile(b) ==
    /\ active = None /\ http = None
    /\ http' = IF HttpOK(b) THEN LowerHttp(b) ELSE None
    /\ Apply(IF HttpOK(b) /\ validate(LowerHttp(b)) THEN from_http(LowerHttp(b)) ELSE Rejected)
    /\ UNCHANGED <<previous, wire, round>>

ApplySnapshot(w) ==
    /\ active = None /\ http = None
    /\ http' = IF WireOK(w) THEN http_from_proto_snapshot(w) ELSE None
    /\ Apply(runtime_snapshot_from_proto(w))
    /\ UNCHANGED <<previous, wire, round>>

GetSnapshot ==
    /\ active # None /\ wire = None /\ round < 2
    /\ wire' = proto_snapshot_from_runtime(active)
    /\ previous' = active
    /\ UNCHANGED <<http, active, accepted, round>>

\* A client sends back what it has read.
Reapply ==
    /\ wire # None
    /\ Apply(runtime_snapshot_from_proto(wire))
    /\ wire' = None /\ round' = round + 1
    /\ UNCHANGED <<http, previous>>

\* Another process, another configuration.
Restart ==
    /\ http # None \/ active # None
    /\ http' = None /\ active' = None /\ previous' = None /\ wire' = None
    /\ accepted' = FALSE /\ round' = 0

Next ==
    \/ \E f \in DOMAIN Texts : \E i \in DOMAIN Texts[f] : LoadFile(Texts[f][i])
    \/ \E f \in DOMAIN Wires : \E i \in DOMAIN Wires[f] : ApplySnapshot(Wires[f][i])
    \/ GetSnapshot
    \/ Reapply
    \/ Restart

Spec == Init /\ [][Next]_vars

---------------------------------------------------------------------------
(* Properties *)

RoutesOf(l) == (UNION {ToSet(l.named[n]) : n \in DOMAIN l.named})
               \cup (IF l.default = None THEN {} ELSE ToSet(l.default.routes))

Upstreams(t) == IF t.kind = "weighted" THEN {t.backends[i].target : i \in DOMAIN t.backends} ELSE {t}

\* A route can be served by this router on this listener.
Servable(route, r, key, l) ==
    LET h2 == IF key.ssl THEN l.protocols.http2 \/ l.protocols.http2_only ELSE r.options.h2c IN
    /\ \A t \in Upstreams(route.target) :
         /\ t.kind = "group" => /\ Canon[t.name] \in DOMAIN r.upstreams
                                /\ SchemeFits(r.upstreams[Canon[t.name]], t.tls)
         /\ t.kind \in {"group", "proxy"} /\ route.protocol = "h2" => t.tls
         /\ t.kind \in {"group", "proxy"} /\ route.protocol = "h2c" => ~t.tls
    /\ route.target.kind = "scp" => /\ h2 /\ route.cache = None
                                    /\ \E p \in r.profiles : p.name = route.target.profile
    /\ CertPairOK(route.tls)
    /\ h2 => ~Set(route.limits.body_timeout) /\ ~Set(r.options.client_body_timeout)

\* A router that can be served.
Sound(r) ==
    /\ \A k \in DOMAIN r.listeners :
         LET l == r.listeners[k] IN
         /\ l.default # None \/ DOMAIN l.named # {}
         /\ IF k.ssl THEN l.tls.default # None /\ DOMAIN l.tls.named = DOMAIN l.named ELSE l.tls = None
         /\ \A route \in RoutesOf(l) : Servable(route, r, k, l)
    /\ \A c \in DOMAIN r.upstreams :
         LET u == r.upstreams[c] IN
         /\ Sum([i \in DOMAIN u.servers |-> u.servers[i].weight]) <= MaxWeight
         /\ u.servers # <<>> \/ u.nrf # None \/ u.allow_empty
    /\ \A p \in r.profiles : \A g \in ToSet(p.upstreams) : r.upstreams[g].nrf # None

\* Whatever is accepted, from a file or through gRPC, can be served: every
\* listener has a server, a TLS listener a certificate for every name and for
\* none, every group its endpoints' total weight within u16, an SCP profile
\* only groups discovered through NRF, and every route is Servable.
RouterSound == active # None => Sound(active)

\* The gRPC path never runs Ir::validate, so its rules have to be repeated by
\* the decoder and the compiler: what those two accept, validate accepts, but
\* for a configuration without servers.
SameRules ==
    http # None /\ from_http(http) # Rejected => validate(http) \/ http.servers = <<>>

NormalTarget(t, groups) ==
    IF t.kind = "proxy" /\ t.port = DefaultPort(t.tls) /\ Canon[t.host] \in DOMAIN groups
    THEN [kind |-> "group", name |-> groups[Canon[t.host]].name, tls |-> t.tls]
    ELSE t
NormalRoute(l, groups) ==
    [l EXCEPT !.target = IF @.kind = "weighted"
                         THEN [@ EXCEPT !.backends = Map(@, LAMBDA b : [b EXCEPT !.target = NormalTarget(@, groups)])]
                         ELSE NormalTarget(@, groups),
              !.timeouts = [n \in DOMAIN @ |-> NoneIfZero(@[n])],
              !.cache = IF @ = None THEN None
                        ELSE [@ EXCEPT !.ttl = IfZero(@, 60000), !.max_size = NoneIfZero(@), !.stale = NoneIfZero(@),
                                       !.min_uses = IF @ # None /\ @ > MaxU32 THEN None ELSE @]]
NormalUpstream(u) ==
    [u EXCEPT !.health = IF @ = None THEN None
                         ELSE [@ EXCEPT !.success = Min({@, MaxU32}), !.failure = Min({@, MaxU32})]]
NormalListener(l, groups) ==
    LET routes(s) == Map(s, LAMBDA x : NormalRoute(x, groups)) IN
    [l EXCEPT !.named = [n \in DOMAIN @ |-> routes(@[n])],
              !.default = IF @ = None THEN None ELSE [routes |-> routes(@.routes)],
              !.tls = IF @ = None \/ l.default # None THEN @
                      ELSE [@ EXCEPT !.default = l.tls.named[Min(DOMAIN l.tls.named)]]]
Normal(r) ==
    [r EXCEPT !.listeners = [k \in DOMAIN @ |-> NormalListener(@[k], r.upstreams)],
              !.upstreams = [c \in DOMAIN @ |-> NormalUpstream(@[c])],
              !.options.keepalive_requests = NoneIfZero(@), !.options.proxy_cache_max_size = NoneIfZero(@)]

\* A target that is read back as a group of the other scheme.
NrfClash(r) ==
    \E k \in DOMAIN r.listeners : \E route \in RoutesOf(r.listeners[k]) : \E t \in Upstreams(route.target) :
        LET n == NormalTarget(t, r.upstreams) IN
        n.kind = "group" /\ ~SchemeFits(r.upstreams[Canon[n.name]], n.tls)

\* What GetSnapshot writes, ApplySnapshot accepts and turns into the same
\* router, except for what the wire form cannot say: zeros that mean "not
\* set", numbers above u32::MAX (proxy_cache_min_uses is not set afterwards,
\* thresholds of a health check become u32::MAX), a host on the default port
\* that is the name of a group, and the certificate for unknown names of a
\* listener that has no default server.
\* The one export that is refused is a host read back as an NRF group whose
\* scheme is the other one.
ExportLosesOnly ==
    round = 1 /\ wire = None =>
        IF NrfClash(previous) THEN ~accepted /\ active = previous
        ELSE accepted /\ active = Normal(previous)

\* The losses happen once: exporting and applying a second time is exact, so
\* a client that copies the configuration back and forth does not drift.
SettlesAfterOneRound == round = 2 => active = previous

\* What the server exports, it can be given back.
RoundTrip == ExportLosesOnly /\ SettlesAfterOneRound
============================================================================
