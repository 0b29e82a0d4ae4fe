---------------------------- MODULE ConfigLower ----------------------------
(***************************************************************************)
(* Lowering of the parsed configuration text into the representation that  *)
(* the runtime compiles (crates/ngxora-compile, Ir::from_ast).             *)
(*                                                                         *)
(* A node is a directive [n |-> name, a |-> arguments] or a block, which   *)
(* also has children c.  Every function of the code either returns a value *)
(* or an error that ends the lowering, so a block b is described by two    *)
(* operators: ...OK(b), whether it is accepted, and Lower...(b), the value *)
(* it has then.  Arguments are values already read from their characters;  *)
(* Bad is an argument that does not parse, None an absent option.          *)
(* Durations and sizes are numbers, a PEM source is [src, id], a URL is    *)
(* [scheme, host, port, bare] with port = None for the scheme's default    *)
(* (Url::parse drops it) and bare when it has nothing after the port.      *)
(* Host and group names are numbers in the order of their characters.      *)
(***************************************************************************)
EXTENDS Naturals, Sequences, SequencesExt

CONSTANTS None, Bad,
          MaxWindow,   \* i32::MAX, the largest HTTP/2 window
          MaxU32,      \* u32::MAX, the largest plain number of the wire form
          AtNames      \* location paths that begin with @

\* The elements of s at these places, in their order.
Kept(s, places) == FlattenSeq([i \in DOMAIN s |-> IF i \in places THEN <<s[i]>> ELSE <<>>])

IsBlock(n) == "c" \in DOMAIN n
Directives(b) == Kept(b.c, {i \in DOMAIN b.c : ~IsBlock(b.c[i])})
Blocks(b) == Kept(b.c, {i \in DOMAIN b.c : IsBlock(b.c[i])})
Named(nodes, name) == Kept(nodes, {i \in DOMAIN nodes : nodes[i].n = name})
Given(b, name) == Named(Directives(b), name)
GivenBlocks(b, name) == Named(Blocks(b), name)

\* The value of the last directive of that name: later ones overwrite.
LastOr(ds, default) == IF ds = <<>> THEN default ELSE Last(ds).a[1]
Value(d) == d.a[1]

One(d) == Len(d.a) = 1 /\ d.a[1] # Bad
Switch(d) == One(d) /\ Value(d) \in {"on", "off"}
Positive(d) == One(d) /\ Value(d) > 0
Window(d) == Positive(d) /\ Value(d) <= MaxWindow
U32(d) == Positive(d) /\ Value(d) <= MaxU32
AtMostOne(s) == Len(s) <= 1

---------------------------------------------------------------------------
(* Upstream blocks *)

Keys == {"api_root", "target_nf_type", "requester_nf_type", "service_name"}

NrfDirectiveOK(d) ==
    CASE d.n \in Keys -> One(d)
      [] d.n = "endpoint_scheme" -> One(d) /\ Value(d) \in {"http", "https"}
      [] d.n \in {"timeout", "stale_if_error"} -> Positive(d)
      [] d.n = "ssl_verify" -> Switch(d)
      [] d.n \in {"ssl_trusted_certificate", "ssl_certificate", "ssl_certificate_key"} -> One(d)
      [] OTHER -> FALSE

NrfOK(b) ==
    /\ b.a = <<>> /\ Blocks(b) = <<>>
    /\ \A i \in DOMAIN b.c : NrfDirectiveOK(b.c[i])
    /\ \A i \in DOMAIN b.c : b.c[i].n # "ssl_verify" => AtMostOne(Given(b, b.c[i].n))
    /\ \A k \in Keys \cup {"endpoint_scheme"} : Given(b, k) # <<>>

TlsOptions(verify, trusted, cert, key) ==
    [verify |-> verify, trusted |-> trusted, cert |-> cert, key |-> key]

LowerNrf(b) ==
    LET v(n, default) == LastOr(Given(b, n), default) IN
    [query |-> <<v("target_nf_type", None), v("service_name", None), v("requester_nf_type", None)>>,
     api_root |-> v("api_root", None), scheme |-> v("endpoint_scheme", None),
     timeout |-> v("timeout", 3000), stale |-> v("stale_if_error", 60000),
     tls |-> TlsOptions(v("ssl_verify", "on"), v("ssl_trusted_certificate", None),
                        v("ssl_certificate", None), v("ssl_certificate_key", None))]

HealthDirectiveOK(d) ==
    CASE d.n = "type" -> One(d) /\ Value(d) \in {"tcp", "http"}
      [] d.n \in {"timeout", "interval", "consecutive_success", "consecutive_failure"} -> Positive(d)
      [] d.n \in {"host", "path"} -> One(d)
      [] d.n = "use_tls" -> Switch(d)
      [] OTHER -> FALSE

HealthOK(b) ==
    /\ b.a = <<>> /\ Blocks(b) = <<>>
    /\ \A i \in DOMAIN b.c : HealthDirectiveOK(b.c[i]) /\ AtMostOne(Given(b, b.c[i].n))
    /\ IF LastOr(Given(b, "type"), "tcp") = "tcp"
       THEN \A n \in {"host", "path", "use_tls"} : Given(b, n) = <<>>
       ELSE Given(b, "host") # <<>>

LowerHealth(b) ==
    LET v(n, default) == LastOr(Given(b, n), default)
        kind == v("type", "tcp") IN
    [type |-> kind, host |-> v("host", None),
     path |-> v("path", IF kind = "tcp" THEN None ELSE "/"),
     use_tls |-> v("use_tls", "off") = "on",
     timeout |-> v("timeout", 1000), interval |-> v("interval", 5000),
     success |-> v("consecutive_success", 1), failure |-> v("consecutive_failure", 1)]

\* An upstream server: its address and at most one positive weight.
BackendOK(d) ==
    /\ d.a # <<>> /\ d.a[1] # Bad
    /\ Len(d.a) <= 2
    /\ Len(d.a) = 2 => d.a[2] # Bad /\ d.a[2].weight > 0
LowerBackend(d) == [host |-> d.a[1].host, port |-> d.a[1].port,
                    weight |-> IF Len(d.a) = 2 THEN d.a[2].weight ELSE 1]

HashKeyOK(d) == \/ d.a = <<"client_ip">>
                \/ Len(d.a) = 2 /\ d.a[1] = "header" /\ d.a[2] # Bad
LowerHashKey(d) == IF Len(d.a) = 1 THEN [by |-> "client_ip"] ELSE [by |-> "header", name |-> d.a[2]]

UpstreamDirectiveOK(d) ==
    CASE d.n = "server" -> BackendOK(d)
      [] d.n = "policy" -> One(d) /\ Value(d) \in {"round_robin", "random", "consistent_hash"}
      [] d.n = "hash_key" -> HashKeyOK(d)
      [] OTHER -> FALSE

UpstreamOK(b) ==
    /\ One(b)
    /\ \A i \in DOMAIN Directives(b) : UpstreamDirectiveOK(Directives(b)[i])
    /\ AtMostOne(Given(b, "hash_key"))
    /\ AtMostOne(GivenBlocks(b, "health_check")) /\ AtMostOne(GivenBlocks(b, "nrf_discovery"))
    /\ \A i \in DOMAIN Blocks(b) :
         LET n == Blocks(b)[i] IN CASE n.n = "health_check" -> HealthOK(n)
                                    [] n.n = "nrf_discovery" -> NrfOK(n)
                                    [] OTHER -> FALSE

LowerUpstream(b) ==
    LET servers == Given(b, "server")
        hash == Given(b, "hash_key")
        health == GivenBlocks(b, "health_check")
        nrf == GivenBlocks(b, "nrf_discovery") IN
    [name |-> Value(b), allow_empty |-> FALSE,
     policy |-> LastOr(Given(b, "policy"), "round_robin"),
     hash_key |-> IF hash = <<>> THEN None ELSE LowerHashKey(hash[1]),
     servers |-> [i \in DOMAIN servers |-> LowerBackend(servers[i])],
     health |-> IF health = <<>> THEN None ELSE LowerHealth(health[1]),
     nrf |-> IF nrf = <<>> THEN None ELSE LowerNrf(nrf[1])]

ScpOK(b) ==
    /\ One(b) /\ Blocks(b) = <<>> /\ AtMostOne(Given(b, "api_root"))
    /\ \A i \in DOMAIN b.c :
         b.c[i].n \in {"api_root", "discovery_upstream", "allow_target_api_root"} /\ One(b.c[i])
LowerScp(b) ==
    LET all(n) == [i \in DOMAIN Given(b, n) |-> Value(Given(b, n)[i])] IN
    [name |-> Value(b), api_root |-> LastOr(Given(b, "api_root"), None),
     upstreams |-> all("discovery_upstream"), targets |-> all("allow_target_api_root")]

---------------------------------------------------------------------------
(* Locations *)

CacheDefault == [enabled |-> TRUE, max_size |-> None, ttl |-> 60000, stale |-> None,
                 key |-> "uri", min_uses |-> None, statuses |-> <<200, 301, 404>>]

CacheFields == {"proxy_cache_ttl", "proxy_cache_stale_if_error", "proxy_cache_key",
                "proxy_cache_min_uses", "proxy_cache_valid", "proxy_cache_max_size"}

CacheFieldOK(d) ==
    CASE d.n = "proxy_cache" -> d.a \in {<<>>, <<"on">>}   \* off is refused inside the block
      [] d.n = "proxy_cache_key" -> One(d) /\ Value(d) \in {"uri", "uri_and_method", "normalized_uri"}
      [] d.n = "proxy_cache_min_uses" -> Positive(d)
      [] d.n = "proxy_cache_valid" -> d.a # <<>> /\ \A i \in DOMAIN d.a : d.a[i] # Bad
      [] d.n \in CacheFields -> One(d)
      [] OTHER -> TRUE                                     \* other directives are ignored

\* One directive of a proxy_cache block: on starts again from the defaults.
ApplyCacheDirective(cache, d) ==
    CASE d.n = "proxy_cache" -> CacheDefault
      [] d.n = "proxy_cache_ttl" -> [cache EXCEPT !.ttl = Value(d)]
      [] d.n = "proxy_cache_stale_if_error" -> [cache EXCEPT !.stale = Value(d)]
      [] d.n = "proxy_cache_key" -> [cache EXCEPT !.key = Value(d)]
      [] d.n = "proxy_cache_min_uses" -> [cache EXCEPT !.min_uses = Value(d)]
      [] d.n = "proxy_cache_valid" -> [cache EXCEPT !.statuses = d.a]
      [] d.n = "proxy_cache_max_size" -> [cache EXCEPT !.max_size = Value(d)]
      [] OTHER -> cache

\* A location has one proxy_cache directive or block.  A second one is a
\* duplicate, and so is a cache field beside it; without it a field is unknown.
CacheOK(b) ==
    LET nodes == SelectSeq(b.c, LAMBDA n : n.n = "proxy_cache" \/ n.n \in CacheFields) IN
    /\ AtMostOne(nodes)
    /\ \A i \in DOMAIN nodes :
         /\ nodes[i].n = "proxy_cache"
         /\ IF IsBlock(nodes[i])
            THEN /\ nodes[i].a = <<>> /\ Blocks(nodes[i]) = <<>>
                 /\ \A j \in DOMAIN nodes[i].c : CacheFieldOK(nodes[i].c[j])
            ELSE nodes[i].a \in {<<>>, <<"on">>, <<"off">>}

LowerCache(b) ==
    LET nodes == Named(b.c, "proxy_cache") IN
    IF nodes = <<>> THEN None
    ELSE IF IsBlock(nodes[1]) THEN FoldLeft(ApplyCacheDirective, CacheDefault, nodes[1].c)
    ELSE [CacheDefault EXCEPT !.enabled = nodes[1].a # <<"off">>]

AccessRule(d) == d.n \in {"allow", "deny"}

LocationDirectiveOK(d) ==
    CASE AccessRule(d) -> One(d)
      [] d.n = "proxy_cache" -> TRUE
      [] d.n = "allow_methods" -> d.a # <<>>
      [] d.n \in {"client_max_body_size", "client_body_timeout", "send_timeout", "scp_pass", "proxy_pass",
                  "proxy_connect_timeout", "proxy_read_timeout", "proxy_write_timeout",
                  "proxy_ssl_trusted_certificate", "proxy_ssl_certificate",
                  "proxy_ssl_certificate_key"} -> One(d)
      [] d.n = "proxy_http2_max_concurrent_streams" -> U32(d)
      [] d.n \in {"proxy_http2_stream_window_size", "proxy_http2_connection_window_size"} -> Window(d)
      [] d.n = "proxy_upstream_protocol" -> One(d) /\ Value(d) \in {"h1", "h2", "h2c"}
      [] d.n = "proxy_ssl_verify" -> Switch(d)
      [] d.n = "return" -> Len(d.a) = 2 /\ d.a[1] \in 300..399
      [] OTHER -> FALSE

DirectiveValue(d) ==
    CASE d.n = "allow_methods" -> d.a
      [] d.n = "return" -> [status |-> d.a[1], location |-> d.a[2]]
      [] d.n = "proxy_pass" -> [url |-> Value(d)]
      [] OTHER -> Value(d)

LocationOK(b) ==
    /\ Len(b.a) = 1 \/ (Len(b.a) = 2 /\ b.a[1] \in {"=", "~", "~*", "^~"})
    /\ CacheOK(b)
    /\ \A i \in DOMAIN Directives(b) : LocationDirectiveOK(Directives(b)[i])

Matcher(a) ==
    IF Len(a) = 1 THEN [kind |-> IF a[1] \in AtNames THEN "named" ELSE "prefix", path |-> a[1]]
    ELSE [kind |-> CASE a[1] = "=" -> "exact" [] a[1] = "~" -> "regex" [] a[1] = "~*" -> "iregex"
                     [] a[1] = "^~" -> "prefer_prefix",
          path |-> a[2]]

LowerLocation(b) ==
    LET ds == SelectSeq(Directives(b), LAMBDA d : d.n # "proxy_cache" /\ ~AccessRule(d))
        rules == SelectSeq(Directives(b), AccessRule)
        plugins == SelectSeq(Blocks(b), LAMBDA n : n.n # "proxy_cache") IN
    [matcher |-> Matcher(b.a), cache |-> LowerCache(b),
     access |-> [i \in DOMAIN rules |-> [action |-> rules[i].n, source |-> Value(rules[i])]],
     directives |-> [i \in DOMAIN ds |-> [d |-> ds[i].n, v |-> DirectiveValue(ds[i])]],
     plugins |-> [i \in DOMAIN plugins |-> plugins[i].n]]

---------------------------------------------------------------------------
(* Server blocks *)

ListenParams(d) == ToSet(Tail(d.a))
ListenOK(d) ==
    /\ d.a # <<>> /\ d.a[1] # Bad
    /\ ListenParams(d) \subseteq {"ssl", "default_server", "http2", "http2_only"}
    /\ ListenParams(d) \cap {"http2", "http2_only"} # {} => "ssl" \in ListenParams(d)
LowerListen(d) ==
    [addr |-> d.a[1].addr, port |-> d.a[1].port, ssl |-> "ssl" \in ListenParams(d),
     default_server |-> "default_server" \in ListenParams(d),
     http2 |-> ListenParams(d) \cap {"http2", "http2_only"} # {},
     http2_only |-> "http2_only" \in ListenParams(d)]

\* Versions 1, 2 and 3 are TLSv1, TLSv1.2 and TLSv1.3.
ProtocolBounds == {{1}, {2}, {3}, {2, 3}}

ServerDirectiveOK(d) ==
    CASE d.n = "listen" -> ListenOK(d)
      [] d.n = "server_name" -> d.a # <<>>
      [] d.n \in {"ssl_certificate", "ssl_certificate_key", "ssl_client_certificate"} -> Len(d.a) = 1
      [] d.n = "ssl_protocols" -> ToSet(d.a) \in ProtocolBounds
      [] d.n = "ssl_verify_client" -> One(d) /\ Value(d) \in {"off", "optional", "required"}
      [] OTHER -> FALSE

LowerServer(b) ==
    LET listens == Given(b, "listen")
        protocols == Given(b, "ssl_protocols")
        locations == Blocks(b) IN
    [server_names |-> FlattenSeq([i \in DOMAIN Given(b, "server_name") |-> Given(b, "server_name")[i].a]),
     listens |-> [i \in DOMAIN listens |-> LowerListen(listens[i])],
     locations |-> [i \in DOMAIN locations |-> LowerLocation(locations[i])],
     tls |-> IF Given(b, "ssl_certificate") \o Given(b, "ssl_certificate_key") = <<>> THEN None
             ELSE [provider |-> "custom", cert |-> LastOr(Given(b, "ssl_certificate"), None),
                   key |-> LastOr(Given(b, "ssl_certificate_key"), None)],
     tls_options |-> [protocols |-> IF protocols = <<>> THEN {} ELSE ToSet(Last(protocols).a),
                      verify |-> LastOr(Given(b, "ssl_verify_client"), "off"),
                      ca |-> LastOr(Given(b, "ssl_client_certificate"), None)]]

ServerOK(b) ==
    /\ \A i \in DOMAIN Directives(b) : ServerDirectiveOK(Directives(b)[i])
    /\ \A i \in DOMAIN Blocks(b) : Blocks(b)[i].n = "location" /\ LocationOK(Blocks(b)[i])
    /\ LowerServer(b).tls_options.verify # "off" => LowerServer(b).tls_options.ca # None

---------------------------------------------------------------------------
(* The http block *)

GeoIpOK(b) ==
    /\ b.a = <<>> /\ Blocks(b) = <<>>
    /\ \A i \in DOMAIN b.c :
         /\ b.c[i].n \in {"database", "reload_interval", "trusted_proxy"} /\ One(b.c[i])
         /\ b.c[i].n # "trusted_proxy" => AtMostOne(Given(b, b.c[i].n))
    /\ Given(b, "database") # <<>>
    /\ LastOr(Given(b, "reload_interval"), 5000) > 0
LowerGeoIp(b) ==
    LET proxies == Given(b, "trusted_proxy") IN
    [database |-> Value(Given(b, "database")[1]),
     interval |-> LastOr(Given(b, "reload_interval"), 5000),
     proxies |-> [i \in DOMAIN proxies |-> Value(proxies[i])]]

SslProviderOK(b) ==
    /\ b.a = <<"letsencrypt">> /\ Blocks(b) = <<>>
    /\ \A i \in DOMAIN b.c : b.c[i].n \in {"acme_directory", "email", "cache_dir"} /\ One(b.c[i])
LowerSslProvider(b) == [n \in {"acme_directory", "email", "cache_dir"} |-> LastOr(Given(b, n), None)]

Http2Names == {"max_concurrent_streams", "max_header_list_size", "stream_window_size",
               "connection_window_size"}
Http2Directive(n) == CASE n = "max_concurrent_streams" -> "http2_max_concurrent_streams"
                       [] n = "max_header_list_size" -> "http2_max_header_list_size"
                       [] n = "stream_window_size" -> "http2_stream_window_size"
                       [] n = "connection_window_size" -> "http2_connection_window_size"
OnceInHttp == {"client_header_timeout", "client_body_timeout", "send_timeout"}
              \cup {Http2Directive(n) : n \in Http2Names}

HttpDirectiveOK(d) ==
    CASE d.n \in {"http2_stream_window_size", "http2_connection_window_size"} -> Window(d)
      [] d.n \in {"http2_max_concurrent_streams", "http2_max_header_list_size"} -> U32(d)
      [] d.n \in {"tcp_nodelay", "allow_connect_method_proxying", "h2c", "real_ip_recursive"} -> Switch(d)
      [] d.n = "real_ip_header" -> One(d) /\ Value(d) \in {"x-forwarded-for", "x-real-ip"}
      [] d.n = "keepalive_timeout" -> Len(d.a) \in 1..2 /\ \A i \in DOMAIN d.a : d.a[i] # Bad
      [] d.n \in {"client_header_timeout", "client_body_timeout", "send_timeout", "keepalive_requests",
                  "client_max_body_size", "proxy_cache_max_size", "set_real_ip_from"} -> One(d)
      [] OTHER -> FALSE

HttpBlockOK(b) ==
    CASE b.n = "geoip" -> GeoIpOK(b)
      [] b.n = "scp" -> ScpOK(b)
      [] b.n = "server" -> ServerOK(b)
      [] b.n = "upstream" -> UpstreamOK(b)
      [] b.n = "ssl_provider" -> SslProviderOK(b)
      [] OTHER -> FALSE

\* A second argument is accepted, and only used to tell "off" from a time.
LowerKeepalive(ds) ==
    IF ds = <<>> THEN 60000
    ELSE IF \A i \in DOMAIN Last(ds).a : Last(ds).a[i] = 0 THEN None ELSE Last(ds).a[1]

LowerRealIp(b) ==
    LET from == Given(b, "set_real_ip_from") IN
    IF from \o Given(b, "real_ip_header") \o Given(b, "real_ip_recursive") = <<>> THEN None
    ELSE [proxies |-> [i \in DOMAIN from |-> Value(from[i])],
          header |-> LastOr(Given(b, "real_ip_header"), "x-forwarded-for"),
          recursive |-> LastOr(Given(b, "real_ip_recursive"), "on") = "on"]

Sole(blocks, Lower(_)) == IF blocks = <<>> THEN None ELSE Lower(blocks[1])
NoneIfZero(v) == IF v = 0 THEN None ELSE v

\* A TLS server without a certificate of its own gets one from the provider.
AssignProvider(server, provider) ==
    IF provider # None /\ server.tls = None /\ \E i \in DOMAIN server.listens : server.listens[i].ssl
    THEN [server EXCEPT !.tls = [provider |-> "letsencrypt"]] ELSE server

LowerHttp(b) ==
    LET v(n, default) == LastOr(Given(b, n), default)
        all(n, Lower(_)) == [i \in DOMAIN GivenBlocks(b, n) |-> Lower(GivenBlocks(b, n)[i])]
        provider == Sole(GivenBlocks(b, "ssl_provider"), LowerSslProvider)
        servers == all("server", LowerServer) IN
    [client_header_timeout |-> v("client_header_timeout", None),
     client_body_timeout |-> v("client_body_timeout", None), send_timeout |-> v("send_timeout", None),
     keepalive |-> LowerKeepalive(Given(b, "keepalive_timeout")),
     keepalive_requests |-> v("keepalive_requests", None),
     client_max_body_size |-> NoneIfZero(v("client_max_body_size", 0)),
     proxy_cache_max_size |-> v("proxy_cache_max_size", None),
     tcp_nodelay |-> v("tcp_nodelay", "on"), connect |-> v("allow_connect_method_proxying", "off"),
     h2c |-> v("h2c", "off"), http2 |-> [n \in Http2Names |-> v(Http2Directive(n), None)],
     real_ip |-> LowerRealIp(b), geoip |-> Sole(GivenBlocks(b, "geoip"), LowerGeoIp), le |-> provider,
     profiles |-> all("scp", LowerScp), upstreams |-> all("upstream", LowerUpstream),
     servers |-> [i \in DOMAIN servers |-> AssignProvider(servers[i], provider)]]

\* What lower_http requires of the TLS servers once providers are assigned.
TlsServerOK(server) ==
    (\E i \in DOMAIN server.listens : server.listens[i].ssl) =>
       /\ server.tls # None
       /\ IF server.tls.provider = "custom" THEN server.tls.cert # None /\ server.tls.key # None
          ELSE Len(server.server_names) = 1

HttpOK(b) ==
    /\ \A i \in DOMAIN Directives(b) : HttpDirectiveOK(Directives(b)[i])
    /\ \A i \in DOMAIN Blocks(b) : HttpBlockOK(Blocks(b)[i])
    /\ \A n \in OnceInHttp : AtMostOne(Given(b, n))
    /\ AtMostOne(GivenBlocks(b, "geoip")) /\ AtMostOne(GivenBlocks(b, "ssl_provider"))
    /\ \A i \in DOMAIN LowerHttp(b).servers : TlsServerOK(LowerHttp(b).servers[i])
============================================================================
