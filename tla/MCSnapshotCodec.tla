--------------------------- MODULE MCSnapshotCodec ---------------------------
(* Families of configuration files and of snapshots.  Names 1 to 5, where 3   *)
(* is another spelling of 1; group 1 has fixed servers, group 2 is found      *)
(* through NRF and speaks https.                                              *)
EXTENDS SnapshotCodec

MCCanon == <<1, 2, 1, 4, 5>>

D(n, a) == [n |-> n, a |-> a]
B(n, a, c) == [n |-> n, a |-> a, c |-> c]
Pem(id) == [src |-> "path", id |-> id]
Url(scheme, host, port, bare) == [scheme |-> scheme, host |-> host, port |-> port, bare |-> bare]
Pass(url) == D("proxy_pass", <<url>>)
Listen(port, params) == D("listen", <<[addr |-> 1, port |-> port]>> \o params)

Health == B("health_check", <<>>, <<>>)
NrfDirectives == <<D("api_root", <<4>>), D("target_nf_type", <<"AMF">>), D("requester_nf_type", <<"SCP">>),
                   D("service_name", <<"comm">>), D("endpoint_scheme", <<"https">>)>>
Member(h, w) == D("server", <<[host |-> h, port |-> 80], [weight |-> w]>>)
Static == B("upstream", <<1>>, <<Member(4, 1), D("server", <<[host |-> 5, port |-> 81]>>)>>)
Discovered == B("upstream", <<2>>, <<Health, B("nrf_discovery", <<>>, NrfDirectives)>>)
Profile == B("scp", <<1>>, <<D("api_root", <<4>>), D("discovery_upstream", <<2>>)>>)

Plain == B("location", <<1>>, <<Pass(Url("http", 1, None, TRUE))>>)
Other == B("location", <<"=", 2>>, <<D("return", <<301, 1>>)>>)
PlainServer == B("server", <<>>, <<Listen(80, <<>>), Plain>>)
Http(c) == B("http", <<>>, c)

\* Two servers on one TLS listener, in every arrangement of names, marks and
\* certificates; the second may disagree on the protocols.
ServerNames == << <<>>, <<1>>, <<2>>, <<3, 2>> >>
TlsServer(names, marked, cert, second, params) ==
    B("server", <<>>,
      <<Listen(443, <<"ssl">> \o params \o (IF marked THEN <<"default_server">> ELSE <<>>)),
        D("ssl_certificate", <<Pem(cert)>>), D("ssl_certificate_key", <<Pem(cert)>>)>>
      \o (IF names = 1 THEN <<>> ELSE <<D("server_name", ServerNames[names])>>)
      \o (IF second THEN <<Plain, Other>> ELSE <<Plain>>))
ServerTexts ==
    [p \in (1..4) \X BOOLEAN \X (1..4) \X BOOLEAN \X (7..8) \X BOOLEAN \X BOOLEAN |->
        Http(<<Static, TlsServer(p[1], p[2], 7, FALSE, <<"http2">>),
               TlsServer(p[3], p[4], p[5], p[6], IF p[7] THEN <<"http2">> ELSE <<>>)>>)]

\* One location: its action, one further directive or two, three listeners.
ActionNodes ==
  << <<Pass(Url("http", 1, None, TRUE))>>, <<Pass(Url("http", 3, None, FALSE))>>,
     <<Pass(Url("https", 1, 81, TRUE))>>, <<Pass(Url("https", 5, None, TRUE))>>,
     <<Pass(Url("https", 2, None, TRUE))>>, <<Pass(Url("http", 2, None, TRUE))>>,
     <<Pass(Url("http", 2, None, FALSE))>>, <<Pass(Url("ftp", 5, None, TRUE))>>,
     <<Pass(Url("ftp", 1, None, TRUE))>>, <<Pass(Bad)>>,
     <<D("return", <<302, 1>>)>>, <<D("return", <<200, 1>>)>>, <<D("scp_pass", <<1>>)>>,
     <<D("scp_pass", <<5>>)>>, <<>>, <<D("scp_pass", <<1>>), D("return", <<302, 1>>)>> >>
Extras ==
  << <<>>, <<D("proxy_read_timeout", <<0>>)>>, <<D("proxy_read_timeout", <<5>>)>>,
     <<D("proxy_read_timeout", <<5>>), D("proxy_read_timeout", <<6>>)>>,
     <<D("proxy_upstream_protocol", <<"h1">>)>>, <<D("proxy_upstream_protocol", <<"h2">>)>>,
     <<D("proxy_upstream_protocol", <<"h2c">>)>>, <<D("proxy_ssl_certificate", <<Pem(9)>>)>>,
     <<D("proxy_ssl_certificate", <<Pem(9)>>), D("proxy_ssl_certificate_key", <<Pem(9)>>)>>,
     <<D("client_body_timeout", <<0>>)>>, <<D("client_body_timeout", <<5>>)>>,
     <<D("client_max_body_size", <<0>>), D("send_timeout", <<0>>)>>,
     <<D("allow_methods", <<"GET", "PUT", "GET">>)>>, <<D("allow_methods", <<>>)>>,
     <<D("proxy_http2_stream_window_size", <<100>>)>>, <<D("proxy_http2_stream_window_size", <<MaxWindow + 1>>)>>,
     <<D("deny", <<1>>), D("proxy_ssl_verify", <<"off">>), D("allow", <<2>>)>>, <<D("unknown", <<>>)>>,
     <<B("cors", <<>>, <<>>), D("proxy_cache", <<"on">>)>>, <<D("proxy_cache", <<"off">>)>>,
     <<D("proxy_cache", <<"on">>), D("proxy_cache_ttl", <<5>>)>>, <<D("proxy_cache_ttl", <<5>>)>>,
     <<B("proxy_cache", <<>>, <<D("proxy_cache_ttl", <<0>>), D("proxy_cache_key", <<"normalized_uri">>)>>)>>,
     <<B("proxy_cache", <<>>, <<D("proxy_cache_ttl", <<5>>), D("proxy_cache", <<"on">>)>>)>>,
     <<B("proxy_cache", <<>>, <<D("proxy_cache_max_size", <<0>>), D("proxy_cache_stale_if_error", <<0>>),
                                D("proxy_cache_valid", <<200>>), D("proxy_cache_min_uses", <<2>>)>>)>>,
     <<B("proxy_cache", <<>>, <<D("proxy_cache_min_uses", <<MaxU32>>)>>)>>,
     <<B("proxy_cache", <<>>, <<D("proxy_cache_min_uses", <<MaxU32 + 1>>), D("proxy_cache_ttl", <<5>>)>>)>>,
     <<D("proxy_http2_max_concurrent_streams", <<MaxU32>>)>>, <<D("proxy_http2_max_concurrent_streams", <<MaxU32 + 1>>)>>,
     <<B("proxy_cache", <<>>, <<D("proxy_cache", <<"off">>)>>)>> >>
Sockets ==
  << <<Listen(80, <<>>)>>,
     <<Listen(443, <<"ssl", "http2_only">>), D("ssl_certificate", <<Pem(7)>>), D("ssl_certificate_key", <<Pem(7)>>),
       D("ssl_protocols", <<2, 3>>)>> >>
LocationTexts ==
    [p \in (1..Len(ActionNodes)) \X (1..Len(Extras)) \X (1..2) \X {"on", "off"} |->
        Http(<<Static, Discovered, Profile, D("h2c", <<p[4]>>),
               B("server", <<>>, Sockets[p[3]]
                 \o <<B("location", IF p[2] % 2 = 0 THEN <<1>> ELSE <<"~", 2>>, ActionNodes[p[1]] \o Extras[p[2]])>>)>>)]

\* Two groups.
Bodies ==
  << <<>>, <<Member(4, 1)>>, <<Member(4, 65535)>>, <<Member(4, 65535), Member(5, 1)>>, <<Member(4, 0)>>,
     <<Member(Bad, 1)>>, <<Member(4, 1), D("hash_key", <<"client_ip">>)>>,
     <<Member(4, 1), D("hash_key", <<"header", 1>>), D("policy", <<"consistent_hash">>)>>,
     <<Member(4, 1), B("health_check", <<>>, <<D("type", <<"http">>), D("host", <<1>>), D("use_tls", <<"on">>)>>)>>,
     <<Member(4, 1), B("health_check", <<>>, <<D("type", <<"http">>)>>)>>,
     <<Member(4, 1), B("health_check", <<>>, <<D("path", <<1>>)>>)>>,
     <<Member(4, 1), B("health_check", <<>>, <<D("consecutive_success", <<MaxU32 + 1>>),
                                               D("consecutive_failure", <<MaxU32>>)>>)>>,
     <<Health, Health, Member(4, 1)>>, <<Health, B("nrf_discovery", <<>>, NrfDirectives), Member(4, 1)>>,
     <<B("nrf_discovery", <<>>, NrfDirectives)>>, <<Health, B("nrf_discovery", <<>>, Tail(NrfDirectives))>>,
     <<Health, B("nrf_discovery", <<>>, NrfDirectives \o <<D("timeout", <<9>>), D("ssl_verify", <<"off">>),
                                                          D("ssl_certificate", <<Pem(9)>>)>>)>>,
     <<Health, B("nrf_discovery", <<>>, NrfDirectives)>> >>
GroupTexts ==
    [p \in (1..Len(Bodies)) \X (1..Len(Bodies)) \X (2..3) |->
        Http(<<B("upstream", <<1>>, Bodies[p[1]]), B("upstream", <<p[3]>>, Bodies[p[2]]), PlainServer>>)]

\* Two nodes of the http block beside the servers.
Nodes ==
  << <<>>, <<D("keepalive_timeout", <<0>>)>>, <<D("keepalive_timeout", <<1500>>)>>, <<D("keepalive_timeout", <<0, 5>>)>>,
     <<D("keepalive_requests", <<0>>)>>, <<D("keepalive_requests", <<9>>)>>, <<D("client_max_body_size", <<0>>)>>,
     <<D("proxy_cache_max_size", <<0>>)>>, <<D("tcp_nodelay", <<"off">>)>>, <<D("tcp_nodelay", <<"maybe">>)>>,
     <<D("h2c", <<"on">>)>>, <<D("client_header_timeout", <<5>>)>>, <<D("client_body_timeout", <<0>>)>>,
     <<D("http2_stream_window_size", <<0>>)>>, <<D("http2_max_concurrent_streams", <<9>>)>>,
     <<D("set_real_ip_from", <<1>>)>>, <<D("real_ip_header", <<"other">>)>>, <<D("real_ip_recursive", <<"off">>)>>,
     <<B("geoip", <<>>, <<D("database", <<1>>), D("trusted_proxy", <<2>>)>>)>>,
     <<B("geoip", <<>>, <<D("database", <<1>>), D("reload_interval", <<0>>)>>)>>,
     <<B("ssl_provider", <<"letsencrypt">>, <<D("email", <<1>>)>>)>>, <<B("ssl_provider", <<"other">>, <<>>)>>,
     <<B("server", <<>>, <<Listen(443, <<"ssl">>), D("server_name", <<2>>), Other>>)>>,
     <<B("server", <<>>, <<Listen(443, <<"ssl">>), Listen(80, <<>>), D("server_name", <<2, 4>>), Plain>>)>>,
     <<B("server", <<>>, <<Listen(80, <<"http2">>), Plain>>)>>,
     <<B("server", <<>>, <<Listen(80, <<>>), D("ssl_verify_client", <<"required">>)>>)>>,
     <<Discovered, Profile>>, <<Profile>>, <<B("scp", <<2>>, <<D("api_root", <<4>>)>>)>>,
     <<Discovered, B("scp", <<2>>, <<D("api_root", <<4>>), D("allow_target_api_root", <<4>>)>>)>> >>
OptionTexts ==
    [p \in (1..Len(Nodes)) \X (1..Len(Nodes)) \X BOOLEAN |->
        Http(Nodes[p[1]] \o Nodes[p[2]] \o <<Static>> \o (IF p[3] THEN <<PlainServer>> ELSE <<>>))]

MCTexts == <<ServerTexts, LocationTexts, GroupTexts, OptionTexts>>

---------------------------------------------------------------------------
(* Snapshots *)

Up(scheme, host, port, group) == [scheme |-> scheme, host |-> host, port |-> port, group |-> group]
NoLimits == [max_body_size |-> None, body_timeout |-> None, send_timeout |-> None, methods |-> <<>>]
Prefix == [kind |-> "http", prefix |-> TRUE, path |-> 1]
Route == [match |-> Prefix, action |-> [kind |-> "upstream", upstream |-> Up("http", None, 0, 1)], access |-> <<>>,
          plugins |-> <<>>, limits |-> NoLimits, rewrite |-> None, http2 |-> None, tls |-> None, timeouts |-> None,
          protocol |-> "unspecified", cache |-> None]
Cache == [enabled |-> "unspecified", max_size |-> 0, ttl |-> 0, stale |-> 0, key |-> "unspecified",
          min_uses |-> 0, statuses |-> <<>>]
Listener == [name |-> 1, addr |-> 1, port |-> 80, tls |-> FALSE, http2 |-> FALSE, http2_only |-> FALSE, options |-> None]
Host == [listener |-> 1, server_names |-> <<1>>, default_server |-> FALSE, tls |-> None, routes |-> <<Route>>]
Group == [name |-> 1, allow_empty |-> FALSE, policy |-> "unspecified", hash_key |-> None, health |-> None, nrf |-> None,
          backends |-> <<[host |-> 4, port |-> 80, weight |-> 0]>>]
WireHealth == [type |-> "tcp", host |-> None, path |-> None, use_tls |-> FALSE, timeout |-> 1, interval |-> 1,
               success |-> 1, failure |-> 1]
WireNrf == [query |-> <<"AMF", "comm", "SCP">>, api_root |-> 4, scheme |-> "https", timeout |-> 0, stale |-> 0, tls |-> None]
NrfGroup == [Group EXCEPT !.name = 2, !.backends = <<>>, !.health = WireHealth, !.nrf = WireNrf]
Snapshot(listeners, vhosts, upstreams) ==
    [http |-> None, listeners |-> listeners, vhosts |-> vhosts, upstreams |-> upstreams, profiles |-> <<>>,
     geoip |-> None, le |-> None]

WireActions ==
  << None, [kind |-> "upstream", upstream |-> Up("http", None, 0, 3)], [kind |-> "upstream", upstream |-> Up("http", 3, 80, None)],
     [kind |-> "upstream", upstream |-> Up("https", 5, 80, None)], [kind |-> "upstream", upstream |-> Up("http", 5, 0, None)],
     [kind |-> "upstream", upstream |-> Up("http", 5, 80, 1)], [kind |-> "upstream", upstream |-> Up("http", None, 0, 2)],
     [kind |-> "upstream", upstream |-> Up("unspecified", None, 0, 1)],
     [kind |-> "weighted", backends |-> <<>>],
     [kind |-> "weighted", backends |-> <<[weight |-> None, target |-> [upstream |-> Up("https", None, 0, 2)]],
                                          [weight |-> 0, target |-> [status |-> 500]]>>],
     [kind |-> "weighted", backends |-> <<[weight |-> 1, target |-> [upstream |-> Up("http", 1, 80, None)]],
                                          [weight |-> 3, target |-> [upstream |-> Up("https", 5, 443, None)]]>>],
     [kind |-> "weighted", backends |-> <<[weight |-> MaxShare + 1, target |-> [status |-> 200]]>>],
     [kind |-> "weighted", backends |-> <<[weight |-> 1, target |-> None]>>],
     [kind |-> "direct", status |-> 404], [kind |-> "direct", status |-> 199],
     [kind |-> "scp", profile |-> 1], [kind |-> "return", status |-> 301, location |-> 1],
     [kind |-> "redirect", redirect |-> [status |-> 0, scheme |-> "https", port |-> None, path |-> [kind |-> "prefix", path |-> 2]]],
     [kind |-> "redirect", redirect |-> [status |-> 305, scheme |-> None, port |-> None, path |-> None]],
     [kind |-> "redirect", redirect |-> [status |-> 301, scheme |-> "ftp", port |-> None, path |-> None]] >>
WireEdits ==
  << Route, [Route EXCEPT !.match = None], [Route EXCEPT !.match = [kind |-> "http", prefix |-> FALSE, path |-> 1]],
     [Route EXCEPT !.protocol = "h2"], [Route EXCEPT !.protocol = "h2c"], [Route EXCEPT !.cache = Cache],
     [Route EXCEPT !.rewrite = [path |-> [kind |-> "prefix", path |-> 2]]],
     [Route EXCEPT !.rewrite = [path |-> [kind |-> "full", path |-> 2]]],
     [Route EXCEPT !.limits.body_timeout = 5], [Route EXCEPT !.limits.max_body_size = 0],
     [Route EXCEPT !.tls = TlsOptions("unspecified", None, Pem(9), Pem(9))],
     [Route EXCEPT !.tls = TlsOptions("off", Pem(8), Pem(9), None)],
     [Route EXCEPT !.timeouts = [connect |-> 0, read |-> 5, write |-> 0]],
     [Route EXCEPT !.access = <<[action |-> "unspecified", source |-> 1]>>], [Route EXCEPT !.plugins = <<None>>] >>
WireOptions == [NoOptions EXCEPT !.h2c = TRUE, !.keepalive = 2]
RouteWires ==
    [p \in (1..Len(WireActions)) \X (1..Len(WireEdits)) \X BOOLEAN |->
        [Snapshot(<<Listener>>, <<[Host EXCEPT !.routes = <<[WireEdits[p[2]] EXCEPT !.action = WireActions[p[1]]]>>]>>,
                  <<Group, NrfGroup>>)
           EXCEPT !.http = IF p[3] THEN WireOptions ELSE None,
                  !.profiles = IF p[3] THEN <<[name |-> 1, api_root |-> 4, upstreams |-> <<2>>, targets |-> <<>>]>>
                               ELSE <<>>]]

TlsListener == [Listener EXCEPT !.name = 2, !.port = 443, !.tls = TRUE, !.http2 = TRUE]
ListenerLists ==
  << <<>>, <<Listener>>, <<[Listener EXCEPT !.port = 65536]>>, <<Listener, Listener>>, <<Listener, TlsListener>>, <<[TlsListener EXCEPT !.addr = 2], TlsListener>>,
     <<Listener, [TlsListener EXCEPT !.options = [min |-> 2, max |-> 3, verify |-> "unspecified", ca |-> None]]>>,
     <<Listener, [TlsListener EXCEPT !.options = [min |-> 3, max |-> 2, verify |-> "off", ca |-> None]]>>,
     <<Listener, [TlsListener EXCEPT !.options = [min |-> 2, max |-> 0, verify |-> "off", ca |-> None]]>>,
     <<[Listener EXCEPT !.options = [min |-> 2, max |-> 3, verify |-> "off", ca |-> None]]>>,
     <<TlsListener, [TlsListener EXCEPT !.name = 1, !.addr = 2]>> >>
Certificate(id) == [cert |-> Pem(id), key |-> Pem(id)]
HostLists ==
  << <<>>, <<Host>>, <<[Host EXCEPT !.routes = <<Route, Route>>]>>, <<[Host EXCEPT !.listener = 2]>>,
     <<[Host EXCEPT !.listener = 2, !.tls = Certificate(7)]>>,
     <<[Host EXCEPT !.listener = 2, !.tls = [cert |-> Pem(7), key |-> None]]>>,
     <<[Host EXCEPT !.listener = 2, !.server_names = <<4>>, !.tls = Certificate(7)],
       [Host EXCEPT !.listener = 2, !.server_names = <<2>>, !.tls = Certificate(8)]>>,
     <<[Host EXCEPT !.listener = 2, !.default_server = TRUE, !.tls = Certificate(7)],
       [Host EXCEPT !.listener = 2, !.server_names = <<3, 5>>, !.tls = Certificate(8)], Host>>,
     <<Host, [Host EXCEPT !.server_names = <<>>, !.routes = <<>>], [Host EXCEPT !.server_names = <<>>]>> >>
HostWires == [p \in (1..Len(ListenerLists)) \X (1..Len(HostLists)) |->
                 Snapshot(ListenerLists[p[1]], HostLists[p[2]], <<Group>>)]

WireGroups ==
  << Group, [Group EXCEPT !.name = 3], [Group EXCEPT !.backends = <<>>], [Group EXCEPT !.backends = <<>>, !.allow_empty = TRUE],
     [Group EXCEPT !.backends[1].port = 0], [Group EXCEPT !.backends[1].host = None],
     [Group EXCEPT !.backends = <<[host |-> 4, port |-> 80, weight |-> 65535], [host |-> 5, port |-> 80, weight |-> 0]>>],
     [Group EXCEPT !.backends[1].weight = 65536], [Group EXCEPT !.hash_key = [by |-> "client_ip"]],
     [Group EXCEPT !.hash_key = [by |-> "unspecified"], !.policy = "consistent_hash"],
     [Group EXCEPT !.health = [WireHealth EXCEPT !.interval = 0]], [Group EXCEPT !.health = [WireHealth EXCEPT !.type = None]],
     [Group EXCEPT !.health = [WireHealth EXCEPT !.success = MaxU32]],
     [Group EXCEPT !.health = [WireHealth EXCEPT !.type = "http", !.host = 1, !.path = 1]],
     [Group EXCEPT !.nrf = WireNrf, !.health = WireHealth], NrfGroup, [NrfGroup EXCEPT !.health = None],
     [NrfGroup EXCEPT !.nrf.scheme = "unspecified"], [NrfGroup EXCEPT !.nrf.tls = TlsOptions("off", None, Pem(9), None)],
     [NrfGroup EXCEPT !.nrf.tls = TlsOptions("unspecified", None, Pem(9), Pem(9)), !.nrf.stale = 7] >>
GroupWires == [p \in (1..Len(WireGroups)) \X (1..Len(WireGroups)) |->
                 Snapshot(<<Listener>>, <<[Host EXCEPT !.routes = <<[Route EXCEPT !.action = [kind |-> "direct", status |-> 204]]>>]>>,
                          <<WireGroups[p[1]], [WireGroups[p[2]] EXCEPT !.name = IF @ = 1 THEN 4 ELSE @]>>)]

MCWires == <<RouteWires, HostWires, GroupWires>>
==============================================================================
