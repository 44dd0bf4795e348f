----------------------------- MODULE Middleware -----------------------------
(***************************************************************************)
(* What the middlewares make of a scope: server names, ProxyFix, the       *)
(* redirect to HTTPS, the dispatcher's mounts and the environ of WSGI.     *)
(*                                                                         *)
(* A header is a record of its name and the values its commas separate; an *)
(* element of a Forwarded header is a record of for, proto and host.       *)
(***************************************************************************)
EXTENDS Naturals, Sequences, SequencesExt

CONSTANT None   \* Python's None

----------------------------------------------------------------------------
(* utils.py                                                                *)

\* The headers of a name, or not of some names, and the values of a name, in
\* their order: a list built in a loop over the headers.
Named(name, headers) ==
  FlattenSeq([i \in DOMAIN headers |->
                IF headers[i].name = name THEN <<headers[i]>> ELSE <<>>])
Others(names, headers) ==
  FlattenSeq([i \in DOMAIN headers |->
                IF headers[i].name \in names THEN <<>> ELSE <<headers[i]>>])
Values(name, headers) ==
  FlattenSeq([i \in DOMAIN headers |->
                IF headers[i].name = name THEN headers[i].value ELSE <<>>])

\* valid_server_name: the first host header is one of the configured names.
ValidServerName(names, headers) ==
  LET host == Named("host", headers)
  IN names = {} \/ (host # <<>> /\ host[1].value[1] \in names)

\* filter_pseudo_headers (HTTP/2 and HTTP/3): :authority takes the place of
\* the host headers, and comes first.
FilterPseudoHeaders(headers) ==
  LET authority == Named(":authority", headers)
      host == Named("host", headers)
      value == IF authority # <<>> THEN Last(authority).value
               ELSE IF host # <<>> THEN Last(host).value ELSE <<"">>
  IN <<[name |-> "host", value |-> value]>>
     \o Others({"host", ":authority"}, headers)

----------------------------------------------------------------------------
(* middleware/proxy_fix.py                                                 *)

\* (mutant: the hops are counted from the client's end)
HopFromClient(values, hops) == hops

TrustedHop(values, hops) == Len(values) - hops + 1

\* _get_trusted_value
TrustedValue(name, headers, hops) ==
  LET values == Values(name, headers)
  IN IF hops = 0 \/ Len(values) < hops THEN None
     ELSE values[TrustedHop(values, hops)]

Forwarded(mode, headers, hops) ==
  LET modern == TrustedValue("forwarded", headers, hops)
  IN IF mode = "modern" /\ modern # None THEN modern
     ELSE [for |-> TrustedValue("x-forwarded-for", headers, hops),
           proto |-> TrustedValue("x-forwarded-proto", headers, hops),
           host |-> TrustedValue("x-forwarded-host", headers, hops)]

\* ProxyFixMiddleware.__call__
ProxyFix(mode, hops, scope) ==
  LET f == Forwarded(mode, scope.headers, hops)
      Or(value, default) == IF value = None THEN default ELSE value
  IN [scope EXCEPT
        !.client = Or(f.for, @), !.scheme = Or(f.proto, @),
        !.headers = IF f.host = None THEN @
                    ELSE Others({"host"}, @) \o <<[name |-> "host", value |-> <<f.host>>]>>]

----------------------------------------------------------------------------
(* middleware/http_to_https.py                                             *)

Insecure(scope) ==
  \/ scope.type = "http" /\ scope.scheme = "http"
  \/ scope.type = "websocket" /\ scope.scheme = "ws"

\* _new_url: the host of the configuration, or of the first host header; None
\* stands for the ValueError.
NewUrl(scheme, redirectHost, scope) ==
  LET host == Named("host", scope.headers)
  IN IF redirectHost = None /\ host = <<>> THEN None
     ELSE [scheme |-> scheme, path |-> scope.root_path \o scope.path,
           host |-> IF redirectHost # None THEN redirectHost ELSE host[1].value[1]]

\* HTTPToHTTPSRedirectMiddleware.__call__, for an insecure scope
Redirect(redirectHost, scope) ==
  LET scheme == IF scope.type = "http" \/ scope.version = "2" THEN "https" ELSE "wss"
      url == NewUrl(scheme, redirectHost, scope)
  IN IF scope.type = "websocket" /\ ~scope.denial THEN [kind |-> "close"]
     ELSE IF url = None THEN [kind |-> "raised"]
     ELSE [kind |-> "redirect", url |-> url]

----------------------------------------------------------------------------
(* middleware/dispatcher.py, app_wrappers.py                               *)

\* _DispatcherMiddleware.__call__: the first mount the path starts with
MountOf(mounts, path) ==
  SelectInSeq(mounts, LAMBDA m : IsPrefix(m, path))

Mounted(mount, scope) == [scope EXCEPT !.root_path = @ \o mount]

Rest(scope) == SubSeq(scope.path, Len(scope.root_path) + 1, Len(scope.path))

\* _build_environ.  Headers with one name become one variable; names that
\* differ in "-" and "_" only do too, which is left out.  None stands for
\* InvalidPathError.
Environ(scope) ==
  IF ~IsPrefix(scope.root_path, scope.path) THEN None
  ELSE [SCRIPT_NAME |-> scope.root_path,
        PATH_INFO |-> IF Rest(scope) = <<>> THEN <<"/">> ELSE Rest(scope),
        REMOTE_ADDR |-> scope.client,
        url_scheme |-> scope.scheme,
        HTTP |-> [name \in {scope.headers[i].name : i \in DOMAIN scope.headers} |->
                    Values(name, scope.headers)]]
=============================================================================
