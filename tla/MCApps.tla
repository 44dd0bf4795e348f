------------------------------- MODULE MCApps -------------------------------
(***************************************************************************)
(* An application of middlewares and wrappers: its lifespan, or one        *)
(* request.                                                                *)
(***************************************************************************)
EXTENDS Dispatcher, WsgiWrapper

CONSTANT MaxHops   \* proxies between the user and the server, at most
ASSUME HopsAssumption == MaxHops \in Nat

VARIABLE part   \* "lifespan" or "request"

appVars == <<lifespanVars, requestVars, part>>

Header(name, value) == [name |-> name, value |-> value]

\* The values of the headers: words, or elements of a Forwarded header.
Words == {"user", "own", "proxy", "http", "https", "site", "inner"}
ForwardedElements ==
  [for : Words \cup {None}, proto : Words \cup {None}, host : Words \cup {None}]
ASSUME NoneAssumption == None \notin Words /\ None \notin ForwardedElements

\* The headers of a request through hops proxies.  Each adds the peer it sees,
\* the scheme and the host it was asked by, to the header the client may have
\* sent, or in a header of its own.
Peers(hops) == [i \in 1 .. hops |-> IF i = 1 THEN "user" ELSE "proxy"]
Schemes(user, hops) == [i \in 1 .. hops |-> IF i = 1 THEN user ELSE "http"]
Hosts(hops) == [i \in 1 .. hops |-> IF i = 1 THEN "site" ELSE "inner"]
Elements(user, hops) ==
  [i \in 1 .. hops |-> [for |-> Peers(hops)[i], proto |-> Schemes(user, hops)[i],
                        host |-> Hosts(hops)[i]]]

Added(name, own, values, joined) ==
  IF joined THEN <<Header(name, own \o values)>>
  ELSE (IF own = <<>> THEN <<>> ELSE <<Header(name, own)>>)
       \o [i \in DOMAIN values |-> Header(name, <<values[i]>>)]

Proxied(mode, user, hops, own, joined) ==
  IF hops = 0 THEN <<>>
  ELSE IF mode = "modern"
  THEN Added("forwarded", IF own THEN <<[for |-> "own", proto |-> None, host |-> None]>>
                          ELSE <<>>, Elements(user, hops), joined)
  ELSE Added("x-forwarded-for", IF own THEN <<"own">> ELSE <<>>, Peers(hops), joined)
       \o Added("x-forwarded-proto", <<>>, Schemes(user, hops), joined)
       \o Added("x-forwarded-host", <<>>, Hosts(hops), joined)

Paths == {<<"/">>, <<"/", "b">>, <<"/", "a">>, <<"/", "a", "b">>, <<"/", "a", "/", "b">>}
MountLists == {<<<<"/", "a", "/", "b">>, <<"/", "a">>>>, <<<<"/", "a">>, <<"/">>>>}

Setup(names, mode, hops, host, mounts, user) ==
  [names |-> names, mode |-> mode, hops |-> hops, host |-> host, mounts |-> mounts,
   user |-> user]
Scope(type, denial, scheme, version, headers, path, root) ==
  [type |-> type, denial |-> denial, scheme |-> scheme, version |-> version,
   headers |-> headers, path |-> path, root_path |-> root,
   client |-> IF \E i \in DOMAIN headers : headers[i].name \in {"x-forwarded-for", "forwarded"}
              THEN "proxy" ELSE "user"]

Mounts1 == CHOOSE l \in MountLists : TRUE
Path1 == <<"/", "a", "/", "b">>

\* Requests through proxies, requests of every kind, and requests for every path.
ThroughProxies ==
  \E mode \in {"legacy", "modern"}, hops \in 0 .. MaxHops, own \in BOOLEAN,
     joined \in BOOLEAN, user \in {"http", "https"} :
    /\ setup = Setup({}, mode, hops, None, Mounts1, user)
    /\ scope = Scope("http", FALSE, IF hops = 0 THEN user ELSE "http", "1.1",
                     <<Header("host", <<"inner">>)>> \o Proxied(mode, user, hops, own, joined),
                     Path1, <<>>)
OfEveryKind ==
  \E type \in {"http", "websocket"}, denial \in BOOLEAN, secure \in BOOLEAN,
     version \in {"1.1", "2"}, names \in {{}, {"inner"}}, host \in {None, "site"},
     headers \in {<<>>, <<Header("host", <<"inner">>)>>, <<Header("host", <<"other">>)>>,
                  <<Header("host", <<"other">>), Header(":authority", <<"inner">>)>>},
     path \in {Path1, <<"b">>} :
    /\ setup = Setup(names, "legacy", 0, host, Mounts1, IF secure THEN "https" ELSE "http")
    /\ scope = Scope(type, denial, IF type = "http" THEN setup.user
                                   ELSE IF secure THEN "wss" ELSE "ws",
                     version, headers, path, <<>>)
ForEveryPath ==
  \E mounts \in MountLists, path \in Paths, root \in {<<>>, <<"/", "a">>} :
    /\ setup = Setup({}, "legacy", 0, None, mounts, "https")
    /\ scope = Scope("http", FALSE, "https", "1.1", <<Header("host", <<"site">>)>>, path, root)

MCInit ==
  /\ LifespanInit /\ RequestInit
  /\ \/ part = "lifespan" /\ setup = Setup({}, "legacy", 0, None, Mounts1, "http")
        /\ scope = Scope("http", FALSE, "http", "1.1", <<>>, Path1, <<>>)
     \/ part = "request" /\ (ThroughProxies \/ OfEveryKind \/ ForEveryPath)

InLifespan == part = "lifespan" /\ UNCHANGED <<requestVars, part>>
InRequest == part = "request" /\ UNCHANGED <<lifespanVars, part>>

MCNext == (LifespanNext /\ InLifespan) \/ (RequestNext /\ InRequest)

\* Tasks and threads that can run do, the worker goes on, an application
\* that is called comes to its end, and a client ends its request or leaves.
MCSpec ==
  /\ MCInit /\ [][MCNext]_appVars
  /\ WF_appVars((Ask \/ TakeMessage \/ GroupEnds) /\ InLifespan)
  /\ \A m \in MountPoints :
       /\ WF_appVars(PutTo(m) /\ InLifespan)
       /\ WF_appVars((AppReceives(m) \/ AppCompletes(m) \/ AppReturns(m)) /\ InLifespan)
  /\ WF_appVars(TaskStep /\ InRequest) /\ WF_appVars(ThreadStep /\ InRequest)
  /\ WF_appVars((ClientEnds \/ ClientLeaves) /\ InRequest)

TypeOK == LifespanTypeOK /\ RequestTypeOK /\ part \in {"lifespan", "request"}

Fixed == task \notin {"stream", "refused", "enter"}

\* With as many trusted hops as there are proxies the application sees the
\* user's address, scheme and host, whatever forwarded headers the client
\* sent itself.
TrustedIsUser ==
  Fixed /\ scope.type = "http" =>
    /\ scope.client = "user" /\ scope.scheme = setup.user
    /\ environ # None /\ setup.hops > 0 => environ.HTTP["host"] = <<"site">>

\* The application behind the redirect is not given a request that came over
\* HTTP, and a request that came over HTTPS is not redirected (which would
\* not end).
SecureOnly ==
  scope.type = "http" =>
    /\ thread # "none" => setup.user = "https"
    /\ task = "redirect" => setup.user = "http"

\* Whatever middlewares a request goes through, the WSGI application sees the
\* request of the user.
ScopeKept == PathKept /\ TrustedIsUser /\ SecureOnly

\* The client gets one response, complete only if the thread has completed it
\* and closed its iterable (with every variable in its type).
ResponseRight == TypeOK /\ CompleteIsDone /\ ClosedOnce /\ OneResponse

\* Nobody who waits for an application's answer waits for ever.
AllAnswered == MessagesAnswered /\ Answered
=============================================================================
