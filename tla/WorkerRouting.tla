---------------------------- MODULE WorkerRouting ----------------------------
(***************************************************************************)
(* worker/src: what a Worker decides to do with a request, from the route  *)
(* table of its profile to the arguments of connect() or fetch().          *)
(*                                                                         *)
(* A request is [method, path, upgrade, scheme, auth, url, tls,            *)
(* closeAfter, headers, listed]: `path` is the pathname ("/direct" for     *)
(* /direct/...); `url` the target a direct request names ([host, port,     *)
(* form], form being the scheme of the target URL, "plain" for the         *)
(* segments of /direct, "bad" for what the route does not take); `tls` and *)
(* `closeAfter` the query parameters, in milliseconds, NoDelay for "none"  *)
(* and -1 for a text that is no duration; `listed` the headers that        *)
(* Connection names.                                                       *)
(* `auth` is a sealed token, [kind |-> "static", value], or NoAuth.        *)
(* An absent value is {}.                                                  *)
(***************************************************************************)
EXTENDS ClientRequest

NoAuth == [kind |-> "none"]
NoDelay == -2

HopByHop == {"connection", "keep-alive", "proxy-authenticate", "proxy-authorization",
             "te", "trailer", "transfer-encoding", "upgrade"}

\* What a handler decides: the answer, or the connection it opens.
Decision(kind, host, port, options, headers) ==
  [kind |-> kind, host |-> host, port |-> port, tls |-> options.tls,
   closeAfter |-> options.closeAfter, headers |-> headers]
NoOptions == [tls |-> "off", closeAfter |-> {}]
Answer(kind) == Decision(kind, "", 0, NoOptions, {})
NotFound == Answer("notFound")

-----------------------------------------------------------------------------
(* auth *)

\* parseClaims
ValidClaims(c) ==
  /\ c.op \in {"dial", "payload"} /\ ValidHost(c.host) /\ c.port \in Ports
  /\ c.tls \subseteq {"off", "on"} /\ c.closeAfterMs \subseteq 0..MaxWriteCloseAfterMs

\* Mutant: AAD binds the method only.
VerifyIgnoresPath(req, env, op) ==
  /\ env.authSecret # "" /\ req.auth.kind = "token"
  /\ req.auth.secret = env.authSecret /\ req.auth.aad[1] = req.method
  /\ ValidClaims(req.auth.claims) /\ req.auth.claims.op = op
  /\ req.auth.timely

\* verifyBearerToken: the token opens under this method and path, its claims are
\* valid and for this operation, and it is neither late nor used.
VerifyBearerToken(req, env, op) ==
  /\ env.authSecret # "" /\ req.auth.kind = "token"
  /\ req.auth.secret = env.authSecret /\ req.auth.aad = <<req.method, req.path>>
  /\ ValidClaims(req.auth.claims) /\ req.auth.claims.op = op
  /\ req.auth.timely

\* optionsFromClaims; only a payload exchange has a write close.
OptionsFromClaims(c, op) ==
  [tls |-> IF "on" \in c.tls THEN "on" ELSE "off",
   closeAfter |-> IF op = "payload" THEN c.closeAfterMs ELSE {}]

FromClaims(req, op, kind) ==
  LET c == req.auth.claims IN Decision(kind, c.host, c.port, OptionsFromClaims(c, op), {})

\* `!env.DIRECT_BEARER || !verifyStaticBearer(...)` of the direct and meta routes.
StaticBearer(req, env) ==
  env.directBearer # "" /\ req.auth.kind = "static" /\ req.auth.value = env.directBearer

-----------------------------------------------------------------------------
(* ingress *)

\* parsePayloadOptions
ValidQuery(req) ==
  req.tls \subseteq TLSModes /\ req.closeAfter \subseteq {NoDelay} \cup 0..MaxWriteCloseAfterMs
FromUrl(req) ==
  Decision("payload", req.url.host, req.url.port,
           [tls |-> IF "on" \in req.tls THEN "on" ELSE "off",
            closeAfter |-> req.closeAfter \ {NoDelay}], {})

\* parseDirectTarget and the checks of resolveTcpTargetUrl.
ValidUrlTarget(u, form) == u.form = form /\ ValidHost(u.host) /\ u.port \in Ports

\* targetRequestHeaders
FetchHeaders(req) == ((req.headers \ req.listed) \ HopByHop) \ {"authorization", "host"}

-----------------------------------------------------------------------------
(* profiles *)

WssRoute(req, env) ==
  IF ~VerifyBearerToken(req, env, "dial") THEN NotFound
  ELSE IF req.upgrade THEN FromClaims(req, "dial", "tunnel") ELSE Answer("upgradeRequired")

PayloadRoute(req, env) ==
  IF req.method = "POST" /\ VerifyBearerToken(req, env, "payload")
    THEN FromClaims(req, "payload", "payload") ELSE NotFound

DirectRoute(req, env) ==
  IF /\ req.method = "POST" /\ StaticBearer(req, env)
     /\ ValidUrlTarget(req.url, "plain") /\ ValidQuery(req)
    THEN FromUrl(req) ELSE NotFound

\* resolveTargetUrlRoute: tcp:// connects, http:// and https:// fetch.
TargetUrlRoute(req, env) ==
  IF ~StaticBearer(req, env) THEN NotFound
  ELSE IF ValidUrlTarget(req.url, "tcp") /\ req.method = "POST" /\ ValidQuery(req)
    THEN FromUrl(req)
  ELSE IF req.url.form \in {"http", "https"} /\ req.tls = {} /\ req.closeAfter = {}
    THEN Decision("fetch", req.url.host, req.url.port, NoOptions, FetchHeaders(req))
  ELSE NotFound

MetaRoute(req, env) == IF StaticBearer(req, env) THEN Answer("meta") ELSE NotFound

Handle(route, req, env) ==
  CASE route = "wss"       -> WssRoute(req, env)
    [] route = "payload"   -> PayloadRoute(req, env)
    [] route = "direct"    -> DirectRoute(req, env)
    [] route = "directUrl" -> TargetUrlRoute(req, env)
    [] route = "meta"      -> MetaRoute(req, env)

Matches(route, req) ==
  CASE route = "wss"       -> req.path = "/wss"
    [] route = "payload"   -> req.path \in {"/h2", "/h3"}
    [] route = "direct"    -> req.path = "/direct"
    [] route = "directUrl" -> req.path = "/direct-url"
    [] route = "meta"      -> req.path = "/__meta" /\ req.method = "GET"

\* The routes of each profile.
Profile(name) ==
  CASE name = "full"          -> <<"wss", "payload", "direct", "directUrl", "meta">>
    [] name = "wssOnly"       -> <<"wss">>
    [] name = "directConnect" -> <<"direct">>
    [] name = "urlFull"       -> <<"directUrl">>

\* createWorker: the first route that matches handles the request.
Fetch(profile, req, env) ==
  LET routes   == Profile(profile)
      matching == {i \in DOMAIN routes : Matches(routes[i], req)}
      first    == CHOOSE i \in matching : \A j \in matching : i <= j
  IN  IF matching = {} THEN NotFound ELSE Handle(routes[first], req, env)
==============================================================================
