------------------------ MODULE PayloadExchangeProofs ------------------------
(***************************************************************************)
(* Theorems about PayloadExchange for all values of its constants: what    *)
(* may leave a Worker and for whom, and the order of upload, half-close    *)
(* and response.                                                           *)
(***************************************************************************)
EXTENDS PayloadExchange, TLAPS

RouteNames == {"wss", "payload", "direct", "directUrl", "meta"}
Profiles == {"full", "wssOnly", "directConnect", "urlFull"}
Connecting == {"payload", "tunnel", "fetch"}

-----------------------------------------------------------------------------
(* The routes *)

LEMMA FirstOfFive ==
  ASSUME NEW S \in SUBSET (1..5), S # {}
  PROVE  \E i \in S : \A j \in S : i <= j
<1>1. CASE 1 \in S
  BY <1>1
<1>2. CASE 1 \notin S /\ 2 \in S
  BY <1>2
<1>3. CASE 1 \notin S /\ 2 \notin S /\ 3 \in S
  BY <1>3
<1>4. CASE 1 \notin S /\ 2 \notin S /\ 3 \notin S /\ 4 \in S
  BY <1>4
<1>5. CASE 1 \notin S /\ 2 \notin S /\ 3 \notin S /\ 4 \notin S
  <2>1. \A j \in S : j = 5
    BY <1>5
  <2>2. PICK i \in S : TRUE
    OBVIOUS
  <2>. QED BY <2>1, <2>2
<1>. QED BY <1>1, <1>2, <1>3, <1>4, <1>5

\* A profile's worker answers as one of its matching routes does, or notFound when it
\* has none; the full profile has every route.
LEMMA FetchIsARoute ==
  ASSUME NEW profile \in Profiles, NEW req, NEW env
  PROVE  \/ /\ Fetch(profile, req, env) = NotFound
            /\ profile = "full" => \A route \in RouteNames : ~Matches(route, req)
         \/ \E route \in RouteNames :
              Matches(route, req) /\ Fetch(profile, req, env) = Handle(route, req, env)
<1>. DEFINE routes   == Profile(profile)
            matching == {i \in DOMAIN routes : Matches(routes[i], req)}
            first    == CHOOSE i \in matching : \A j \in matching : i <= j
<1>1. \A i \in DOMAIN routes : i \in 1..5 /\ routes[i] \in RouteNames
  BY DEF Profile, Profiles, RouteNames
<1>2. CASE matching = {}
  <2>1. Fetch(profile, req, env) = NotFound
    BY <1>2 DEF Fetch
  <2>2. ASSUME profile = "full", NEW route \in RouteNames PROVE ~Matches(route, req)
    <3>1. routes = <<"wss", "payload", "direct", "directUrl", "meta">>
      BY <2>2 DEF Profile
    <3>2. PICK i \in 1..5 : routes[i] = route
      BY <3>1 DEF RouteNames
    <3>3. i \in DOMAIN routes
      BY <3>1
    <3>. QED BY <1>2, <3>2, <3>3
  <2>. QED BY <2>1, <2>2
<1>3. CASE matching # {}
  <2>1. first \in matching
    <3>. HIDE DEF matching
    <3>1. matching \subseteq 1..5
      BY <1>1 DEF matching
    <3>2. \E i \in matching : \A j \in matching : i <= j
      BY <3>1, <1>3, FirstOfFive
    <3>. QED BY <3>2
  <2>2. Fetch(profile, req, env) = Handle(routes[first], req, env)
    BY <1>3 DEF Fetch
  <2>. QED BY <1>1, <2>1, <2>2
<1>. QED BY <1>2, <1>3

LEMMA AnswerKinds ==
  ASSUME NEW profile \in Profiles, NEW req, NEW env
  PROVE  Fetch(profile, req, env).kind \in Connecting \cup {"notFound", "upgradeRequired", "meta"}
<1>. USE DEF NotFound, Answer, Decision, Connecting
<1>1. ASSUME NEW route \in RouteNames
      PROVE  Handle(route, req, env).kind \in Connecting \cup {"notFound", "upgradeRequired", "meta"}
  BY DEF RouteNames, Handle, WssRoute, PayloadRoute, DirectRoute, TargetUrlRoute, MetaRoute,
         FromClaims, FromUrl
<1>2. NotFound.kind = "notFound"
  OBVIOUS
<1>. HIDE DEF NotFound
<1>. QED BY <1>1, <1>2, FetchIsARoute

Authorised(d, r, env) ==
  /\ IF r.path \in {"/wss", "/h2", "/h3"}
       THEN /\ r.auth.kind = "token" /\ r.auth.timely
            /\ r.auth.secret = env.authSecret /\ env.authSecret # ""
            /\ r.auth.aad = <<r.method, r.path>>
            /\ d.host = r.auth.claims.host /\ d.port = r.auth.claims.port
       ELSE /\ r.auth.kind = "static" /\ r.auth.value = env.directBearer
            /\ env.directBearer # ""
  /\ d.kind = "fetch" =>
       d.headers \cap ({"authorization", "host"} \cup HopByHop \cup r.listed) = {}

LEMMA ConnectingIsAuthorised ==
  ASSUME NEW profile \in Profiles, NEW req, NEW env,
         Fetch(profile, req, env).kind \in Connecting
  PROVE  Authorised(Fetch(profile, req, env), req, env)
<1>. DEFINE d == Fetch(profile, req, env)
<1>. SUFFICES Authorised(d, req, env)
  OBVIOUS
<1>1. NotFound.kind = "notFound" /\ Answer("upgradeRequired").kind = "upgradeRequired"
      /\ Answer("meta").kind = "meta"
  BY DEF NotFound, Answer, Decision
<1>2. PICK route \in RouteNames : Matches(route, req) /\ d = Handle(route, req, env)
  BY <1>1, FetchIsARoute DEF Connecting
<1>3. d.kind \in Connecting
  OBVIOUS
<1>. HIDE DEF d
<1>4. CASE route = "wss"
  <2>1. req.path = "/wss" /\ d = WssRoute(req, env)
    BY <1>2, <1>4 DEF Matches, Handle
  <2>2. VerifyBearerToken(req, env, "dial") /\ d = FromClaims(req, "dial", "tunnel")
    BY <1>1, <1>3, <2>1 DEF WssRoute, Connecting
  <2>3. d.kind = "tunnel" /\ d.host = req.auth.claims.host /\ d.port = req.auth.claims.port
    BY <2>2 DEF FromClaims, Decision
  <2>4. d.kind # "fetch"
    BY <2>3
  <2>. QED BY <2>1, <2>2, <2>3, <2>4, Zenon DEF VerifyBearerToken, Authorised
<1>5. CASE route = "payload"
  <2>1. req.path \in {"/h2", "/h3"} /\ d = PayloadRoute(req, env)
    BY <1>2, <1>5 DEF Matches, Handle
  <2>2. VerifyBearerToken(req, env, "payload") /\ d = FromClaims(req, "payload", "payload")
    BY <1>1, <1>3, <2>1 DEF PayloadRoute, Connecting
  <2>3. d.kind = "payload" /\ d.host = req.auth.claims.host /\ d.port = req.auth.claims.port
    BY <2>2 DEF FromClaims, Decision
  <2>4. d.kind # "fetch"
    BY <2>3
  <2>. QED BY <2>1, <2>2, <2>3, <2>4, Zenon DEF VerifyBearerToken, Authorised
<1>6. CASE route = "direct"
  <2>1. req.path = "/direct" /\ d = DirectRoute(req, env)
    BY <1>2, <1>6 DEF Matches, Handle
  <2>2. StaticBearer(req, env) /\ d = FromUrl(req)
    BY <1>1, <1>3, <2>1 DEF DirectRoute, Connecting
  <2>3. d.kind # "fetch"
    BY <2>2 DEF FromUrl, Decision
  <2>4. req.path \notin {"/wss", "/h2", "/h3"}
    BY <2>1
  <2>. QED BY <2>2, <2>3, <2>4, Zenon DEF StaticBearer, Authorised
<1>7. CASE route = "directUrl"
  <2>1. req.path = "/direct-url" /\ d = TargetUrlRoute(req, env)
    BY <1>2, <1>7 DEF Matches, Handle
  <2>2. /\ StaticBearer(req, env)
        /\ \/ d = FromUrl(req)
           \/ d = Decision("fetch", req.url.host, req.url.port, NoOptions, FetchHeaders(req))
    <3>1. CASE ~StaticBearer(req, env)
      <4>1. d = NotFound
        BY <2>1, <3>1 DEF TargetUrlRoute
      <4>. QED BY <1>1, <1>3, <4>1 DEF Connecting
    <3>2. CASE StaticBearer(req, env)
      <4>. HIDE DEF Decision, FromUrl
      <4>1. d \in {FromUrl(req), NotFound,
                  Decision("fetch", req.url.host, req.url.port, NoOptions, FetchHeaders(req))}
        BY <2>1, <3>2 DEF TargetUrlRoute
      <4>. QED BY <1>1, <1>3, <3>2, <4>1 DEF Connecting
    <3>. QED BY <3>1, <3>2
  <2>3. d.kind = "fetch" => d.headers = FetchHeaders(req)
    BY <2>2 DEF FromUrl, Decision
  <2>4. req.path \notin {"/wss", "/h2", "/h3"}
    BY <2>1
  <2>5. FetchHeaders(req) \cap ({"authorization", "host"} \cup HopByHop \cup req.listed) = {}
    BY DEF FetchHeaders
  <2>. QED BY <2>2, <2>3, <2>4, <2>5, Zenon DEF StaticBearer, Authorised
<1>8. CASE route = "meta"
  <2>1. d = MetaRoute(req, env)
    BY <1>2, <1>8 DEF Handle
  <2>. QED BY <1>1, <1>3, <2>1 DEF MetaRoute, Connecting
<1>. QED BY <1>4, <1>5, <1>6, <1>7, <1>8 DEF RouteNames

-----------------------------------------------------------------------------
(* What a call of the SDK gets *)

SealedFor(r, client, claims) ==
  /\ r.auth.kind = "token" /\ r.auth.timely
  /\ r.auth.secret = client.secret /\ client.secret # ""
  /\ r.auth.aad = <<r.method, r.path>>
  /\ r.auth.claims = claims /\ ValidateClaims(claims)

\* A request that buildRoute makes is the only one, sealed for its own method and
\* path over claims the Worker's parser takes.
LEMMA BuiltRequest ==
  ASSUME NEW client, NEW call, NEW method, NEW path, NEW op,
         NEW r \in BuildRoute(client, call, method, path, op)
  PROVE  /\ BuildRoute(client, call, method, path, op) = {r}
         /\ r.method = method /\ r.path = path /\ (path = "/wss" => r.upgrade)
         /\ SealedFor(r, client, Claims(client, call, op))
<1>. DEFINE request ==
       [method |-> method, path |-> path, upgrade |-> path = "/wss",
        scheme |-> WireScheme(client, path = "/wss"),
        auth |-> Seal(client, method, path, Claims(client, call, op)),
        url |-> [host |-> "", port |-> 0, form |-> "none"],
        tls |-> {}, closeAfter |-> {}, headers |-> {"authorization"}, listed |-> {}]
<1>1. \/ BuildRoute(client, call, method, path, op) = {}
      \/ /\ BuildRoute(client, call, method, path, op) = {request}
         /\ client.secret # "" /\ TargetTLS(client, call) \in TLSModes
         /\ ValidateClaims(Claims(client, call, op))
  BY Zenon DEF BuildRoute
<1>2. /\ request.method = method /\ request.path = path /\ (path = "/wss" => request.upgrade)
      /\ request.auth = Seal(client, method, path, Claims(client, call, op))
  OBVIOUS
<1>. HIDE DEF request
<1>3. r = request
  BY <1>1
<1>4. SealedFor(r, client, Claims(client, call, op))
  <2>1. client.secret # "" /\ ValidateClaims(Claims(client, call, op))
    BY <1>1
  <2>2. r.auth = Seal(client, method, path, Claims(client, call, op)) /\ r.method = method /\ r.path = path
    BY <1>2, <1>3
  <2>3. /\ r.auth.kind = "token" /\ r.auth.secret = client.secret /\ r.auth.timely
        /\ r.auth.aad = <<r.method, r.path>> /\ r.auth.claims = Claims(client, call, op)
    BY <2>2 DEF Seal
  <2>. QED BY <2>1, <2>3, Zenon DEF SealedFor
<1>. QED BY <1>1, <1>2, <1>3, <1>4

LEMMA RequestOfDial ==
  ASSUME NEW c \in Calls, NEW r \in Dial(c[1], c[2])
  PROVE  /\ Dial(c[1], c[2]) = {r}
         /\ r.path = "/wss" /\ r.upgrade
         /\ SealedFor(r, c[1], [op |-> "dial", host |-> c[2].host, port |-> c[2].port,
                                tls |-> {c[1].tls} \ {"", "off"}, closeAfterMs |-> {}])
<1>. DEFINE call == [c[2] EXCEPT !.tls = {}, !.closeAfter = {}]
<1>1. call.host = c[2].host /\ call.port = c[2].port /\ call.tls = {} /\ call.closeAfter = {}
  BY CallsAssumption
<1>2. Dial(c[1], c[2]) = BuildRoute(c[1], call, "GET", "/wss", "dial")
  BY Zenon DEF Dial
<1>. HIDE DEF call
<1>3. Claims(c[1], call, "dial") =
        [op |-> "dial", host |-> c[2].host, port |-> c[2].port,
         tls |-> {c[1].tls} \ {"", "off"}, closeAfterMs |-> {}]
  BY <1>1 DEF Claims, TargetTLS
<1>4. r \in BuildRoute(c[1], call, "GET", "/wss", "dial")
  BY <1>2
<1>5. /\ BuildRoute(c[1], call, "GET", "/wss", "dial") = {r}
      /\ r.path = "/wss" /\ r.method = "GET" /\ r.upgrade
      /\ SealedFor(r, c[1], Claims(c[1], call, "dial"))
  BY <1>4, BuiltRequest
<1>. QED BY <1>2, <1>3, <1>5

LEMMA RequestOfDo ==
  ASSUME NEW c \in Calls, NEW r \in Do(c[1], c[2])
  PROVE  /\ Do(c[1], c[2]) = {r}
         /\ r.path \in {"/h2", "/h3"} /\ r.method = "POST"
         /\ SealedFor(r, c[1], Claims(c[1], c[2], "payload"))
<1>1. PICK path \in {"/h2", "/h3"} :
        Do(c[1], c[2]) = BuildRoute(c[1], c[2], "POST", path, "payload")
  BY DEF Do
<1>2. r \in BuildRoute(c[1], c[2], "POST", path, "payload")
  BY <1>1
<1>3. /\ BuildRoute(c[1], c[2], "POST", path, "payload") = {r}
      /\ r.path = path /\ r.method = "POST"
      /\ SealedFor(r, c[1], Claims(c[1], c[2], "payload"))
  BY <1>2, BuiltRequest
<1>. QED BY <1>1, <1>3

\* What Dial asked for: nothing else is opened for it, and a Worker with all routes
\* and the same secret does open it.
LEMMA DialIsDone ==
  ASSUME NEW c \in Calls, NEW r \in Dial(c[1], c[2]), NEW profile \in Profiles, NEW env
  PROVE  LET d == Fetch(profile, r, env)
         IN  /\ d.kind \in Connecting =>
                  /\ d.kind = "tunnel" /\ d.host = c[2].host /\ d.port = c[2].port
                  /\ d.tls = "on" <=> c[1].tls = "on"
                  /\ d.closeAfter = {}
             /\ profile = "full" /\ c[1].secret = env.authSecret => d.kind = "tunnel"
<1>. DEFINE d == Fetch(profile, r, env)
            claims == [op |-> "dial", host |-> c[2].host, port |-> c[2].port,
                       tls |-> {c[1].tls} \ {"", "off"}, closeAfterMs |-> {}]
<1>1. r.path = "/wss" /\ r.upgrade /\ SealedFor(r, c[1], claims)
  BY RequestOfDial
<1>2. \A route \in RouteNames : Matches(route, r) <=> route = "wss"
  BY <1>1 DEF RouteNames, Matches
<1>3. "wss" \in RouteNames
  BY DEF RouteNames
<1>4. Handle("wss", r, env) = WssRoute(r, env)
  BY DEF Handle
<1>5. \/ d = NotFound /\ profile # "full"
      \/ d = WssRoute(r, env)
  BY <1>2, <1>3, <1>4, FetchIsARoute
<1>6. r.auth.claims = claims /\ claims.op = "dial" /\ ValidClaims(claims)
  BY <1>1 DEF SealedFor, ValidateClaims, ValidClaims
<1>7. c[1].secret = env.authSecret => VerifyBearerToken(r, env, "dial")
  BY <1>1, <1>6 DEF SealedFor, VerifyBearerToken
<1>8. WssRoute(r, env) \in {NotFound, FromClaims(r, "dial", "tunnel")}
  BY <1>1 DEF WssRoute
<1>9. VerifyBearerToken(r, env, "dial") => WssRoute(r, env) = FromClaims(r, "dial", "tunnel")
  BY <1>1 DEF WssRoute
<1>10. NotFound.kind = "notFound"
  BY DEF NotFound, Answer, Decision
<1>11. LET e == FromClaims(r, "dial", "tunnel")
       IN  /\ e.kind = "tunnel" /\ e.host = c[2].host /\ e.port = c[2].port
           /\ e.tls = "on" <=> c[1].tls = "on"
           /\ e.closeAfter = {}
  <2>1. /\ claims.host = c[2].host /\ claims.port = c[2].port
        /\ "on" \in claims.tls <=> c[1].tls = "on"
    OBVIOUS
  <2>. HIDE DEF claims
  <2>. QED BY <1>6, <2>1 DEF FromClaims, Decision, OptionsFromClaims
<1>. HIDE DEF d, claims
<1>12. profile = "full" /\ c[1].secret = env.authSecret => d.kind = "tunnel"
  BY <1>5, <1>7, <1>9, <1>11
<1>13. d.kind \in Connecting => d = FromClaims(r, "dial", "tunnel")
  BY <1>5, <1>8, <1>10 DEF Connecting
<1>. QED BY <1>11, <1>12, <1>13 DEF d

LEMMA ModeOfCall ==
  ASSUME NEW c \in Calls
  PROVE  TargetTLS(c[1], c[2]) = "on" <=> IF c[2].tls = {} THEN c[1].tls = "on" ELSE c[2].tls = {"on"}
<1>1. CASE c[2].tls = {}
  BY <1>1 DEF TargetTLS
<1>2. CASE c[2].tls # {}
  <2>1. \A x, y \in c[2].tls : x = y
    BY CallsAssumption
  <2>2. PICK m \in c[2].tls : TargetTLS(c[1], c[2]) = m
    BY <1>2 DEF TargetTLS
  <2>3. c[2].tls = {m}
    BY <2>1, <2>2
  <2>. QED BY <1>2, <2>2, <2>3
<1>. QED BY <1>1, <1>2

Milliseconds(call) == {t \div 1000 : t \in call.closeAfter}

LEMMA DoIsDone ==
  ASSUME NEW c \in Calls, NEW r \in Do(c[1], c[2]), NEW profile \in Profiles, NEW env
  PROVE  LET d == Fetch(profile, r, env)
         IN  /\ d.kind \in Connecting =>
                  /\ d.kind = "payload" /\ d.host = c[2].host /\ d.port = c[2].port
                  /\ d.tls = "on" <=> TargetTLS(c[1], c[2]) = "on"
                  /\ d.closeAfter = Milliseconds(c[2])
             /\ profile = "full" /\ c[1].secret = env.authSecret => d.kind = "payload"
<1>. DEFINE d == Fetch(profile, r, env)
            claims == Claims(c[1], c[2], "payload")
<1>1. r.path \in {"/h2", "/h3"} /\ r.method = "POST" /\ SealedFor(r, c[1], claims)
  BY RequestOfDo
<1>2. \A route \in RouteNames : Matches(route, r) <=> route = "payload"
  BY <1>1 DEF RouteNames, Matches
<1>3. "payload" \in RouteNames
  BY DEF RouteNames
<1>4. Handle("payload", r, env) = PayloadRoute(r, env)
  BY DEF Handle
<1>5. \/ d = NotFound /\ profile # "full"
      \/ d = PayloadRoute(r, env)
  BY <1>2, <1>3, <1>4, FetchIsARoute
<1>6. /\ claims.op = "payload" /\ claims.host = c[2].host /\ claims.port = c[2].port
      /\ claims.tls = {TargetTLS(c[1], c[2])} \ {"", "off"}
      /\ claims.closeAfterMs = Milliseconds(c[2])
  BY DEF Claims, Milliseconds
<1>. HIDE DEF claims, d
<1>8. r.auth.claims = claims /\ ValidClaims(claims)
  BY <1>1 DEF SealedFor, ValidateClaims, ValidClaims
<1>9. c[1].secret = env.authSecret => VerifyBearerToken(r, env, "payload")
  BY <1>1, <1>6, <1>8 DEF SealedFor, VerifyBearerToken
<1>10. /\ PayloadRoute(r, env) \in {NotFound, FromClaims(r, "payload", "payload")}
       /\ VerifyBearerToken(r, env, "payload") =>
            PayloadRoute(r, env) = FromClaims(r, "payload", "payload")
  BY <1>1 DEF PayloadRoute
<1>11. NotFound.kind = "notFound"
  BY DEF NotFound, Answer, Decision
<1>12. LET e == FromClaims(r, "payload", "payload")
       IN  /\ e.kind = "payload" /\ e.host = c[2].host /\ e.port = c[2].port
           /\ e.tls = "on" <=> TargetTLS(c[1], c[2]) = "on"
           /\ e.closeAfter = Milliseconds(c[2])
  BY <1>6, <1>8 DEF FromClaims, Decision, OptionsFromClaims
<1>13. profile = "full" /\ c[1].secret = env.authSecret => d.kind = "payload"
  BY <1>5, <1>9, <1>10, <1>12
<1>14. d.kind \in Connecting => d = FromClaims(r, "payload", "payload")
  BY <1>5, <1>10, <1>11 DEF Connecting
<1>. QED BY <1>12, <1>13, <1>14 DEF d

-----------------------------------------------------------------------------
(* The inductive invariant *)

\* At most one request, and at most what its route decided for it.
Routing ==
  /\ deployed \in Deployments
  /\ \A r, s \in wire : r = s
  /\ wpc = "idle" => outbound = {} /\ answer = "none"
  /\ wpc # "idle" => wire # {}
  /\ wpc \in {"connecting", "streaming"} => outbound # {}
  /\ wpc = "fetching" => \E d \in outbound : d.kind = "fetch"
  /\ answer = "200" => outbound # {}
  /\ \A d \in outbound, r \in wire :
       d = Fetch(deployed.profile, r, deployed) /\ d.kind \in Connecting

\* The request is the one that the call has made.
Calling ==
  /\ asked # {} => result # "none"
  /\ \A a \in asked : \E c \in Calls :
       /\ a.client = c[1] /\ a.call = c[2]
       /\ \/ a.op = "dial" /\ wire = Dial(c[1], c[2])
          \/ a.op = "payload" /\ wire = Do(c[1], c[2])
  /\ \A a \in asked : deployed.profile = "full" /\ a.client.secret = deployed.authSecret =>
       answer \in {"none", "200", "502"}
  /\ result = "response" => outbound # {}

\* Where the pump is, how far the body and the socket are.
Uploading ==
  /\ wpc = "streaming" <=> up.pc # "off"
  /\ sock = "none" <=> up.pc = "off"
  /\ sock = "closed" <=> up.pc = "failed"
  /\ up.written <= up.fed
  /\ up.pc = "writing" => up.written < up.fed
  /\ up.pc \in {"sleeping", "closing", "done"} => up.end = "done" /\ up.written = up.fed
  /\ up.pc \in {"sleeping", "closing"} => Decided.closeAfter # {}
  /\ up.pc = "closing" => Decided.closeAfter = {0} \/ up.waited
  /\ sock = "half" =>
       up.pc = "done" /\ Decided.closeAfter # {} /\ (Decided.closeAfter = {0} \/ up.waited)

Responding ==
  /\ resp.passed <= target.sent
  /\ resp.end = "end" /\ sock \notin {"half", "closed"} =>
       target.end = "eof" /\ resp.passed = target.sent

Inv == TypeOK /\ Routing /\ Calling /\ Uploading /\ Responding

\* Nothing has been called.
LEMMA InvInit == Init => Inv
BY MaxChunksAssumption DEF Init, Inv, TypeOK, Routing, Calling, Uploading, Responding

-----------------------------------------------------------------------------
(* Every step preserves it *)

\* Every step keeps the types.
LEMMA TypeStep == TypeOK /\ Uploading /\ Responding /\ [Next]_vars => TypeOK'
<1>. SUFFICES ASSUME TypeOK, Uploading, Responding, [Next]_vars PROVE TypeOK'
  OBVIOUS
<1>. USE MaxChunksAssumption DEF TypeOK, routed
<1>1. ASSUME NEW c \in Calls, CallDo(c[1], c[2]) \/ CallDial(c[1], c[2]) PROVE TypeOK'
  BY <1>1 DEF CallDo, CallDial, SendRequest
<1>2. ASSUME NEW request \in RawRequests, SendRaw(request) PROVE TypeOK'
  BY <1>2 DEF SendRaw, SendRequest
<1>3. CASE BodyArrives
  BY <1>3 DEF BodyArrives, Feeding
<1>4. CASE BodyEnds
  BY <1>4 DEF BodyEnds, Feeding
<1>5. CASE ClientLeaves
  BY <1>5 DEF ClientLeaves, Abandon
<1>6. CASE DoReturns
  BY <1>6 DEF DoReturns, Abandon
<1>7. CASE Route
  BY <1>7 DEF Route
<1>8. CASE FetchAnswers \/ ConnectFails \/ Connected
  BY <1>8 DEF FetchAnswers, ConnectFails, Connected
<1>9. CASE PumpReads
  BY <1>9 DEF PumpReads, AfterBody, PumpFails
<1>10. CASE PumpWrites
  <2>1. up.written + 1 \in 0..MaxChunks
    BY <1>10 DEF PumpWrites, Uploading
  <2>2. up' \in {[up EXCEPT !.pc = "reading", !.written = up.written + 1], [up EXCEPT !.pc = "failed"]}
        /\ sock' \in {sock, "closed"} /\ UNCHANGED <<wpc, target, resp, result>>
    BY <1>10 DEF PumpWrites, PumpFails
  <2>3. up' \in [pc : {"off", "reading", "writing", "sleeping", "closing", "done", "failed"},
                 fed : 0..MaxChunks, written : 0..MaxChunks,
                 end : {"open", "done", "broken"}, waited : BOOLEAN]
    <3>1. CASE up' = [up EXCEPT !.pc = "reading", !.written = up.written + 1]
      BY <2>1, <3>1
    <3>2. CASE up' = [up EXCEPT !.pc = "failed"]
      BY <3>2
    <3>. QED BY <2>2, <3>1, <3>2
  <2>. QED BY <2>2, <2>3
<1>11. CASE PumpSleeps \/ PumpCloses
  BY <1>11 DEF PumpSleeps, PumpCloses, PumpFails
<1>12. CASE TargetSends \/ TargetEnds \/ TargetStalls
  <2>1. target' \in [sent : 0..MaxChunks, end : {"no", "eof", "reset"}, stalled : BOOLEAN]
    <3>1. CASE TargetSends
      BY <3>1 DEF TargetSends, TargetMoves
    <3>2. CASE TargetEnds
      BY <3>2 DEF TargetEnds, TargetMoves
    <3>3. CASE TargetStalls
      BY <3>3 DEF TargetStalls, TargetMoves
    <3>. QED BY <1>12, <3>1, <3>2, <3>3
  <2>2. UNCHANGED <<wpc, up, sock, resp, result>>
    BY <1>12 DEF TargetSends, TargetEnds, TargetStalls, TargetMoves
  <2>. QED BY <2>1, <2>2
<1>13. CASE RespMoves
  BY <1>13 DEF RespMoves, Responding
<1>14. CASE UNCHANGED vars
  BY <1>14 DEF vars
<1>. QED BY <1>1, <1>2, <1>3, <1>4, <1>5, <1>6, <1>7, <1>8, <1>9, <1>10, <1>11, <1>12, <1>13, <1>14
     DEF Next

\* Every step keeps what was decided about the request.
LEMMA RoutingStep == TypeOK /\ Routing /\ [Next]_vars => Routing'
<1>. SUFFICES ASSUME TypeOK, Routing, [Next]_vars PROVE Routing'
  OBVIOUS
<1>. USE DEF Routing, routed
<1>1. ASSUME NEW requests, SendRequest(requests), \A r, s \in requests : r = s
      PROVE  Routing'
  BY <1>1 DEF SendRequest
<1>2. ASSUME NEW c \in Calls, CallDo(c[1], c[2]) PROVE Routing'
  BY <1>1, <1>2, RequestOfDo DEF CallDo
<1>3. ASSUME NEW c \in Calls, CallDial(c[1], c[2]) PROVE Routing'
  BY <1>1, <1>3, RequestOfDial DEF CallDial
<1>4. ASSUME NEW request \in RawRequests, SendRaw(request) PROVE Routing'
  BY <1>1, <1>4 DEF SendRaw
<1>5. CASE BodyArrives \/ BodyEnds \/ ClientLeaves \/ DoReturns
  BY <1>5 DEF BodyArrives, BodyEnds, ClientLeaves, DoReturns
<1>6. CASE Route
  <2>. DEFINE d == Fetch(deployed.profile, Request, deployed)
  <2>1. Request \in wire /\ \A r \in wire : r = Request
    BY <1>6 DEF Route, Request
  <2>2. deployed.profile \in Profiles
    BY DeploymentsAssumption DEF Profiles
  <2>3. d.kind \in Connecting \cup {"notFound", "upgradeRequired", "meta"}
    BY <2>2, AnswerKinds
  <2>. HIDE DEF d
  <2>4. /\ wpc = "idle" /\ wire # {} /\ UNCHANGED <<deployed, wire>>
        /\ IF d.kind \in Connecting
             THEN /\ outbound' = {d} /\ answer' = answer
                  /\ wpc' = CASE d.kind = "payload" -> "connecting"
                              [] d.kind = "tunnel"  -> "tunnel"
                              [] OTHER              -> "fetching"
             ELSE outbound' = outbound /\ answer' = d.kind /\ wpc' = "answered"
    BY <1>6 DEF Route, Connecting, d
  <2>5. CASE d.kind \in Connecting
    <3>1. /\ outbound' = {d} /\ answer' = "none" /\ wpc' \in {"connecting", "tunnel", "fetching"}
          /\ wpc' = "fetching" => d.kind = "fetch"
      BY <2>4, <2>5 DEF Connecting
    <3>2. \A r \in wire' : d = Fetch(deployed'.profile, r, deployed')
      BY <2>1, <2>4 DEF d
    <3>. QED BY <2>4, <2>5, <3>1, <3>2
  <2>6. CASE d.kind \notin Connecting
    <3>1. outbound' = {} /\ answer' # "200" /\ wpc' = "answered"
      BY <2>3, <2>4, <2>6
    <3>. QED BY <2>4, <3>1
  <2>. QED BY <2>5, <2>6
<1>7. CASE FetchAnswers \/ ConnectFails \/ Connected
  BY <1>7 DEF FetchAnswers, ConnectFails, Connected
<1>8. CASE PumpReads \/ PumpWrites \/ PumpSleeps \/ PumpCloses
  BY <1>8 DEF PumpReads, PumpWrites, PumpSleeps, PumpCloses
<1>9. CASE TargetSends \/ TargetEnds \/ TargetStalls \/ RespMoves
  BY <1>9 DEF TargetSends, TargetEnds, TargetStalls, TargetMoves, RespMoves
<1>10. CASE UNCHANGED vars
  BY <1>10 DEF vars
<1>. QED BY <1>2, <1>3, <1>4, <1>5, <1>6, <1>7, <1>8, <1>9, <1>10 DEF Next

\* What a call asked for is what its request is routed to.
LEMMA AskedRoute ==
  ASSUME Routing, Calling, NEW a \in asked, NEW r \in wire
  PROVE  LET d == Fetch(deployed.profile, r, deployed)
         IN  /\ d.kind \in Connecting =>
                  /\ d.host = a.call.host /\ d.port = a.call.port
                  /\ d.kind = IF a.op = "dial" THEN "tunnel" ELSE "payload"
                  /\ d.tls = "on" <=>
                       IF a.op = "dial" \/ a.call.tls = {} THEN a.client.tls = "on"
                                                         ELSE a.call.tls = {"on"}
                  /\ d.closeAfter = IF a.op = "dial" THEN {} ELSE Milliseconds(a.call)
             /\ deployed.profile = "full" /\ a.client.secret = deployed.authSecret =>
                  d.kind \in {"tunnel", "payload"}
<1>. DEFINE d == Fetch(deployed.profile, r, deployed)
<1>1. PICK c \in Calls :
        /\ a.client = c[1] /\ a.call = c[2]
        /\ \/ a.op = "dial" /\ wire = Dial(c[1], c[2])
           \/ a.op = "payload" /\ wire = Do(c[1], c[2])
  BY DEF Calling
<1>2. deployed.profile \in Profiles
  BY DeploymentsAssumption DEF Routing, Profiles
<1>3. CASE a.op = "dial" /\ wire = Dial(c[1], c[2])
  <2>1. /\ d.kind \in Connecting =>
             /\ d.kind = "tunnel" /\ d.host = c[2].host /\ d.port = c[2].port
             /\ d.tls = "on" <=> c[1].tls = "on"
             /\ d.closeAfter = {}
        /\ deployed.profile = "full" /\ c[1].secret = deployed.authSecret => d.kind = "tunnel"
    BY <1>2, <1>3, DialIsDone
  <2>. HIDE DEF d
  <2>2. CASE d.kind \in Connecting
    BY <1>1, <1>3, <2>1, <2>2 DEF d
  <2>3. CASE d.kind \notin Connecting
    BY <1>1, <1>3, <2>1, <2>3 DEF d
  <2>. QED BY <2>2, <2>3
<1>4. CASE a.op = "payload" /\ wire = Do(c[1], c[2])
  <2>0. r \in Do(c[1], c[2])
    BY <1>4
  <2>1. /\ d.kind \in Connecting =>
             /\ d.kind = "payload" /\ d.host = c[2].host /\ d.port = c[2].port
             /\ d.tls = "on" <=> TargetTLS(c[1], c[2]) = "on"
             /\ d.closeAfter = Milliseconds(c[2])
        /\ deployed.profile = "full" /\ c[1].secret = deployed.authSecret => d.kind = "payload"
    BY <1>2, <2>0, DoIsDone
  <2>. HIDE DEF d
  <2>2. CASE d.kind \in Connecting
    BY <1>1, <1>4, <2>1, <2>2, ModeOfCall DEF d
  <2>3. CASE d.kind \notin Connecting
    BY <1>1, <1>4, <2>1, <2>3 DEF d
  <2>. QED BY <2>2, <2>3
<1>. QED BY <1>1, <1>3, <1>4

\* Every step keeps the request what the call made of it.
LEMMA CallingStep == TypeOK /\ Routing /\ Calling /\ [Next]_vars => Calling'
<1>. SUFFICES ASSUME TypeOK, Routing, Calling, [Next]_vars PROVE Calling'
  OBVIOUS
<1>1. ASSUME NEW c \in Calls, CallDo(c[1], c[2]) PROVE Calling'
  <2>1. /\ wire' = Do(c[1], c[2]) /\ answer' = "none" /\ result' \in {"refused", "waiting"}
        /\ asked' = {[client |-> c[1], call |-> c[2], op |-> "payload"]}
    BY <1>1 DEF CallDo, SendRequest, Routing
  <2>. QED BY <2>1 DEF Calling
<1>2. ASSUME NEW c \in Calls, CallDial(c[1], c[2]) PROVE Calling'
  <2>1. /\ wire' = Dial(c[1], c[2]) /\ answer' = "none" /\ result' \in {"refused", "waiting"}
        /\ asked' = {[client |-> c[1], call |-> c[2], op |-> "dial"]}
    BY <1>2 DEF CallDial, SendRequest, Routing
  <2>. QED BY <2>1 DEF Calling
<1>3. ASSUME NEW request \in RawRequests, SendRaw(request) PROVE Calling'
  <2>1. asked' = {} /\ result' # "response"
    BY <1>3 DEF SendRaw, SendRequest, Calling
  <2>. QED BY <2>1 DEF Calling
<1>4. ASSUME UNCHANGED <<deployed, asked, wire, outbound, answer>>,
             result' = result \/ (result' # "none" /\ (result' = "response" => answer = "200"))
      PROVE  Calling'
  BY <1>4 DEF Calling, Routing
<1>5. CASE BodyArrives \/ BodyEnds \/ ClientLeaves \/ DoReturns
  BY <1>4, <1>5 DEF BodyArrives, BodyEnds, ClientLeaves, DoReturns, routed
<1>6. CASE Route
  <2>1. Request \in wire /\ \A r \in wire : r = Request
    BY <1>6 DEF Route, Request, Routing
  <2>. DEFINE d == Fetch(deployed.profile, Request, deployed)
  <2>2. ASSUME NEW a \in asked, deployed.profile = "full", a.client.secret = deployed.authSecret
        PROVE  d.kind \in {"tunnel", "payload"}
    BY <2>1, <2>2, AskedRoute
  <2>. HIDE DEF d
  <2>3. /\ UNCHANGED <<deployed, asked, wire, result>> /\ outbound = {} /\ answer = "none"
        /\ d.kind \in {"tunnel", "payload"} => answer' = answer
    BY <1>6 DEF Route, Routing, d
  <2>. QED BY <2>2, <2>3 DEF Calling
<1>7. CASE FetchAnswers
  <2>1. PICK d \in outbound : d.kind = "fetch"
    BY <1>7 DEF FetchAnswers, Routing
  <2>2. PICK r \in wire : TRUE
    BY <1>7 DEF FetchAnswers, Routing
  <2>3. asked = {}
    BY <2>1, <2>2, AskedRoute DEF Routing, Connecting
  <2>. QED BY <1>7, <2>3 DEF FetchAnswers, Calling, routed
<1>8. CASE ConnectFails \/ Connected
  BY <1>8 DEF ConnectFails, Connected, Calling, routed
<1>9. CASE PumpReads \/ PumpWrites \/ PumpSleeps \/ PumpCloses
  BY <1>4, <1>9 DEF PumpReads, PumpWrites, PumpSleeps, PumpCloses, routed
<1>10. CASE TargetSends \/ TargetEnds \/ TargetStalls \/ RespMoves
  BY <1>4, <1>10 DEF TargetSends, TargetEnds, TargetStalls, TargetMoves, RespMoves, routed
<1>11. CASE UNCHANGED vars
  BY <1>4, <1>11 DEF vars
<1>. QED BY <1>1, <1>2, <1>3, <1>5, <1>6, <1>7, <1>8, <1>9, <1>10, <1>11 DEF Next

\* Every step keeps what the pump knows at its place.
LEMMA UploadingStep == TypeOK /\ Routing /\ Uploading /\ [Next]_vars => Uploading'
<1>. SUFFICES ASSUME TypeOK, Routing, Uploading, [Next]_vars PROVE Uploading'
  OBVIOUS
<1>. USE DEF routed
<1>1. ASSUME UNCHANGED <<wpc, up, sock, outbound>> PROVE Uploading'
  <2>1. Decided' = Decided
    BY <1>1, Zenon DEF Decided
  <2>. QED BY <1>1, <2>1 DEF Uploading
<1>2. ASSUME NEW request \in RawRequests, SendRaw(request) PROVE Uploading'
  BY <1>1, <1>2 DEF SendRaw, SendRequest
<1>3. ASSUME NEW c \in Calls, CallDo(c[1], c[2]) \/ CallDial(c[1], c[2]) PROVE Uploading'
  BY <1>1, <1>3 DEF CallDo, CallDial, SendRequest
<1>4. CASE BodyArrives \/ BodyEnds
  BY <1>4 DEF BodyArrives, BodyEnds, Feeding, TypeOK, Uploading, Decided
<1>5. CASE ClientLeaves
  BY <1>5 DEF ClientLeaves, Abandon, TypeOK, Uploading, Decided
<1>6. CASE DoReturns
  BY <1>6 DEF DoReturns, Abandon, TypeOK, Uploading, Decided
<1>7. CASE Route
  <2>1. up.pc = "off" /\ UNCHANGED <<up, sock>> /\ wpc' # "streaming"
    <3>. DEFINE d == Fetch(deployed.profile, Request, deployed)
    <3>. HIDE DEF d
    <3>1. wpc' \in {"connecting", "tunnel", "fetching", "answered"}
      BY <1>7 DEF Route
    <3>. QED BY <1>7, <3>1 DEF Route, TypeOK, Uploading
  <2>. QED BY <2>1 DEF TypeOK, Uploading
<1>8. CASE FetchAnswers \/ ConnectFails
  BY <1>8 DEF FetchAnswers, ConnectFails, TypeOK, Uploading, Decided
<1>9. CASE Connected
  BY <1>9 DEF Connected, TypeOK, Uploading, Decided
<1>10. CASE PumpReads
  <2>1. Decided' = Decided /\ wpc' = wpc
    BY <1>10, Zenon DEF PumpReads, Decided
  <2>2. CASE up.fed > up.written /\ up' = [up EXCEPT !.pc = "writing"] /\ sock' = sock
    BY <1>10, <2>1, <2>2 DEF PumpReads, TypeOK, Uploading
  <2>3. CASE up.fed = up.written /\ up.end = "done" /\ AfterBody /\ sock' = sock
    BY <1>10, <2>1, <2>3 DEF PumpReads, AfterBody, TypeOK, Uploading
  <2>4. CASE PumpFails
    BY <1>10, <2>1, <2>4 DEF PumpReads, PumpFails, TypeOK, Uploading
  <2>. QED BY <1>10, <2>2, <2>3, <2>4 DEF PumpReads
<1>11. CASE PumpWrites
  <2>1. Decided' = Decided /\ wpc' = wpc
    BY <1>11, Zenon DEF PumpWrites, Decided
  <2>2. CASE sock' = sock /\ up' = [up EXCEPT !.pc = "reading", !.written = @ + 1]
    <3>1. up'.pc = "reading" /\ up'.fed = up.fed /\ up'.written = up.written + 1
      BY <2>2 DEF TypeOK
    <3>. QED BY <1>11, <2>1, <2>2, <3>1 DEF PumpWrites, TypeOK, Uploading
  <2>3. CASE PumpFails
    BY <1>11, <2>1, <2>3 DEF PumpWrites, PumpFails, TypeOK, Uploading
  <2>. QED BY <1>11, <2>2, <2>3 DEF PumpWrites
<1>12. CASE PumpSleeps
  BY <1>12 DEF PumpSleeps, TypeOK, Uploading, Decided
<1>13. CASE PumpCloses
  BY <1>13 DEF PumpCloses, PumpFails, TypeOK, Uploading, Decided
<1>14. CASE TargetSends \/ TargetEnds \/ TargetStalls \/ RespMoves
  BY <1>1, <1>14 DEF TargetSends, TargetEnds, TargetStalls, TargetMoves, RespMoves
<1>15. CASE UNCHANGED vars
  BY <1>1, <1>15 DEF vars
<1>. QED BY <1>2, <1>3, <1>4, <1>5, <1>6, <1>7, <1>8, <1>9, <1>10, <1>11, <1>12, <1>13, <1>14, <1>15
     DEF Next

\* Every step keeps the response at its place.
LEMMA RespondingStep == TypeOK /\ Uploading /\ Responding /\ [Next]_vars => Responding'
<1>. SUFFICES ASSUME TypeOK, Uploading, Responding, [Next]_vars PROVE Responding'
  OBVIOUS
<1>. USE DEF routed, TypeOK, Responding
<1>1. ASSUME UNCHANGED <<target, resp>>, sock' = sock \/ sock \notin {"half", "closed"} PROVE Responding'
  BY <1>1
<1>2. ASSUME NEW request \in RawRequests, SendRaw(request) PROVE Responding'
  BY <1>1, <1>2 DEF SendRaw, SendRequest
<1>3. ASSUME NEW c \in Calls, CallDo(c[1], c[2]) \/ CallDial(c[1], c[2]) PROVE Responding'
  BY <1>1, <1>3 DEF CallDo, CallDial, SendRequest
<1>4. CASE BodyArrives \/ BodyEnds
  BY <1>4 DEF BodyArrives, BodyEnds, Feeding
<1>5. CASE ClientLeaves \/ DoReturns
  BY <1>5 DEF ClientLeaves, DoReturns, Abandon
<1>6. CASE Route \/ FetchAnswers \/ ConnectFails
  BY <1>1, <1>6 DEF Route, FetchAnswers, ConnectFails
<1>7. CASE Connected
  BY <1>1, <1>7 DEF Connected, Uploading
<1>8. CASE PumpReads \/ PumpWrites \/ PumpSleeps \/ PumpCloses
  BY <1>1, <1>8 DEF PumpReads, PumpWrites, PumpSleeps, PumpCloses, Uploading
<1>9. CASE TargetSends \/ TargetEnds \/ TargetStalls
  BY <1>9 DEF TargetSends, TargetEnds, TargetStalls, TargetMoves
<1>10. CASE RespMoves
  BY <1>10 DEF RespMoves, Uploading
<1>11. CASE UNCHANGED vars
  BY <1>1, <1>11 DEF vars
<1>. QED BY <1>2, <1>3, <1>4, <1>5, <1>6, <1>7, <1>8, <1>9, <1>10, <1>11 DEF Next

-----------------------------------------------------------------------------
(* Theorems *)

\* The invariant of the exchange.
LEMMA Invariant == Spec => []Inv
<1>1. Inv /\ [Next]_vars => Inv'
  BY TypeStep, RoutingStep, CallingStep, UploadingStep, RespondingStep DEF Inv
<1>. QED BY InvInit, <1>1, PTL DEF Spec

\* Types, for any deployments, callers and requests.
THEOREM ExchangeTypes == Spec => []TypeOK
<1>1. Inv => TypeOK
  BY DEF Inv
<1>. QED BY Invariant, <1>1, PTL

\* No connection and no fetch without the authorisation its route requires, whatever
\* the Worker's profile and configuration and whatever is sent to it.
THEOREM Authorisation == Spec => []OutboundIsAuthorised
<1>1. Inv => OutboundIsAuthorised
  <2>. SUFFICES ASSUME Inv, NEW d \in outbound, NEW r \in wire PROVE Authorised(d, r, deployed)
    BY DEF OutboundIsAuthorised, Authorised
  <2>1. deployed.profile \in Profiles
    BY DeploymentsAssumption DEF Inv, Routing, Profiles
  <2>2. d = Fetch(deployed.profile, r, deployed) /\ d.kind \in Connecting
    BY DEF Inv, Routing
  <2>. QED BY <2>1, <2>2, ConnectingIsAuthorised
<1>. QED BY Invariant, <1>1, PTL

\* The Go SDK's claims and the Worker's reading of them agree, for every call.
THEOREM Agreement == Spec => []AskedIsDone
<1>1. Inv => AskedIsDone
  <2>. SUFFICES ASSUME Inv PROVE AskedIsDone
    OBVIOUS
  <2>1. ASSUME NEW a \in asked, NEW d \in outbound
        PROVE  /\ d.host = a.call.host /\ d.port = a.call.port
               /\ d.kind = IF a.op = "dial" THEN "tunnel" ELSE "payload"
               /\ d.tls = "on" <=>
                    IF a.op = "dial" \/ a.call.tls = {} THEN a.client.tls = "on" ELSE a.call.tls = {"on"}
               /\ d.closeAfter = IF a.op = "dial" THEN {} ELSE Milliseconds(a.call)
    <3>1. PICK r \in wire : d = Fetch(deployed.profile, r, deployed) /\ d.kind \in Connecting
      BY DEF Inv, Routing
    <3>. QED BY <3>1, AskedRoute, Zenon DEF Inv
  <2>. QED BY <2>1, Zenon DEF AskedIsDone, Inv, Calling, Milliseconds
<1>. QED BY Invariant, <1>1, PTL

\* The half-close comes after the body and the delay.
THEOREM HalfClose == Spec => []HalfCloseOnTime
<1>1. Inv => HalfCloseOnTime
  BY DEF Inv, Uploading, HalfCloseOnTime
<1>. QED BY Invariant, <1>1, PTL

\* What ends like a complete response is one, unless the upload failed or the write close
\* that the request asked for, due once its whole body was written, has ended it.
THEOREM Completeness == Spec => []ResponseIsComplete
<1>1. Inv => ResponseIsComplete
  BY DEF Inv, Uploading, Responding, ResponseIsComplete
<1>. QED BY Invariant, <1>1, PTL
==============================================================================
