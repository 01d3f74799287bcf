-------------------------- MODULE MCPayloadExchange --------------------------
(* Inputs of the PayloadExchange run: a good one of each kind, and every      *)
(* value of each of its parts with the other parts good.                      *)
EXTENDS PayloadExchange

Deployed == [profile |-> "full", authSecret |-> "k", directBearer |-> "b"]
MCDeployments ==
  {[Deployed EXCEPT !.profile = p] : p \in {"full", "wssOnly", "directConnect", "urlFull"}}
  \cup {[Deployed EXCEPT !.authSecret = k] : k \in {"", "other"}}
  \cup {[Deployed EXCEPT !.directBearer = ""]}

Caller == [transport |-> "h2", scheme |-> "https", insecure |-> FALSE, secret |-> "k",
           tls |-> "off", http |-> TRUE]
Callers ==
  {[Caller EXCEPT !.transport = t] : t \in {"h2", "h3", "wss", "", "quic"}}
  \cup {[Caller EXCEPT !.scheme = s] : s \in {"wss", "http", "ftp"}}
  \cup {[Caller EXCEPT !.scheme = "http", !.insecure = TRUE]}
  \cup {[Caller EXCEPT !.secret = ""], [Caller EXCEPT !.transport = "h3", !.http = FALSE]}
  \cup {[Caller EXCEPT !.tls = m, !.transport = t] : m \in {"on", "starttls"}, t \in {"h2", "wss"}}

Call == [network |-> "tcp", host |-> "t", port |-> 443, tls |-> {}, closeAfter |-> {}]
CallsOfOne ==
  {[Call EXCEPT !.closeAfter = {d}] : d \in {-1, 0, 999, 200000, 600000000, 600000001}}
  \cup {[Call EXCEPT !.tls = {m}] : m \in {"on", "off", "starttls"}}
  \cup {[Call EXCEPT !.host = h] : h \in {"t", "", "crlf", "long"}}
  \cup {[Call EXCEPT !.port = p] : p \in {0, 1, 65535, 65536}}
  \cup {[Call EXCEPT !.network = "udp"]}

MCCalls ==
  (Callers \X {Call, [Call EXCEPT !.tls = {"off"}]}) \cup ({Caller} \X CallsOfOne)

Plain == [method |-> "POST", path |-> "/direct", upgrade |-> FALSE, scheme |-> "https",
          auth |-> [kind |-> "static", value |-> "b"],
          url |-> [host |-> "t", port |-> 80, form |-> "plain"],
          tls |-> {}, closeAfter |-> {},
          headers |-> {"authorization", "host", "connection", "te", "x-hop", "accept"},
          listed |-> {"x-hop"}]
ByUrl == [Plain EXCEPT !.path = "/direct-url", !.url.form = "tcp"]
ByFetch == [ByUrl EXCEPT !.url.form = "https"]
Payload == CHOOSE r \in Do(Caller, Call) : TRUE
Dialled == CHOOSE r \in Dial([Caller EXCEPT !.transport = "wss"], Call) : TRUE
MCRawRequests ==
  UNION {{r, [r EXCEPT !.auth = NoAuth], [r EXCEPT !.auth.value = "x"],
          [r EXCEPT !.method = "GET"], [r EXCEPT !.url.host = "crlf"],
          [r EXCEPT !.url.port = 0], [r EXCEPT !.url.form = "bad"],
          [r EXCEPT !.closeAfter = {-1}], [r EXCEPT !.closeAfter = {NoDelay}],
          [r EXCEPT !.closeAfter = {600001}], [r EXCEPT !.tls = {"on"}],
          [r EXCEPT !.tls = {"starttls"}], [r EXCEPT !.tls = {""}]} : r \in {Plain, ByUrl, ByFetch}}
  \cup {[Plain EXCEPT !.method = "GET", !.path = p, !.auth = a] :
          p \in {"/__meta", "/nowhere"}, a \in {NoAuth, Plain.auth}}
  \cup {[Payload EXCEPT !.path = "/h3"], [Payload EXCEPT !.method = "GET"],
        [Payload EXCEPT !.auth.timely = FALSE], [Payload EXCEPT !.auth = Plain.auth],
        [Payload EXCEPT !.auth.claims.op = "dial"], [Payload EXCEPT !.auth.claims.port = 0],
        [Payload EXCEPT !.auth.claims.closeAfterMs = {600001}],
        [Payload EXCEPT !.path = "/wss"],
        Dialled, [Dialled EXCEPT !.upgrade = FALSE], [Dialled EXCEPT !.auth.claims.host = "long"],
        [Dialled EXCEPT !.path = "/h2"]}
==============================================================================
