---------------------------- MODULE ClientRequest ----------------------------
(***************************************************************************)
(* sdk/go: the request that Client.Dial and Client.Do put on the wire, or  *)
(* none when the call fails before anything is sent (client.go, route.go,  *)
(* options.go, token.Seal).                                                *)
(*                                                                         *)
(* A value that may be missing (an option, a nil pointer, an omitted JSON  *)
(* field) is a set of at most one element, and so is the request itself.   *)
(* A client is [transport, scheme, insecure, secret, tls, http] and a call *)
(* [network, host, port, tls, closeAfter], durations in microseconds.      *)
(* Hosts are named by what the code looks at: "" is empty, "crlf" has a    *)
(* line break, "long" has more than 253 bytes and "huge" more than 255.    *)
(***************************************************************************)
EXTENDS Integers

Ports == 1..65535
MaxWriteCloseAfter == 600000000
MaxWriteCloseAfterMs == 600000

\* ParseTLSMode accepts these; the first two are "off".
TLSModes == {"", "off", "on"}

\* SplitHostPort, which passes a host that is too long.
SplitHostPort(h, p) == h \notin {"", "crlf"} /\ p \in Ports

\* The hosts a token may name.
ValidHost(h) == h \notin {"", "crlf", "long", "huge"}

\* applyDoOptions
ValidOptions(call) ==
  /\ call.closeAfter \subseteq 0..MaxWriteCloseAfter
  /\ call.tls \subseteq TLSModes

Transport(client) == IF client.transport = "" THEN "wss" ELSE client.transport

\* endpoint: http:// and ws:// need InsecureAllowHTTP.
ValidEndpoint(client) ==
  client.scheme \in {"https", "wss"} \cup IF client.insecure THEN {"http", "ws"} ELSE {}

WireScheme(client, ws) ==
  CASE client.scheme \in {"http", "ws"} -> IF ws THEN "ws" ELSE "http"
    [] OTHER                            -> IF ws THEN "wss" ELSE "https"

\* The mode of the call, which is the client's unless an option overrides it.
TargetTLS(client, call) ==
  IF call.tls = {} THEN client.tls ELSE CHOOSE m \in call.tls : TRUE

\* Mutant: write_close_after_ms is an int with omitempty instead of a pointer.
ClaimsOmitZero(client, call, op) ==
  [op |-> op, host |-> call.host, port |-> call.port,
   tls |-> {TargetTLS(client, call)} \ {"", "off"},
   closeAfterMs |-> {d \div 1000 : d \in call.closeAfter} \ {0}]

\* token.Claims as JSON carries them: an omitted field is absent, a delay of 0
\* is there, and Milliseconds() drops the fraction.
Claims(client, call, op) ==
  [op |-> op, host |-> call.host, port |-> call.port,
   tls |-> {TargetTLS(client, call)} \ {"", "off"},
   closeAfterMs |-> {d \div 1000 : d \in call.closeAfter}]

\* validateClaims, in token.Seal
ValidateClaims(c) ==
  /\ c.op \in {"dial", "payload"} /\ ValidHost(c.host) /\ c.port \in Ports
  /\ c.tls \subseteq {"off", "on"} /\ c.closeAfterMs \subseteq 0..MaxWriteCloseAfterMs

\* token.Seal under AAD(method, path). What else the token carries, the nonce
\* and the time stamp, is the subject of NonceCache.
Seal(client, method, path, claims) ==
  [kind |-> "token", secret |-> client.secret, aad |-> <<method, path>>,
   claims |-> claims, timely |-> TRUE]

\* buildRoute
BuildRoute(client, call, method, path, op) ==
  LET claims == Claims(client, call, op)
  IN  IF /\ call.network = "tcp" /\ SplitHostPort(call.host, call.port)
         /\ ValidEndpoint(client) /\ TargetTLS(client, call) \in TLSModes
         /\ client.secret # "" /\ ValidateClaims(claims)
        THEN {[method |-> method, path |-> path, upgrade |-> path = "/wss",
               scheme |-> WireScheme(client, path = "/wss"),
               auth |-> Seal(client, method, path, claims),
               url |-> [host |-> "", port |-> 0, form |-> "none"],
               tls |-> {}, closeAfter |-> {}, headers |-> {"authorization"}, listed |-> {}]}
        ELSE {}

\* Dial takes no options.
Dial(client, call) ==
  IF Transport(client) = "wss"
    THEN BuildRoute(client, [call EXCEPT !.tls = {}, !.closeAfter = {}], "GET", "/wss", "dial")
    ELSE {}

Do(client, call) ==
  LET transport == Transport(client)
  IN  IF /\ transport \in {"h2", "h3"} /\ ValidOptions(call)
         /\ transport = "h3" => client.http
        THEN BuildRoute(client, call, "POST", IF transport = "h2" THEN "/h2" ELSE "/h3", "payload")
        ELSE {}
==============================================================================
