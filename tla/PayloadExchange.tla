--------------------------- MODULE PayloadExchange ---------------------------
(***************************************************************************)
(* One request from the client's call to the last byte of the answer:      *)
(* Client.Do, or a direct request of another client, the Worker's routing, *)
(* and runPayloadExchange (worker/src/response/payload-stream.ts) between  *)
(* the request's body, the socket and the response. What a tunnel does     *)
(* after it is connected is WssTunnel; a fetch ends with its answer.       *)
(*                                                                         *)
(*   up     the upload: where pipeRequestToSocket is, the chunks of the    *)
(*          body that arrived and that are written, how the body ended,    *)
(*          and whether the sleep is over                                  *)
(*   sock   the socket: "half" when its writable side is closed            *)
(*   target the chunks the target sent, its end, and whether it has        *)
(*          stopped reading                                                *)
(*   resp   the chunks the client got and how the response ended           *)
(***************************************************************************)
EXTENDS WorkerRouting

CONSTANTS Deployments,   \* [profile, authSecret, directBearer]
          Calls,         \* <<client, call>> of the SDK's callers
          RawRequests,   \* requests no SDK built
          MaxChunks      \* bound: chunks each way

ASSUME MaxChunksAssumption == MaxChunks \in Nat
ASSUME DeploymentsAssumption ==
  \A d \in Deployments : d.profile \in {"full", "wssOnly", "directConnect", "urlFull"}
ASSUME CallsAssumption ==
  \A c \in Calls :
    /\ c[2] \in [network : STRING, host : STRING, port : Int, tls : SUBSET STRING, closeAfter : SUBSET Int]
    /\ \A x, y \in c[2].tls : x = y

VARIABLES deployed, asked, wire, wpc, answer, outbound, up, sock, target, resp, result

vars == <<deployed, asked, wire, wpc, answer, outbound, up, sock, target, resp, result>>
routed == <<deployed, asked, wire, outbound>>

Request == CHOOSE r \in wire : TRUE
Decided == CHOOSE d \in outbound : TRUE

Init ==
  /\ deployed \in Deployments
  /\ asked = {} /\ wire = {} /\ outbound = {}
  /\ wpc = "idle" /\ answer = "none" /\ result = "none"
  /\ up = [pc |-> "off", fed |-> 0, written |-> 0, end |-> "open", waited |-> FALSE]
  /\ sock = "none"
  /\ target = [sent |-> 0, end |-> "no", stalled |-> FALSE]
  /\ resp = [passed |-> 0, end |-> "open"]

-----------------------------------------------------------------------------
(* The client *)

SendRequest(requests) ==
  /\ wpc = "idle" /\ wire = {} /\ result = "none"
  /\ wire' = requests
  /\ result' = IF requests = {} THEN "refused" ELSE "waiting"
  /\ UNCHANGED <<deployed, wpc, answer, outbound, up, sock, target, resp>>

\* Client.Do and Client.Dial up to the request.
CallDo(client, call) ==
  SendRequest(Do(client, call)) /\ asked' = {[client |-> client, call |-> call, op |-> "payload"]}
CallDial(client, call) ==
  SendRequest(Dial(client, call)) /\ asked' = {[client |-> client, call |-> call, op |-> "dial"]}
SendRaw(request) == SendRequest({request}) /\ asked' = asked

Feeding == wpc \in {"connecting", "streaming"} /\ up.end = "open" /\ resp.end # "gone"

BodyArrives ==
  /\ Feeding /\ up.fed < MaxChunks
  /\ up' = [up EXCEPT !.fed = @ + 1]
  /\ UNCHANGED <<routed, wpc, answer, sock, target, resp, result>>
BodyEnds ==
  /\ Feeding
  /\ up' = [up EXCEPT !.end = "done"]
  /\ UNCHANGED <<routed, wpc, answer, sock, target, resp, result>>

\* The request is cancelled, or its connection breaks: an unfinished body fails.
Abandon ==
  /\ resp' = [resp EXCEPT !.end = "gone"]
  /\ up' = IF up.end = "open" THEN [up EXCEPT !.end = "broken"] ELSE up
ClientLeaves ==
  /\ wpc \in {"connecting", "streaming"} /\ resp.end = "open"
  /\ Abandon
  /\ UNCHANGED <<routed, wpc, answer, sock, target, result>>

\* The end of Do: the status, and the HTTP version the connection happened to have.
DoReturns ==
  /\ \E a \in asked : a.op = "payload"
  /\ result = "waiting" /\ answer # "none" /\ resp.end # "gone"
  /\ \/ /\ answer # "200"
        /\ result' = "rejected" /\ UNCHANGED <<resp, up>>
     \/ /\ answer = "200"
        /\ result' = "response" /\ UNCHANGED <<resp, up>>
     \/ /\ answer = "200"
        /\ result' = "protocol" /\ Abandon
  /\ UNCHANGED <<routed, wpc, answer, sock, target>>

-----------------------------------------------------------------------------
(* The Worker *)

Route ==
  /\ wpc = "idle" /\ wire # {}
  /\ LET d == Fetch(deployed.profile, Request, deployed)
     IN  IF d.kind \in {"payload", "tunnel", "fetch"}
           THEN /\ outbound' = {d} /\ answer' = answer
                /\ wpc' = CASE d.kind = "payload" -> "connecting"
                            [] d.kind = "tunnel"  -> "tunnel"
                            [] OTHER              -> "fetching"
           ELSE outbound' = outbound /\ answer' = d.kind /\ wpc' = "answered"
  /\ UNCHANGED <<deployed, asked, wire, up, sock, target, resp, result>>

\* runFetchExchange: the target's answer, or 502.
FetchAnswers ==
  /\ wpc = "fetching"
  /\ wpc' = "answered" /\ answer' \in {"target", "502"}
  /\ UNCHANGED <<routed, up, sock, target, resp, result>>

ConnectFails ==
  /\ wpc = "connecting"
  /\ wpc' = "answered" /\ answer' = "502"
  /\ UNCHANGED <<routed, up, sock, target, resp, result>>

Connected ==
  /\ wpc = "connecting"
  /\ wpc' = "streaming" /\ answer' = "200" /\ sock' = "open"
  /\ up' = [up EXCEPT !.pc = "reading"]
  /\ UNCHANGED <<routed, target, resp, result>>

\* The catch around pipeRequestToSocket.
PumpFails ==
  up' = [up EXCEPT !.pc = "failed"] /\ sock' = "closed"

\* Mutant: the delay runs after the half-close.
AfterBodyClosesFirst ==
  up' = [up EXCEPT !.pc = IF Decided.closeAfter = {} THEN "done" ELSE "closing"]

\* Mutant: the write close is inside `if (request.body)`.
AfterBodyNeedsBody ==
  up' = [up EXCEPT !.pc = CASE Decided.closeAfter = {} \/ up.fed = 0 -> "done"
                            [] Decided.closeAfter = {0} -> "closing"
                            [] OTHER                    -> "sleeping"]

\* Mutant: the missing option counts as a delay of 0.
AfterBodyByDefault ==
  up' = [up EXCEPT !.pc = IF Decided.closeAfter \subseteq {0} THEN "closing" ELSE "sleeping"]

\* `if (options.writeCloseAfterMs !== undefined)`
AfterBody ==
  up' = [up EXCEPT !.pc = CASE Decided.closeAfter = {}  -> "done"
                            [] Decided.closeAfter = {0} -> "closing"
                            [] OTHER                    -> "sleeping"]

PumpReads ==
  /\ up.pc = "reading"
  /\ \/ up.fed > up.written /\ up' = [up EXCEPT !.pc = "writing"] /\ sock' = sock
     \/ up.fed = up.written /\ up.end = "done" /\ AfterBody /\ sock' = sock
     \/ up.end = "broken" /\ PumpFails
  /\ UNCHANGED <<routed, wpc, answer, target, resp, result>>

\* A write to a target that has closed its socket may fail.
PumpWrites ==
  /\ up.pc = "writing"
  /\ \/ ~target.stalled /\ sock' = sock
        /\ up' = [up EXCEPT !.pc = "reading", !.written = @ + 1]
     \/ target.end # "no" /\ PumpFails
  /\ UNCHANGED <<routed, wpc, answer, target, resp, result>>

PumpSleeps ==
  /\ up.pc = "sleeping"
  /\ up' = [up EXCEPT !.pc = "closing", !.waited = TRUE]
  /\ UNCHANGED <<routed, wpc, answer, sock, target, resp, result>>

PumpCloses ==
  /\ up.pc = "closing"
  /\ \/ up' = [up EXCEPT !.pc = "done"] /\ sock' = "half"
     \/ target.end # "no" /\ PumpFails
  /\ UNCHANGED <<routed, wpc, answer, target, resp, result>>

PumpStep == PumpReads \/ PumpWrites \/ PumpSleeps \/ PumpCloses

-----------------------------------------------------------------------------
(* The target and the response, which the runtime streams *)

TargetMoves(t) ==
  /\ wpc = "streaming" /\ target.end = "no"
  /\ target' = t
  /\ UNCHANGED <<routed, wpc, answer, up, sock, resp, result>>
TargetSends ==
  target.sent < MaxChunks /\ sock # "closed" /\ TargetMoves([target EXCEPT !.sent = @ + 1])
TargetEnds == \E e \in {"eof", "reset"} : TargetMoves([target EXCEPT !.end = e])
TargetStalls == ~target.stalled /\ TargetMoves([target EXCEPT !.stalled = TRUE])

\* Closing the socket ends its readable side, and closing its writable side may end
\* the response too (docs/protocol.md:277); the client may take that for the end of
\* the body.
RespMoves ==
  /\ wpc = "streaming" /\ resp.end = "open"
  /\ \/ resp.passed < target.sent /\ sock # "closed"
        /\ resp' = [resp EXCEPT !.passed = @ + 1]
     \/ target.end = "eof" /\ resp.passed = target.sent
        /\ resp' = [resp EXCEPT !.end = "end"]
     \/ target.end = "reset" /\ resp' = [resp EXCEPT !.end = "error"]
     \/ sock \in {"half", "closed"} /\ \E e \in {"end", "error"} : resp' = [resp EXCEPT !.end = e]
  /\ UNCHANGED <<routed, wpc, answer, up, sock, target, result>>

Next ==
  \/ \E c \in Calls : CallDo(c[1], c[2]) \/ CallDial(c[1], c[2])
  \/ \E request \in RawRequests : SendRaw(request)
  \/ BodyArrives \/ BodyEnds \/ ClientLeaves \/ DoReturns
  \/ Route \/ FetchAnswers \/ ConnectFails \/ Connected
  \/ PumpReads \/ PumpWrites \/ PumpSleeps \/ PumpCloses
  \/ TargetSends \/ TargetEnds \/ TargetStalls \/ RespMoves

\* The event loop and its timers run; nothing makes client or target act.
Spec == Init /\ [][Next]_vars /\ WF_vars(PumpStep)

-----------------------------------------------------------------------------
(* Properties *)

TypeOK ==
  /\ wpc \in {"idle", "connecting", "fetching", "tunnel", "streaming", "answered"}
  /\ up \in [pc : {"off", "reading", "writing", "sleeping", "closing", "done", "failed"},
             fed : 0..MaxChunks, written : 0..MaxChunks,
             end : {"open", "done", "broken"}, waited : BOOLEAN]
  /\ sock \in {"none", "open", "half", "closed"}
  /\ target \in [sent : 0..MaxChunks, end : {"no", "eof", "reset"}, stalled : BOOLEAN]
  /\ resp \in [passed : 0..MaxChunks, end : {"open", "end", "error", "gone"}]
  /\ result \in {"none", "refused", "waiting", "rejected", "response", "protocol"}

\* Every outbound connection or fetch belongs to a request that held, for its own
\* route, what docs/protocol.md requires: on /wss, /h2 and /h3 a token sealed with
\* the configured secret for this very method and path, in time, whose claims name
\* the target; elsewhere the configured bearer. A fetch carries on no credential
\* and no header of the hop it came by.
OutboundIsAuthorised ==
  \A d \in outbound, r \in wire :
    /\ IF r.path \in {"/wss", "/h2", "/h3"}
         THEN /\ r.auth.kind = "token" /\ r.auth.timely
              /\ r.auth.secret = deployed.authSecret /\ deployed.authSecret # ""
              /\ r.auth.aad = <<r.method, r.path>>
              /\ d.host = r.auth.claims.host /\ d.port = r.auth.claims.port
         ELSE /\ r.auth.kind = "static" /\ r.auth.value = deployed.directBearer
              /\ deployed.directBearer # ""
    /\ d.kind = "fetch" =>
         d.headers \cap ({"authorization", "host"} \cup HopByHop \cup r.listed) = {}

\* A call of the SDK reaches exactly the target it named, with exactly the TLS mode
\* and the write close it asked for, a delay of 0 included: the Go client's claims
\* and the Worker's reading of them agree. A Worker that deploys the route under
\* the same secret never answers 404 to a request the client was willing to send.
AskedIsDone ==
  \A a \in asked :
    /\ \A d \in outbound :
         /\ d.host = a.call.host /\ d.port = a.call.port
         /\ d.kind = IF a.op = "dial" THEN "tunnel" ELSE "payload"
         /\ d.tls = "on" <=>
              IF a.op = "dial" \/ a.call.tls = {} THEN a.client.tls = "on" ELSE a.call.tls = {"on"}
         /\ d.closeAfter = IF a.op = "dial" THEN {} ELSE {t \div 1000 : t \in a.call.closeAfter}
    /\ deployed.profile = "full" /\ a.client.secret = deployed.authSecret =>
         answer \in {"none", "200", "502"}
    /\ result = "response" => outbound # {}

\* The writable side is closed only for a request that asked for it, after all of a
\* body that ended well is written, and not before the delay is over.
HalfCloseOnTime ==
  sock = "half" =>
    /\ Decided.closeAfter # {}
    /\ up.end = "done" /\ up.written = up.fed
    /\ Decided.closeAfter # {0} => up.waited

\* A response that ends like a complete one is complete, unless the upload failed, or
\* the request asked for the write close that may end it early and all of its body is
\* written. So a request that asked for none is never cut while its upload is good.
ResponseIsComplete ==
  resp.end = "end" =>
    \/ target.end = "eof" /\ resp.passed = target.sent
    \/ up.pc = "failed"
    \/ Decided.closeAfter # {} /\ up.end = "done" /\ up.written = up.fed

\* Once the body of a request with a write close has ended, the target's side is
\* closed in the end, whether there was anything to upload or not.
HalfCloseArrives ==
  (up.pc # "off" /\ up.end = "done" /\ Decided.closeAfter # {})
    ~> (sock \in {"half", "closed"} \/ target.stalled)
==============================================================================
