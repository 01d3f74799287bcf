----------------------------- MODULE AgentServer -----------------------------
(***************************************************************************)
(* socksagent/agent.go: serve with its accept loop and its closer, and     *)
(* what a handler says to its client before the relay starts. The relay    *)
(* itself is AgentProxy; here it runs until it ends.                       *)
(*                                                                         *)
(*   ln       each listener: off, open, or closed                          *)
(*   served   each serve: off, running, stopped (Accept has failed), or    *)
(*            what it returned, nil or error                               *)
(*   broken   listeners on which Accept failed although they were open     *)
(*   conn     each connection: where its handler is, what the client said  *)
(*            that is not read yet, the last answer, what the client       *)
(*            asked for, what was dialled, and whether that is open        *)
(*                                                                         *)
(* A client's message is a record with its kind: "greeting" [version,      *)
(* methods], "socks" [version, command, atyp, host, port, cut] with the    *)
(* place where its bytes stop, or "http" [method, host, port].             *)
(***************************************************************************)
EXTENDS ClientRequest

CONSTANT Conns

Listeners == {"socks", "http"}

VARIABLES cancelled, ln, served, broken, conn

agentVars == <<cancelled, ln, served, broken, conn>>
lnVars == <<cancelled, ln, served, broken>>

NoConn == [pc |-> "none", via |-> "socks", inbox |-> {}, gone |-> FALSE,
           heard |-> "nothing", asked |-> {}, dialled |-> {}, remote |-> FALSE]

AgentInit ==
  /\ cancelled = FALSE /\ broken = {}
  /\ ln = [l \in Listeners |-> "off"] /\ served = [l \in Listeners |-> "off"]
  /\ conn = [k \in Conns |-> NoConn]

-----------------------------------------------------------------------------
(* serve *)

Listen(l) ==
  /\ ln' = [ln EXCEPT ![l] = "open"] /\ served' = [served EXCEPT ![l] = "running"]

Accepts(k) ==
  /\ conn[k].pc = "queued" /\ served[conn[k].via] = "running" /\ ln[conn[k].via] = "open"
  /\ conn' = [conn EXCEPT ![k].pc = IF conn[k].via = "socks" THEN "greeting" ELSE "http"]
  /\ UNCHANGED lnVars

\* Accept fails on a closed listener, or for want of a file descriptor.
AcceptFails(l) ==
  /\ served[l] = "running"
  /\ served' = [served EXCEPT ![l] = "stopped"]
  /\ broken' = IF ln[l] = "open" THEN broken \cup {l} ELSE broken
  /\ UNCHANGED <<cancelled, ln, conn>>

\* Closing resets the connections nobody has accepted.
CloseListener(l) ==
  /\ ln' = [ln EXCEPT ![l] = "closed"]
  /\ conn' = [k \in Conns |-> IF conn[k].pc = "queued" /\ conn[k].via = l
                                THEN [conn[k] EXCEPT !.pc = "closed"] ELSE conn[k]]

\* The goroutine that waits for the context.
Closer(l) ==
  /\ cancelled /\ ln[l] = "open" /\ CloseListener(l)
  /\ UNCHANGED <<cancelled, served, broken>>

\* Mutant: serve reports Accept's error whatever the context says.
ServeReportsAccept(l) ==
  /\ served[l] = "stopped"
  /\ served' = [served EXCEPT ![l] = "error"]
  /\ UNCHANGED <<cancelled, ln, broken, conn>>

ServeReturns(l) ==
  /\ served[l] = "stopped"
  /\ served' = [served EXCEPT ![l] = IF cancelled THEN "nil" ELSE "error"]
  /\ UNCHANGED <<cancelled, ln, broken, conn>>

-----------------------------------------------------------------------------
(* A handler until the relay *)

Answer(k, reply, pc) ==
  conn' = [conn EXCEPT ![k].inbox = {}, ![k].pc = pc, ![k].heard = IF conn[k].gone THEN @ ELSE reply]
HangUp(k) == conn' = [conn EXCEPT ![k].inbox = {}, ![k].pc = "closed", ![k].remote = FALSE]

\* negotiate up to the method.
Greeting(k, m) ==
  IF m.kind # "greeting" \/ m.version # 5 THEN HangUp(k)
  ELSE IF 0 \notin m.methods THEN Answer(k, "noMethod", "closed")
  ELSE IF conn[k].gone THEN HangUp(k)
  ELSE Answer(k, "method", "request")

DialNext(k, host, port) ==
  conn' = [conn EXCEPT ![k].inbox = {}, ![k].pc = "dialing",
                       ![k].dialled = {[host |-> host, port |-> port]}]

\* negotiate from the request on, with readAddr.
SocksRequest(k, m) ==
  IF m.kind # "socks" THEN HangUp(k)
  ELSE IF m.version # 5 \/ m.command # 1 THEN Answer(k, "notConnect", "closed")
  ELSE IF \/ m.atyp \notin {"v4", "domain", "v6"} \/ m.cut = "address"
          \/ m.atyp = "domain" /\ m.host = ""
    THEN Answer(k, "badAddress", "closed")
  ELSE IF m.cut = "port" THEN HangUp(k)
  ELSE DialNext(k, m.host, m.port)

\* handleHTTPConnectClient
HttpRequest(k, m) ==
  IF m.kind # "http" THEN HangUp(k)
  ELSE IF m.method # "CONNECT" THEN Answer(k, "notConnect", "closed")
  ELSE IF ~SplitHostPort(m.host, m.port) THEN Answer(k, "badAddress", "closed")
  ELSE DialNext(k, m.host, m.port)

\* A client that has gone ends what is being read.
Reads(k) ==
  /\ \/ \E m \in conn[k].inbox :
          \/ conn[k].pc = "greeting" /\ Greeting(k, m)
          \/ conn[k].pc = "request"  /\ SocksRequest(k, m)
          \/ conn[k].pc = "http"     /\ HttpRequest(k, m)
     \/ conn[k].pc \in {"greeting", "request", "http"} /\ conn[k].inbox = {} /\ conn[k].gone
        /\ HangUp(k)
  /\ UNCHANGED lnVars

\* Mutant: the client is told before the Worker has answered.
RepliesEarly(k) ==
  /\ conn[k].pc = "dialing"
  /\ Answer(k, "connected", "replying")
  /\ UNCHANGED lnVars

\* Dialer.Dial: the Worker connects, or refuses, or DialTimeout or the cancel ends it.
Dials(k) ==
  /\ conn[k].pc = "dialing"
  /\ \E ok \in BOOLEAN :
       /\ ok => \A d \in conn[k].dialled : ValidHost(d.host) /\ d.port \in Ports
       /\ conn' = [conn EXCEPT ![k].pc = "replying", ![k].remote = ok]
  /\ UNCHANGED lnVars

\* reply(err); a success that cannot be written closes the remote side.
Replies(k) ==
  /\ conn[k].pc = "replying"
  /\ IF ~conn[k].remote THEN Answer(k, "refused", "closed")
     ELSE IF conn[k].gone THEN HangUp(k)
     ELSE Answer(k, "connected", "relaying")
  /\ UNCHANGED lnVars

RelayEnds(k) ==
  /\ conn[k].pc = "relaying" /\ HangUp(k)
  /\ UNCHANGED lnVars

HandlerStep(k) == Accepts(k) \/ Reads(k) \/ Dials(k) \/ Replies(k) \/ RelayEnds(k)

-----------------------------------------------------------------------------
(* The client's side of a connection; the slot of one that is over is used again *)

Connects(k, l) ==
  /\ ln[l] = "open" /\ conn[k].pc \in {"none", "closed"}
  /\ conn' = [conn EXCEPT ![k] = [NoConn EXCEPT !.pc = "queued", !.via = l]]

Says(k, m) ==
  conn' = [conn EXCEPT ![k].inbox = {m},
             ![k].asked = IF m.kind = "greeting" THEN @ ELSE {[host |-> m.host, port |-> m.port]}]
Goes(k) == conn' = [conn EXCEPT ![k].gone = TRUE]

\* A client is told that it is connected only when the Worker has connected the very
\* target it asked for, and told of a refusal only when nothing was connected; a
\* handler that has hung up has left no remote connection.
RepliesAreTruthful ==
  \A k \in Conns :
    /\ conn[k].heard = "connected" =>
         /\ conn[k].dialled = conn[k].asked
         /\ conn[k].remote \/ conn[k].pc = "closed"
    /\ conn[k].heard = "refused" \/ conn[k].pc = "closed" => ~conn[k].remote
==============================================================================
