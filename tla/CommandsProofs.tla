---------------------------- MODULE CommandsProofs ----------------------------
(***************************************************************************)
(* Theorems about Commands for any command lines, clients, messages and    *)
(* number of workers: what the agent tells its clients, what the exit      *)
(* statuses mean, and how evenly a pool spreads its calls.                 *)
(***************************************************************************)
EXTENDS Commands, SequenceTheorems, FiniteSetTheorems, TLAPS

-----------------------------------------------------------------------------
(* The inductive invariant: types *)

Hosts == STRING \cup {"v4"}
Hello == [kind |-> "greeting", version |-> 5, methods |-> {0}]
SocksRequests == [kind : {"socks"}, version : {5}, command : {1}, cut : {"no"},
                  atyp : {"v4", "v6", "domain"}, host : Hosts, port : Int]
Sayings == Messages \cup {Hello} \cup SocksRequests
Addresses == [host : Hosts, port : Int]

Handlers ==
  [pc : {"none", "queued", "greeting", "request", "http", "dialing", "replying", "relaying", "closed"},
   via : Listeners, inbox : SUBSET Sayings, gone : BOOLEAN,
   heard : {"nothing", "method", "noMethod", "notConnect", "badAddress", "connected", "refused"},
   asked : SUBSET Addresses, dialled : SUBSET Addresses, remote : BOOLEAN]
ConnType == conn \in [Conns -> Handlers]

ServeType ==
  /\ cancelled \in BOOLEAN /\ signalled \in BOOLEAN /\ broken \subseteq Listeners
  /\ ln \in [Listeners -> {"off", "open", "closed"}]
  /\ served \in [Listeners -> {"off", "running", "stopped", "nil", "error"}]

MainType ==
  /\ config \in Configs
  /\ main \in [pc : {"start", "listen socks", "listen http", "await", "drain", "build", "produce",
                     "wait", "cleanup", "stopped", "exited"},
               job : Nat, got : SUBSET Listeners]
  /\ exit \subseteq {0, 1, 2}

Workers == [pc : {"none", "idle", "running", "calling", "hello", "greeted", "requested", "exited"},
            job : Nat]
WorkersType == work \in [Conns -> Workers]

-----------------------------------------------------------------------------
(* The inductive invariant: connections *)

\* What is dialled is what was asked for, a remote connection belongs to a running
\* handler, and answers are the last thing before relay or end.
Answers(c) ==
  /\ c.pc \in {"dialing", "replying", "relaying"} => c.dialled = c.asked
  /\ c.remote => c.pc \in {"replying", "relaying"}
  /\ c.heard = "connected" =>
       c.pc \in {"relaying", "closed"} /\ c.dialled = c.asked /\ (c.remote \/ c.pc = "closed")
  /\ c.heard = "refused" => c.pc = "closed"
  /\ \A m \in c.inbox :
       m.kind # "greeting" => c.asked = {[host |-> m.host, port |-> m.port]}
Answering == \A k \in Conns : Answers(conn[k])

\* A worker that has not sent its request yet has a handler that has not read one.
Shakes(p, c) ==
  /\ p \in {"hello", "greeted"} =>
       c.via = "socks" /\ c.pc \in {"queued", "greeting", "request", "closed"}
  /\ p = "hello" => c.pc # "request" /\ c.inbox = {}
  /\ p = "greeted" /\ c.pc # "closed" => c.inbox = IF c.pc = "request" THEN {} ELSE {Hello}
Handshaking == \A w \in Conns : Shakes(work[w].pc, conn[w])

\* Only cfsbench with a good command line has workers.
Benching ==
  /\ main.pc = "build" => Bench /\ ValidConfig
  /\ \A w \in Conns : work[w].pc # "none" => Bench /\ ValidConfig

HandlersOK == ConnType /\ Answering
Basics == HandlersOK /\ MainType /\ WorkersType /\ Handshaking /\ Benching

\* Each job handed out is in work or has a result, and there are no others.
Busy(w) == work[w].pc \in {"running", "calling", "hello", "greeted", "requested"}
InHand(i) == (\E r \in results : r.job = i) \/ (\E w \in Conns : Busy(w) /\ work[w].job = i)
Accounts ==
  /\ results \subseteq [job : Nat, ok : BOOLEAN]
  /\ \A i \in Nat : i < main.job <=> InHand(i)
  /\ main.pc \in {"start", "build"} => results = {} /\ main.job = 0
  /\ main.pc \in {"wait", "cleanup", "stopped"} => main.job = config.requests
  /\ main.pc \in {"cleanup", "stopped"} => Failed = {} /\ \A w \in Conns : work[w].pc = "exited"

\* Which program is where, and what it listens on there.
Places ==
  /\ main.pc \in {"listen socks", "listen http", "await", "drain"} => ~Bench
  /\ main.pc \in {"build", "produce", "wait", "cleanup", "stopped"} => Bench
  /\ main.pc \in {"start", "build", "listen socks"} => ln["socks"] = "off"
  /\ main.pc \in {"start", "build", "listen socks", "listen http"} => ln["http"] = "off"
  /\ main.pc = "cleanup" /\ config.mode # "socks-wss" => ln["socks"] = "off"
  /\ main.pc = "produce" \/ main.pc = "wait" =>
       config.mode = "socks-wss" \/ ln["socks"] = "off"
  /\ main.pc = "stopped" => config.mode = "socks-wss" /\ ln["socks"] # "open"

\* Why a listener is closed, why a serve has stopped, and who has cancelled.
Serving ==
  /\ ServeType
  /\ \A l \in Listeners :
       /\ ln[l] = "off" => served[l] = "off"
       /\ ln[l] = "closed" => cancelled
       /\ served[l] = "stopped" => cancelled \/ broken # {}
       /\ served[l] = "nil" => cancelled
       /\ served[l] = "error" => broken # {}
  /\ ~Bench /\ exit = {} /\ cancelled => signalled

\* cfsbench has a pool or an agent, never both; the pool is open until the end.
Pooling ==
  /\ config.mode = "socks-wss" => pool = {}
  /\ exit = {} => \A p \in pool : "closed" \in DOMAIN p /\ p.closed = 0

Inv == Basics /\ Accounts /\ Places /\ Serving /\ Pooling /\ ExitStatusIsHonest
-----------------------------------------------------------------------------
(* What a handler does to its connection *)

HandlerOK(c) == c \in Handlers /\ Answers(c)
LEMMA SayingsKinds ==
  ASSUME NEW m \in Sayings, m.kind # "greeting"
  PROVE  [host |-> m.host, port |-> m.port] \in Addresses
<1>1. m.host \in Hosts /\ m.port \in Int
  <2>1. CASE m \in Messages
    BY <2>1, MessagesAssumption DEF Hosts
  <2>2. CASE m \in SocksRequests
    BY <2>2 DEF SocksRequests
  <2>3. m # Hello
    BY DEF Hello
  <2>. QED BY <2>1, <2>2, <2>3 DEF Sayings
<1>. QED BY <1>1 DEF Addresses

LEMMA OneHandler ==
  ASSUME HandlersOK, NEW k \in Conns, NEW c, HandlerOK(c), conn' = [conn EXCEPT ![k] = c]
  PROVE  HandlersOK'
<1>1. ConnType'
  BY DEF HandlersOK, HandlerOK, ConnType
<1>2. ASSUME NEW j \in Conns PROVE Answers(conn'[j])
  BY DEF HandlersOK, HandlerOK, ConnType, Answering
<1>. QED BY <1>1, <1>2, Zenon DEF HandlersOK, Answering

LEMMA AnswerOK ==
  ASSUME HandlersOK, NEW k \in Conns, NEW pc, NEW reply, Answer(k, reply, pc),
         \/ pc = "closed" /\ reply \in {"noMethod", "notConnect", "badAddress"}
            /\ conn[k].pc \in {"greeting", "request", "http"}
         \/ pc = "closed" /\ reply = "refused" /\ ~conn[k].remote
         \/ pc = "request" /\ reply = "method" /\ conn[k].pc = "greeting"
         \/ pc = "relaying" /\ reply = "connected" /\ conn[k].remote /\ conn[k].pc = "replying"
  PROVE  HandlersOK'
<1>. DEFINE c == [conn[k] EXCEPT !.inbox = {}, !.pc = pc, !.heard = IF conn[k].gone THEN @ ELSE reply]
<1>1. conn[k] \in Handlers /\ Answers(conn[k])
  BY DEF HandlersOK, ConnType, Answering
<1>2. conn' = [conn EXCEPT ![k] = c]
  BY DEF Answer, HandlersOK, ConnType
<1>3. c \in Handlers
  BY <1>1 DEF Handlers
<1>4. /\ c.pc = pc /\ c.remote = conn[k].remote /\ c.dialled = conn[k].dialled
      /\ c.asked = conn[k].asked /\ c.inbox = {} /\ c.heard \in {conn[k].heard, reply}
  BY <1>1 DEF Handlers
<1>. HIDE DEF c
<1>5. Answers(c)
  BY <1>1, <1>4 DEF Answers
<1>. QED BY <1>2, <1>3, <1>5, OneHandler DEF HandlerOK

LEMMA HangUpOK ==
  ASSUME HandlersOK, NEW k \in Conns, HangUp(k)
  PROVE  HandlersOK'
<1>. DEFINE c == [conn[k] EXCEPT !.inbox = {}, !.pc = "closed", !.remote = FALSE]
<1>1. conn[k] \in Handlers /\ Answers(conn[k])
  BY DEF HandlersOK, ConnType, Answering
<1>2. conn' = [conn EXCEPT ![k] = c]
  BY DEF HangUp, HandlersOK, ConnType
<1>3. HandlerOK(c)
  BY <1>1 DEF Handlers, Answers, HandlerOK
<1>. QED BY <1>2, <1>3, OneHandler

LEMMA DialNextOK ==
  ASSUME HandlersOK, NEW k \in Conns, NEW m \in conn[k].inbox, m.kind # "greeting",
         conn[k].pc \in {"request", "http"}, DialNext(k, m.host, m.port)
  PROVE  HandlersOK'
<1>. DEFINE address == [host |-> m.host, port |-> m.port]
            c == [conn[k] EXCEPT !.inbox = {}, !.pc = "dialing", !.dialled = {address}]
<1>1. conn[k] \in Handlers /\ Answers(conn[k])
  BY DEF HandlersOK, ConnType, Answering
<1>2. conn' = [conn EXCEPT ![k] = c]
  BY DEF DialNext, HandlersOK, ConnType
<1>3. address \in Addresses /\ conn[k].asked = {address}
  BY <1>1, SayingsKinds DEF Handlers, Answers
<1>. HIDE DEF address
<1>4. HandlerOK(c)
  BY <1>1, <1>3 DEF Handlers, Answers, HandlerOK
<1>. QED BY <1>2, <1>4, OneHandler

LEMMA HandlerStepOK ==
  ASSUME HandlersOK, NEW k \in Conns, HandlerStep(k)
  PROVE  HandlersOK'
<1>1. conn[k] \in Handlers /\ Answers(conn[k])
  BY DEF HandlersOK, ConnType, Answering
<1>2. CASE Accepts(k)
  <2>. DEFINE c == [conn[k] EXCEPT !.pc = IF conn[k].via = "socks" THEN "greeting" ELSE "http"]
  <2>1. conn' = [conn EXCEPT ![k] = c] /\ conn[k].pc = "queued"
    BY <1>2 DEF Accepts, HandlersOK, ConnType
  <2>2. HandlerOK(c)
    BY <1>1, <2>1 DEF Handlers, Answers, HandlerOK
  <2>. QED BY <2>1, <2>2, OneHandler
<1>3. CASE Reads(k)
  <2>1. ASSUME NEW m \in conn[k].inbox, conn[k].pc = "greeting", Greeting(k, m) PROVE HandlersOK'
    BY <2>1, AnswerOK, HangUpOK DEF Greeting
  <2>2. ASSUME NEW m \in conn[k].inbox, conn[k].pc = "request", SocksRequest(k, m) PROVE HandlersOK'
    BY <2>2, AnswerOK, HangUpOK, DialNextOK DEF SocksRequest
  <2>3. ASSUME NEW m \in conn[k].inbox, conn[k].pc = "http", HttpRequest(k, m) PROVE HandlersOK'
    BY <2>3, AnswerOK, HangUpOK, DialNextOK DEF HttpRequest
  <2>. QED BY <1>3, <2>1, <2>2, <2>3, HangUpOK DEF Reads
<1>4. CASE Dials(k)
  <2>1. PICK ok \in BOOLEAN : conn' = [conn EXCEPT ![k].pc = "replying", ![k].remote = ok]
    BY <1>4 DEF Dials
  <2>. DEFINE c == [conn[k] EXCEPT !.pc = "replying", !.remote = ok]
  <2>2. conn' = [conn EXCEPT ![k] = c] /\ conn[k].pc = "dialing"
    BY <1>4, <2>1 DEF Dials, HandlersOK, ConnType
  <2>3. HandlerOK(c)
    BY <1>1, <2>2 DEF Handlers, Answers, HandlerOK
  <2>. QED BY <2>2, <2>3, OneHandler
<1>5. CASE Replies(k)
  BY <1>5, AnswerOK, HangUpOK DEF Replies
<1>6. CASE RelayEnds(k)
  BY <1>6, HangUpOK DEF RelayEnds
<1>. QED BY <1>2, <1>3, <1>4, <1>5, <1>6 DEF HandlerStep

-----------------------------------------------------------------------------
(* What a client, and the listener's close, do to a connection *)

LEMMA SaysOK ==
  ASSUME HandlersOK, NEW k \in Conns, NEW m \in Sayings, Says(k, m),
         m.kind = "greeting" \/ conn[k].pc \in {"queued", "greeting", "request", "http"}
  PROVE  HandlersOK'
<1>. DEFINE asked == IF m.kind = "greeting" THEN conn[k].asked
                     ELSE {[host |-> m.host, port |-> m.port]}
            c == [conn[k] EXCEPT !.inbox = {m}, !.asked = asked]
<1>1. conn[k] \in Handlers /\ Answers(conn[k])
  BY DEF HandlersOK, ConnType, Answering
<1>2. conn' = [conn EXCEPT ![k] = c]
  BY DEF Says, HandlersOK, ConnType
<1>3. asked \subseteq Addresses
  BY <1>1, SayingsKinds DEF Handlers
<1>4. /\ m.kind # "greeting" => asked = {[host |-> m.host, port |-> m.port]}
      /\ m.kind = "greeting" => asked = conn[k].asked
  OBVIOUS
<1>. HIDE DEF asked
<1>5. c \in Handlers
  BY <1>1, <1>3 DEF Handlers
<1>6. /\ c.pc = conn[k].pc /\ c.remote = conn[k].remote /\ c.dialled = conn[k].dialled
      /\ c.asked = asked /\ c.inbox = {m} /\ c.heard = conn[k].heard
  BY <1>1 DEF Handlers
<1>. HIDE DEF c
<1>7. Answers(c)
  BY <1>1, <1>4, <1>6 DEF Answers
<1>. QED BY <1>2, <1>5, <1>7, OneHandler DEF HandlerOK

LEMMA GoesOK ==
  ASSUME HandlersOK, NEW k \in Conns, Goes(k)
  PROVE  HandlersOK'
<1>. DEFINE c == [conn[k] EXCEPT !.gone = TRUE]
<1>1. conn[k] \in Handlers /\ Answers(conn[k])
  BY DEF HandlersOK, ConnType, Answering
<1>2. conn' = [conn EXCEPT ![k] = c]
  BY DEF Goes, HandlersOK, ConnType
<1>3. HandlerOK(c)
  BY <1>1 DEF Handlers, Answers, HandlerOK
<1>. QED BY <1>2, <1>3, OneHandler

LEMMA ConnectsOK ==
  ASSUME HandlersOK, NEW k \in Conns, NEW l \in Listeners, Connects(k, l)
  PROVE  HandlersOK'
<1>. DEFINE c == [NoConn EXCEPT !.pc = "queued", !.via = l]
<1>1. conn' = [conn EXCEPT ![k] = c]
  BY DEF Connects
<1>2. HandlerOK(c)
  BY DEF Handlers, Answers, HandlerOK, NoConn, Listeners
<1>. QED BY <1>1, <1>2, OneHandler

LEMMA CloseListenerOK ==
  ASSUME HandlersOK, NEW l, CloseListener(l)
  PROVE  HandlersOK'
<1>1. ASSUME NEW k \in Conns PROVE HandlerOK(conn'[k])
  <2>1. conn[k] \in Handlers /\ Answers(conn[k])
    BY DEF HandlersOK, ConnType, Answering
  <2>2. conn'[k] \in {conn[k], [conn[k] EXCEPT !.pc = "closed"]}
        /\ (conn'[k] # conn[k] => conn[k].pc = "queued")
    BY DEF CloseListener
  <2>3. CASE conn'[k] = conn[k]
    BY <2>1, <2>3 DEF HandlerOK
  <2>4. CASE conn'[k] = [conn[k] EXCEPT !.pc = "closed"] /\ conn[k].pc = "queued"
    BY <2>1, <2>4 DEF Handlers, Answers, HandlerOK
  <2>. QED BY <2>2, <2>3, <2>4
<1>2. ConnType'
  BY <1>1 DEF CloseListener, ConnType, HandlerOK
<1>. QED BY <1>1, <1>2 DEF HandlersOK, Answering, HandlerOK

-----------------------------------------------------------------------------
(* A worker's handshake with its handler *)

LEMMA HandlerShakes ==
  ASSUME HandlersOK, Handshaking, NEW k \in Conns, HandlerStep(k), UNCHANGED work
  PROVE  Handshaking'
<1>. DEFINE p == work[k].pc
<1>1. conn[k] \in Handlers /\ Shakes(p, conn[k])
  BY DEF HandlersOK, ConnType, Handshaking
<1>2. SUFFICES ASSUME p \in {"hello", "greeted"} PROVE Shakes(p, conn'[k])
  <2>1. ASSUME NEW w \in Conns, w # k PROVE conn'[w] = conn[w]
    BY <2>1 DEF HandlerStep, Accepts, Reads, Dials, Replies, RelayEnds, Greeting, SocksRequest,
                HttpRequest, Answer, HangUp, DialNext, HandlersOK, ConnType
  <2>2. Shakes(p, conn'[k])
    BY <1>2 DEF Shakes
  <2>. QED BY <2>1, <2>2, Zenon DEF Handshaking
<1>3. conn[k].via = "socks" /\ conn[k].pc \in {"queued", "greeting", "request", "closed"}
  BY <1>1, <1>2 DEF Shakes
<1>. HIDE DEF p
<1>4. CASE Accepts(k)
  BY <1>1, <1>2, <1>3, <1>4 DEF Accepts, Shakes, Handlers, HandlersOK, ConnType
<1>5. CASE HangUp(k)
  BY <1>1, <1>2, <1>3, <1>5 DEF HangUp, Shakes, Handlers, HandlersOK, ConnType
<1>6. CASE Reads(k)
  <2>1. ASSUME NEW m \in conn[k].inbox, conn[k].pc = "greeting", Greeting(k, m)
        PROVE  Shakes(p, conn'[k])
    <3>1. m = Hello /\ p = "greeted"
      BY <1>1, <1>2, <2>1 DEF Shakes
    <3>2. HangUp(k) \/ Answer(k, "method", "request")
      BY <2>1, <3>1 DEF Greeting, Hello
    <3>3. CASE Answer(k, "method", "request")
      BY <1>1, <1>3, <3>1, <3>3 DEF Answer, Shakes, Handlers, HandlersOK, ConnType
    <3>. QED BY <1>5, <3>2, <3>3
  <2>2. ASSUME NEW m \in conn[k].inbox, conn[k].pc = "request" PROVE FALSE
    BY <1>1, <1>2, <2>2 DEF Shakes
  <2>. QED BY <1>3, <1>5, <1>6, <2>1, <2>2 DEF Reads
<1>. QED BY <1>3, <1>4, <1>5, <1>6 DEF HandlerStep, Dials, Replies, RelayEnds

LEMMA CloseShakes ==
  ASSUME HandlersOK, Handshaking, NEW l, CloseListener(l), UNCHANGED work
  PROVE  Handshaking'
<1>1. ASSUME NEW k \in Conns PROVE Shakes(work[k].pc, conn'[k])
  <2>1. conn[k] \in Handlers /\ Shakes(work[k].pc, conn[k])
    BY DEF HandlersOK, ConnType, Handshaking
  <2>2. conn'[k] \in {conn[k], [conn[k] EXCEPT !.pc = "closed"]}
        /\ (conn'[k] # conn[k] => conn[k].pc = "queued")
    BY DEF CloseListener
  <2>3. CASE conn'[k] = [conn[k] EXCEPT !.pc = "closed"] /\ conn[k].pc = "queued"
    BY <2>1, <2>3 DEF Handlers, Shakes
  <2>. QED BY <2>1, <2>2, <2>3
<1>. QED BY <1>1 DEF Handshaking

\* Where only worker w and its connection change.
LEMMA OneShakes ==
  ASSUME Handshaking, HandlersOK, WorkersType, NEW w \in Conns,
         \E c : conn' = [conn EXCEPT ![w] = c], \E x : work' = [work EXCEPT ![w] = x],
         Shakes(work'[w].pc, conn'[w])
  PROVE  Handshaking'
<1>1. ASSUME NEW v \in Conns, v # w PROVE conn'[v] = conn[v] /\ work'[v] = work[v]
  BY <1>1 DEF HandlersOK, ConnType, WorkersType
<1>. QED BY <1>1, Zenon DEF Handshaking
-----------------------------------------------------------------------------
(* The steps of both programs *)

LEMMA TargetOK ==
  ASSUME config \in Configs, ValidConfig, WorkersType, NEW w \in Conns
  PROVE  Target(w) \in [host : STRING, port : Int]
<1>. DEFINE targets == config.targets
            n == Len(targets)
<1>1. targets \in Seq([host : STRING, port : Int]) /\ targets # <<>>
  BY ConfigsAssumption DEF ValidConfig
<1>2. n \in Nat \ {0} /\ work[w].job \in Nat
  BY <1>1 DEF WorkersType, Workers
<1>3. (work[w].job % n) + 1 \in 1..n
  BY <1>2
<1>4. \A i \in 1..n : targets[i] \in [host : STRING, port : Int]
  BY <1>1, ElementOfSeq
<1>5. Target(w) = targets[(work[w].job % n) + 1]
  BY DEF Target
<1>. HIDE DEF targets, n
<1>. QED BY <1>3, <1>4, <1>5

\* Where no worker is, and none comes.
LEMMA NobodyShakes ==
  ASSUME \A w \in Conns : work[w].pc = "none", UNCHANGED work
  PROVE  Handshaking'
BY DEF Handshaking, Shakes

LEMMA PeerBasics ==
  ASSUME Basics, NEW k \in Peers, PeerActs(k)
  PROVE  Basics'
<1>1. k \in Conns
  BY PeersAssumption
<1>2. HandlersOK'
  BY <1>1, SaysOK, GoesOK, ConnectsOK DEF PeerActs, Basics, Sayings
<1>3. \A w \in Conns : work[w].pc = "none"
  BY DEF PeerActs, Basics, Benching
<1>4. Handshaking'
  BY <1>3, NobodyShakes DEF PeerActs, benchVars
<1>. QED BY <1>2, <1>4 DEF Basics, PeerActs, lnVars, benchVars, MainType, WorkersType, Benching,
            Bench, ValidConfig

LEMMA AgentBasics ==
  ASSUME Basics, UNCHANGED <<config, main, exit, benchVars>>,
         \/ UNCHANGED conn
         \/ \E l \in Listeners : Closer(l)
         \/ \E k \in Conns : HandlerStep(k)
  PROVE  Basics'
<1>1. HandlersOK' /\ Handshaking'
  <2>1. CASE UNCHANGED conn
    BY <2>1 DEF Basics, HandlersOK, ConnType, Answering, Handshaking, benchVars
  <2>2. ASSUME NEW l \in Listeners, Closer(l) PROVE HandlersOK' /\ Handshaking'
    BY <2>2, CloseListenerOK, CloseShakes DEF Closer, Basics, benchVars
  <2>3. ASSUME NEW k \in Conns, HandlerStep(k) PROVE HandlersOK' /\ Handshaking'
    BY <2>3, HandlerStepOK, HandlerShakes DEF Basics, benchVars
  <2>. QED BY <2>1, <2>2, <2>3
<1>. QED BY <1>1 DEF Basics, benchVars, MainType, WorkersType, Benching, Bench, ValidConfig

LEMMA JobIsNatural ==
  ASSUME MainType
  PROVE  main.job + 1 \in Nat
<1>1. main.job \in Nat
  BY DEF MainType
<1>. QED BY <1>1

LEMMA HandsOutType ==
  ASSUME MainType, NEW j \in Nat, main' = [main EXCEPT !.job = j], UNCHANGED <<config, exit>>
  PROVE  MainType'
BY DEF MainType

LEMMA MainBasics ==
  ASSUME Basics, MainStep
  PROVE  Basics'
<1>1. Bench' = Bench /\ ValidConfig' = ValidConfig /\ MainType'
  <2>. USE DEF Basics, MainType, Main, Exit, Produce, Bench, ValidConfig
  <2>1. CASE AgentStarts \/ BenchStarts
    BY <2>1 DEF AgentStarts, BenchStarts
  <2>2. CASE BenchBuilds
    BY <2>2 DEF BenchBuilds
  <2>3. CASE ClosesJobs \/ Summarises
    BY <2>3 DEF ClosesJobs, Summarises, Status
  <2>4. CASE CleansUp
    BY <2>4 DEF CleansUp
  <2>5. ASSUME NEW l \in Listeners, AgentReceives(l)
        PROVE  Bench' = Bench /\ ValidConfig' = ValidConfig /\ MainType'
    BY <2>5 DEF AgentReceives
  <2>6. ASSUME NEW w \in Conns, HandsOut(w)
        PROVE  Bench' = Bench /\ ValidConfig' = ValidConfig /\ MainType'
    <3>. DEFINE j == main.job + 1
    <3>1. main' = [main EXCEPT !.job = j] /\ UNCHANGED <<config, exit>>
      BY <2>6 DEF HandsOut
    <3>2. j \in Nat
      BY JobIsNatural
    <3>. HIDE DEF j
    <3>3. MainType'
      BY <3>1, <3>2, HandsOutType
    <3>. QED BY <3>1, <3>3
  <2>7. ASSUME NEW l, NEW pc, NEW next \in {"listen http", "await"}, AgentListens(l, pc, next)
        PROVE  Bench' = Bench /\ ValidConfig' = ValidConfig /\ MainType'
    BY <2>7 DEF AgentListens
  <2>. QED BY <2>1, <2>2, <2>3, <2>4, <2>5, <2>6, <2>7 DEF MainStep
<1>2. CASE BenchBuilds
  <2>1. UNCHANGED conn /\ Bench /\ ValidConfig /\ main'.pc # "build"
    BY <1>2 DEF BenchBuilds, Basics, MainType, Benching, Produce, Main
  <2>2. UNCHANGED work \/ work' = [w \in Conns |-> [work[w] EXCEPT !.pc = "idle"]]
    BY <1>2 DEF BenchBuilds, Produce
  <2>3. WorkersType'
    BY <2>2 DEF Basics, WorkersType, Workers
  <2>4. Handshaking'
    <3>1. ASSUME NEW w \in Conns PROVE work'[w].pc \in {work[w].pc, "idle"}
      BY <2>2 DEF Basics, WorkersType, Workers
    <3>. QED BY <2>1, <3>1 DEF Basics, Handshaking, Shakes
  <2>. QED BY <1>1, <2>1, <2>3, <2>4 DEF Basics, HandlersOK, ConnType, Answering, Benching
<1>3. ASSUME NEW w \in Conns, HandsOut(w) PROVE Basics'
  <2>1. work[w].pc = "idle" /\ UNCHANGED conn /\ main.pc = "produce" /\ main'.pc = main.pc
    BY <1>3 DEF HandsOut, agentVars, Basics, MainType
  <2>2. work' = [work EXCEPT ![w].pc = "running", ![w].job = main.job] /\ main.job \in Nat
    BY <1>3 DEF HandsOut, Basics, MainType
  <2>3. WorkersType' /\ work'[w].pc = "running" /\ \A v \in Conns \ {w} : work'[v] = work[v]
    BY <2>2 DEF Basics, WorkersType, Workers
  <2>4. Handshaking'
    BY <2>1, <2>3 DEF Basics, Handshaking, Shakes
  <2>5. Benching'
    BY <1>1, <2>1, <2>3 DEF Basics, Benching
  <2>. QED BY <1>1, <2>1, <2>3, <2>4, <2>5 DEF Basics, HandlersOK, ConnType, Answering
<1>4. CASE CleansUp
  <2>1. HandlersOK' /\ Handshaking'
    <3>1. CASE UNCHANGED conn
      BY <1>4, <3>1 DEF CleansUp, Basics, HandlersOK, ConnType, Answering, Handshaking
    <3>2. CASE CloseListener("socks")
      BY <1>4, <3>2, CloseListenerOK, CloseShakes DEF CleansUp, Basics
    <3>. QED BY <1>4, <3>1, <3>2 DEF CleansUp
  <2>. QED BY <1>1, <1>4, <2>1 DEF CleansUp, Basics, MainType, WorkersType, Benching, Main
<1>5. CASE AgentStarts \/ BenchStarts \/ ClosesJobs \/ Summarises
  <2>1. UNCHANGED <<conn, work>> /\ (main'.pc = "build" => Bench /\ ValidConfig)
    BY <1>5 DEF AgentStarts, BenchStarts, ClosesJobs, Summarises, agentVars, benchVars, Main,
                Basics, MainType
  <2>. QED BY <1>1, <2>1 DEF Basics, HandlersOK, ConnType, Answering, WorkersType, Handshaking, Benching
<1>6. ASSUME NEW l \in Listeners, AgentReceives(l) PROVE Basics'
  <2>1. UNCHANGED <<conn, work>> /\ main'.pc # "build"
    BY <1>6 DEF AgentReceives, benchVars, Basics, MainType
  <2>. QED BY <1>1, <2>1 DEF Basics, HandlersOK, ConnType, Answering, WorkersType, Handshaking, Benching
<1>7. ASSUME NEW l \in Listeners, NEW pc, NEW next \in {"listen http", "await"},
             AgentListens(l, pc, next)
      PROVE  Basics'
  <2>1. UNCHANGED <<conn, work>> /\ main'.pc # "build"
    BY <1>7 DEF AgentListens, benchVars, Basics, MainType, Main
  <2>. QED BY <1>1, <2>1 DEF Basics, HandlersOK, ConnType, Answering, WorkersType, Handshaking, Benching
<1>8. "socks" \in Listeners /\ "http" \in Listeners
  BY DEF Listeners
<1>. QED BY <1>2, <1>3, <1>4, <1>5, <1>6, <1>7, <1>8 DEF MainStep

\* A worker's step on its own connection.
WorkerMoves(w) == \E x \in Workers : x.pc # "none" /\ work' = [work EXCEPT ![w] = x]

LEMMA WorkMoves ==
  ASSUME WorkersType, NEW w \in Conns,
         NEW pc \in {"idle", "calling", "hello", "greeted", "requested", "exited"}, Work(w, pc)
  PROVE  WorkerMoves(w) /\ work'[w].pc = pc
<1>1. [work[w] EXCEPT !.pc = pc] \in Workers
  BY DEF WorkersType, Workers
<1>2. work' = [work EXCEPT ![w] = [work[w] EXCEPT !.pc = pc]]
  BY DEF Work, WorkersType
<1>3. work'[w] = [work[w] EXCEPT !.pc = pc] /\ work'[w].pc = pc
  BY <1>1, <1>2 DEF WorkersType, Workers
<1>. QED BY <1>1, <1>2, <1>3 DEF WorkerMoves

LEMMA ReportMoves ==
  ASSUME WorkersType, NEW w \in Conns, NEW ok, Reports(w, ok)
  PROVE  WorkerMoves(w) /\ work'[w].pc = "idle"
BY WorkMoves DEF Reports

LEMMA WorkerBasics ==
  ASSUME Basics, NEW w \in Conns, WorkerStep(w)
  PROVE  Basics'
<1>1. UNCHANGED <<config, main, exit>> /\ conn[w] \in Handlers /\ work[w] \in Workers
      /\ Shakes(work[w].pc, conn[w])
  BY DEF WorkerStep, Basics, HandlersOK, ConnType, WorkersType, Handshaking
<1>2. ASSUME WorkerMoves(w), work[w].pc # "none", HandlersOK', Handshaking' PROVE Basics'
  <2>1. WorkersType' /\ \A v \in Conns \ {w} : work'[v] = work[v]
    BY <1>2 DEF WorkerMoves, Basics, WorkersType
  <2>2. Bench /\ ValidConfig
    BY <1>2 DEF Basics, Benching
  <2>3. Benching'
    BY <1>1, <2>2 DEF Benching, Bench, ValidConfig
  <2>. QED BY <1>1, <1>2, <2>1, <2>3 DEF Basics, MainType
<1>3. ASSUME WorkerMoves(w), UNCHANGED conn, work'[w].pc \in {"idle", "calling", "exited"}
      PROVE  HandlersOK' /\ Handshaking'
  <2>1. HandlersOK'
    BY <1>3 DEF Basics, HandlersOK, ConnType, Answering
  <2>2. \A v \in Conns \ {w} : work'[v] = work[v]
    BY <1>3 DEF WorkerMoves, Basics, WorkersType
  <2>3. Handshaking'
    BY <1>3, <2>2 DEF Basics, Handshaking, Shakes
  <2>. QED BY <2>1, <2>3
<1>4. ASSUME WorkerMoves(w), NEW c, conn' = [conn EXCEPT ![w] = c], Shakes(work'[w].pc, conn'[w])
      PROVE  Handshaking'
  BY <1>4, OneShakes DEF WorkerMoves, Basics
<1>5. CASE TakesTurn(w) \/ Calls(w) \/ Leaves(w)
  <2>1. WorkerMoves(w) /\ UNCHANGED conn /\ work'[w].pc \in {"idle", "calling", "exited"}
        /\ work[w].pc # "none"
    BY <1>5, WorkMoves, ReportMoves DEF TakesTurn, Calls, Leaves, Basics
  <2>. QED BY <1>2, <1>3, <2>1
<1>6. ASSUME NEW ok, Reports(w, ok), Goes(w) PROVE HandlersOK' /\ Handshaking' /\ WorkerMoves(w)
  <2>1. WorkerMoves(w) /\ work'[w].pc = "idle"
    BY <1>6, ReportMoves DEF Basics
  <2>2. conn' = [conn EXCEPT ![w] = [conn[w] EXCEPT !.gone = TRUE]]
    BY <1>6 DEF Goes, Basics, HandlersOK, ConnType
  <2>3. Shakes(work'[w].pc, conn'[w])
    BY <2>1 DEF Shakes
  <2>. QED BY <1>4, <1>6, <2>1, <2>2, <2>3, GoesOK DEF Basics
<1>7. CASE SocksDials(w)
  <2>1. CASE \E ok : Reports(w, ok) /\ conn' = conn
    BY <1>2, <1>3, <1>7, <2>1, ReportMoves DEF SocksDials, Basics
  <2>2. CASE Connects(w, "socks") /\ Work(w, "hello")
    <3>1. WorkerMoves(w) /\ work'[w].pc = "hello"
      BY <2>2, WorkMoves DEF Basics
    <3>2. conn' = [conn EXCEPT ![w] = [NoConn EXCEPT !.pc = "queued", !.via = "socks"]]
      BY <2>2 DEF Connects
    <3>3. conn'[w] = [NoConn EXCEPT !.pc = "queued", !.via = "socks"]
      BY <3>2 DEF Basics, HandlersOK, ConnType
    <3>4. Shakes(work'[w].pc, conn'[w])
      BY <3>1, <3>3 DEF Shakes, NoConn
    <3>5. HandlersOK'
      BY <2>2, ConnectsOK DEF Basics, Listeners
    <3>. QED BY <1>2, <1>4, <1>7, <3>1, <3>2, <3>4, <3>5 DEF SocksDials
  <2>. QED BY <1>7, <2>1, <2>2 DEF SocksDials
<1>8. CASE Greets(w)
  <2>1. WorkerMoves(w) /\ work'[w].pc = "greeted" /\ work[w].pc = "hello" /\ Says(w, Hello)
    BY <1>8, WorkMoves DEF Greets, Basics, Hello
  <2>2. conn' = [conn EXCEPT ![w] = [conn[w] EXCEPT !.inbox = {Hello}]]
    BY <1>1, <2>1 DEF Says, Hello, Handlers, Basics, HandlersOK, ConnType
  <2>3. Shakes("greeted", conn'[w])
    BY <1>1, <2>1, <2>2 DEF Shakes, Handlers, Basics, HandlersOK, ConnType
  <2>4. HandlersOK'
    BY <2>1, SaysOK DEF Basics, Sayings, Hello
  <2>. QED BY <1>2, <1>4, <2>1, <2>2, <2>3, <2>4
<1>9. CASE Requests(w)
  <2>1. work[w].pc = "greeted"
    BY <1>9 DEF Requests
  <2>2. CASE SocksFails(w)
    BY <1>2, <1>6, <2>1, <2>2 DEF SocksFails
  <2>3. CASE ~SocksFails(w)
    <3>. DEFINE m == [kind |-> "socks", version |-> 5, command |-> 1, cut |-> "no",
                      atyp |-> AddressType(Canonical(Target(w).host)),
                      host |-> Canonical(Target(w).host), port |-> Target(w).port]
    <3>1. Says(w, m) /\ Work(w, "requested") /\ conn[w].pc # "closed"
      BY <1>9, <2>3 DEF Requests
    <3>2. conn[w].pc \in {"queued", "greeting", "request"}
      BY <1>1, <2>1, <3>1 DEF Shakes
    <3>3. Target(w) \in [host : STRING, port : Int]
      BY <2>1, TargetOK DEF Basics, MainType, Benching
    <3>4. /\ AddressType(Canonical(Target(w).host)) \in {"v4", "v6", "domain"}
          /\ Canonical(Target(w).host) \in Hosts
      BY <3>3 DEF AddressType, Canonical, Hosts
    <3>5. m \in SocksRequests
      BY <3>3, <3>4 DEF SocksRequests
    <3>. HIDE DEF m
    <3>6. HandlersOK' /\ \E c : conn' = [conn EXCEPT ![w] = c]
      BY <3>1, <3>2, <3>5, SaysOK DEF Basics, Sayings, Says
    <3>7. WorkerMoves(w) /\ work'[w].pc = "requested"
      BY <3>1, WorkMoves DEF Basics
    <3>8. Shakes(work'[w].pc, conn'[w])
      BY <3>7 DEF Shakes
    <3>. QED BY <1>2, <1>4, <2>1, <3>6, <3>7, <3>8
  <2>. QED BY <2>2, <2>3
<1>10. CASE Exercises(w)
  BY <1>2, <1>6, <1>10 DEF Exercises, SocksFails
<1>. QED BY <1>5, <1>7, <1>8, <1>9, <1>10 DEF WorkerStep

\* A program that starts has no connections and no workers.
LEMMA InitBasics ==
  ASSUME Init
  PROVE  Basics
<1>1. HandlersOK
  BY DEF Init, AgentInit, NoConn, HandlersOK, ConnType, Answering, Answers, Handlers, Listeners
<1>2. WorkersType /\ Handshaking
  BY DEF Init, WorkersType, Workers, Handshaking, Shakes
<1>3. MainType /\ Benching
  BY DEF Init, MainType, Benching
<1>. QED BY <1>1, <1>2, <1>3 DEF Basics

\* Every step keeps types, answers and handshakes.
LEMMA NextBasics ==
  ASSUME Basics, [Next]_vars
  PROVE  Basics'
<1>1. CASE MainStep
  BY <1>1, MainBasics
<1>2. CASE Signal
  BY <1>2, AgentBasics DEF Signal, benchVars
<1>3. ASSUME NEW l \in Listeners, OfAgent(AcceptFails(l) \/ Closer(l) \/ ServeReturns(l))
      PROVE  Basics'
  BY <1>3, AgentBasics DEF OfAgent, AcceptFails, ServeReturns
<1>4. ASSUME NEW k \in Conns, OfAgent(HandlerStep(k)) PROVE Basics'
  BY <1>4, AgentBasics DEF OfAgent
<1>5. ASSUME NEW k \in Conns, WorkerStep(k) PROVE Basics'
  BY <1>5, WorkerBasics
<1>6. ASSUME NEW k \in Peers, PeerActs(k) PROVE Basics'
  BY <1>6, PeerBasics
<1>7. CASE UNCHANGED vars
  BY <1>7, AgentBasics DEF vars, agentVars, benchVars
<1>. QED BY <1>1, <1>2, <1>3, <1>4, <1>5, <1>6, <1>7 DEF Next

\* For any clients, messages and command lines: the agent says "connected" only of a
\* connection the Worker made to the very target asked for, "refused" only of none, and
\* a handler that has hung up has closed its remote connection.
THEOREM TruthfulReplies == Spec => []RepliesAreTruthful
<1>1. Basics => RepliesAreTruthful
  BY DEF Basics, HandlersOK, Answering, Answers, ConnType, Handlers, RepliesAreTruthful
<1>. QED BY <1>1, InitBasics, NextBasics, PTL DEF Spec

-----------------------------------------------------------------------------
(* What the exit statuses rest on *)

\* The steps that move main, and those that do not.
LEMMA Stays ==
  ASSUME Next, ~MainStep
  PROVE  UNCHANGED <<config, main, exit>>
BY DEF Next, Signal, OfAgent, WorkerStep, PeerActs

LEMMA Listening ==
  ASSUME Basics, Serving, Next, ~MainStep
  PROVE  \A l \in Listeners : ln'[l] = ln[l] \/ (ln[l] = "open" /\ ln'[l] = "closed")
<1>1. CASE UNCHANGED ln
  BY <1>1
<1>2. CASE \E l \in Listeners : Closer(l)
  BY <1>2 DEF Closer, CloseListener, Serving, ServeType
<1>. QED
  BY <1>1, <1>2 DEF Next, Signal, OfAgent, WorkerStep, PeerActs, AcceptFails, ServeReturns,
     HandlerStep, Accepts, Reads, Dials, Replies, RelayEnds, lnVars, agentVars

\* Every step keeps main where its listeners and its program allow.
LEMMA PlacesKept ==
  ASSUME Inv, Next
  PROVE  Places'
<1>1. CASE ~MainStep
  BY <1>1, Stays, Listening DEF Inv, Places, Bench, Listeners
<1>. USE DEF Inv, Basics, MainType, Places, Serving, ServeType, Listeners, Bench, Main, Exit
<1>2. CASE AgentStarts \/ BenchStarts
  BY <1>2 DEF AgentStarts, BenchStarts, agentVars
<1>3. CASE BenchBuilds
  BY <1>3 DEF BenchBuilds, Produce, Listen
<1>4. CASE ClosesJobs \/ Summarises
  BY <1>4 DEF ClosesJobs, Summarises, agentVars
<1>5. CASE CleansUp
  BY <1>5 DEF CleansUp, CloseListener
<1>6. CASE AgentListens("socks", "listen socks", "listen http")
  BY <1>6 DEF AgentListens, Listen
<1>7. CASE AgentListens("http", "listen http", "await")
  BY <1>7 DEF AgentListens, Listen
<1>8. ASSUME NEW l \in Listeners, AgentReceives(l) PROVE Places'
  BY <1>8 DEF AgentReceives
<1>9. ASSUME NEW w \in Conns, HandsOut(w) PROVE Places'
  <2>1. main.pc = "produce" /\ main'.pc = "produce" /\ UNCHANGED <<ln, config>>
    BY <1>9 DEF HandsOut, agentVars
  <2>. QED BY <2>1
<1>. QED BY <1>1, <1>2, <1>3, <1>4, <1>5, <1>6, <1>7, <1>8, <1>9 DEF MainStep

\* Every step keeps the causes of closed listeners and stopped serves.
LEMMA ServingKept ==
  ASSUME Inv, Next
  PROVE  Serving'
<1>. DEFINE Quiet == config' = config /\ signalled' = signalled /\ (exit' = exit \/ exit' # {})
<1>1. ASSUME UNCHANGED lnVars, Quiet PROVE Serving'
  BY <1>1 DEF lnVars, Inv, Serving, ServeType, Bench
<1>2. ASSUME NEW l \in Listeners, Listen(l), ln[l] = "off", cancelled' = cancelled,
             broken' = broken, Quiet
      PROVE  Serving'
  BY <1>2 DEF Listen, Inv, Serving, ServeType, Bench
<1>3. ASSUME NEW l \in Listeners, CloseListener(l), cancelled', cancelled' \in BOOLEAN,
             Bench \/ cancelled' = cancelled,
             served' = served, broken' = broken, Quiet
      PROVE  Serving'
  BY <1>3 DEF CloseListener, Inv, Serving, ServeType, Bench
<1>4. CASE AgentStarts \/ BenchStarts \/ ClosesJobs
  <2>1. UNCHANGED lnVars /\ Quiet
    BY <1>4 DEF AgentStarts, BenchStarts, ClosesJobs, agentVars, lnVars, Exit
  <2>. QED BY <1>1, <2>1
<1>5. CASE Summarises
  <2>1. UNCHANGED lnVars /\ Quiet
    BY <1>5 DEF Summarises, agentVars, lnVars, Exit
  <2>. QED BY <1>1, <2>1
<1>6. CASE BenchBuilds
  <2>1. cancelled' = cancelled /\ broken' = broken /\ Quiet
    BY <1>6 DEF BenchBuilds, Exit
  <2>2. Listen("socks") \/ UNCHANGED <<ln, served>>
    BY <1>6 DEF BenchBuilds
  <2>3. ln["socks"] = "off" /\ "socks" \in Listeners
    BY <1>6 DEF BenchBuilds, Inv, Places, Listeners
  <2>. QED BY <1>1, <1>2, <2>1, <2>2, <2>3 DEF lnVars
<1>7. ASSUME NEW l \in Listeners, NEW pc, NEW next, AgentListens(l, pc, next), ln[l] = "off"
      PROVE  Serving'
  BY <1>1, <1>2, <1>7 DEF AgentListens, lnVars, Exit
<1>8. ASSUME NEW l \in Listeners, AgentReceives(l) PROVE Serving'
  <2>1. cancelled' = TRUE /\ UNCHANGED <<ln, served, broken, config, signalled>>
    BY <1>8 DEF AgentReceives
  <2>2. served[l] = "nil" \/ exit' # {}
    BY <1>8 DEF AgentReceives, Returned
  <2>3. served[l] = "nil" => cancelled
    BY DEF Inv, Serving
  <2>4. ~Bench /\ exit' = {} => signalled
    BY <2>2, <2>3, <1>8 DEF Inv, Serving, Next
  <2>. QED BY <2>1, <2>4 DEF Inv, Serving, ServeType, Bench
<1>9. ASSUME NEW w \in Conns, HandsOut(w) PROVE Serving'
  BY <1>1, <1>9 DEF HandsOut, agentVars, lnVars
<1>10. CASE CleansUp
  <2>1. Bench /\ served' = served /\ broken' = broken /\ Quiet
    BY <1>10 DEF CleansUp, Exit, Inv, Places
  <2>2. \/ cancelled' = TRUE /\ CloseListener("socks")
        \/ UNCHANGED <<cancelled, ln>>
    BY <1>10 DEF CleansUp
  <2>. QED BY <1>1, <1>3, <2>1, <2>2 DEF lnVars, Listeners
<1>11. CASE Signal
  BY <1>11 DEF Signal, Inv, Serving, ServeType, Bench
<1>12. ASSUME NEW l \in Listeners, OfAgent(Closer(l)) PROVE Serving'
  BY <1>3, <1>12 DEF OfAgent, Closer, Inv, Serving, ServeType
<1>13. ASSUME NEW l \in Listeners, OfAgent(AcceptFails(l)) PROVE Serving'
  BY <1>13 DEF OfAgent, AcceptFails, Inv, Serving, ServeType, Bench
<1>14. ASSUME NEW l \in Listeners, OfAgent(ServeReturns(l)) PROVE Serving'
  BY <1>14 DEF OfAgent, ServeReturns, Inv, Serving, ServeType, Bench
<1>15. ASSUME NEW k \in Conns, OfAgent(HandlerStep(k)) \/ WorkerStep(k) PROVE Serving'
  BY <1>1, <1>15 DEF OfAgent, HandlerStep, Accepts, Reads, Dials, Replies, RelayEnds, WorkerStep, lnVars
<1>16. ASSUME NEW k \in Peers, PeerActs(k) PROVE Serving'
  BY <1>1, <1>16 DEF PeerActs, lnVars
<1>17. CASE AgentListens("socks", "listen socks", "listen http")
  BY <1>7, <1>17 DEF AgentListens, Inv, Places, Listeners
<1>18. CASE AgentListens("http", "listen http", "await")
  BY <1>7, <1>18 DEF AgentListens, Inv, Places, Listeners
<1>. QED
  BY <1>4, <1>5, <1>6, <1>8, <1>9, <1>10, <1>11, <1>12, <1>13, <1>14, <1>15, <1>16, <1>17, <1>18
  DEF Next, MainStep, OfAgent

\* Every step keeps the pool open until the end.
LEMMA PoolingKept ==
  ASSUME Inv, Next
  PROVE  Pooling'
<1>1. ASSUME UNCHANGED <<pool, config>>, exit' = exit \/ exit' # {} PROVE Pooling'
  BY <1>1 DEF Inv, Pooling
<1>2. CASE BenchBuilds
  <2>1. CASE config.mode = "socks-wss"
    BY <1>2, <2>1 DEF BenchBuilds, Inv, Pooling
  <2>2. CASE config.mode # "socks-wss"
    <3>1. \A p \in pool' : "closed" \in DOMAIN p /\ p.closed = 0
      BY <1>2, <2>2 DEF BenchBuilds, NewH3Pool, NewClientPool
    <3>. QED BY <1>2, <2>2, <3>1 DEF BenchBuilds, Pooling
  <2>. QED BY <2>1, <2>2
<1>3. ASSUME NEW w \in Conns, TakesTurn(w) \/ Calls(w) \/ SocksDials(w) \/ Greets(w) \/ Requests(w)
             \/ Exercises(w) \/ Leaves(w), UNCHANGED <<config, exit>>
      PROVE  Pooling'
  <2>1. CASE TakesTurn(w)
    <3>1. exit = {} /\ pool # {}
      BY <2>1 DEF Next, TakesTurn
    <3>2. ASSUME NEW p \in pool PROVE "closed" \in DOMAIN Take(p, p.next) /\ Take(p, p.next).closed = 0
      BY <3>1 DEF Inv, Pooling, Take
    <3>. QED BY <1>3, <2>1, <3>1, <3>2 DEF TakesTurn, Inv, Pooling
  <2>2. CASE ~TakesTurn(w)
    BY <1>1, <1>3, <2>2 DEF Calls, SocksDials, Greets, Requests, Exercises, Leaves
  <2>. QED BY <2>1, <2>2
<1>4. CASE CleansUp
  <2>1. exit' # {} \/ UNCHANGED <<pool, exit>>
    BY <1>4 DEF CleansUp, Exit
  <2>2. config' = config /\ (config.mode = "socks-wss" => pool' = pool)
    BY <1>4 DEF CleansUp, Inv, Places
  <2>. QED BY <2>1, <2>2 DEF Inv, Pooling
<1>5. CASE MainStep /\ ~BenchBuilds /\ ~CleansUp
  <2>1. UNCHANGED <<pool, config>> /\ (exit' = exit \/ exit' # {})
    <3>1. CASE AgentStarts \/ BenchStarts \/ ClosesJobs
      BY <3>1 DEF AgentStarts, BenchStarts, ClosesJobs, benchVars, Exit
    <3>2. CASE Summarises
      BY <3>2 DEF Summarises, benchVars, Exit
    <3>3. ASSUME NEW l, NEW pc, NEW next, AgentListens(l, pc, next)
          PROVE  UNCHANGED <<pool, config>> /\ (exit' = exit \/ exit' # {})
      BY <3>3 DEF AgentListens, benchVars, Exit
    <3>4. ASSUME NEW l, AgentReceives(l)
          PROVE  UNCHANGED <<pool, config>> /\ (exit' = exit \/ exit' # {})
      BY <3>4 DEF AgentReceives, benchVars, Next
    <3>5. ASSUME NEW w, HandsOut(w) PROVE UNCHANGED <<pool, config, exit>>
      BY <3>5 DEF HandsOut
    <3>. QED BY <1>5, <3>1, <3>2, <3>3, <3>4, <3>5 DEF MainStep
  <2>. QED BY <1>1, <2>1
<1>6. CASE UNCHANGED <<pool, config, exit>>
  BY <1>1, <1>6
<1>. QED
  BY <1>2, <1>3, <1>4, <1>5, <1>6 DEF Next, Signal, OfAgent, WorkerStep, PeerActs, benchVars

Honest0 == ~Bench /\ signalled /\ main.got = config.listeners
Honest1 == IF Bench THEN Failed # {} ELSE broken # {} \/ \E l \in config.listeners : ln[l] = "off"
Honest2 == results = {} /\ \A l \in Listeners : ln[l] = "off"

HasCause ==
  \/ exit = {}
  \/ exit = {0} /\ Honest0
  \/ exit = {1} /\ Honest1
  \/ exit = {2} /\ Honest2

\* An exit with its cause is honest.
LEMMA HonestExit == HasCause => ExitStatusIsHonest
<1>. SUFFICES ASSUME HasCause PROVE ExitStatusIsHonest
  OBVIOUS
<1>1. CASE exit = {}
  BY <1>1 DEF ExitStatusIsHonest
<1>2. CASE exit = {0} /\ Honest0
  <2>1. 0 \in exit /\ 1 \notin exit /\ 2 \notin exit
    BY <1>2
  <2>. QED BY <1>2, <2>1, Zenon DEF ExitStatusIsHonest, Honest0
<1>3. CASE exit = {1} /\ Honest1
  <2>1. 1 \in exit /\ 0 \notin exit /\ 2 \notin exit
    BY <1>3
  <2>. QED BY <1>3, <2>1, Zenon DEF ExitStatusIsHonest, Honest1
<1>4. CASE exit = {2} /\ Honest2
  BY <1>4 DEF ExitStatusIsHonest, Honest2
<1>. QED BY <1>1, <1>2, <1>3, <1>4 DEF HasCause

LEMMA GoodResult ==
  ASSUME NEW J, NEW j \in J, NEW r, r = [job |-> j, ok |-> TRUE]
  PROVE  r \in [job : J, ok : {TRUE}]
OBVIOUS

\* Whoever exits has the cause its status names.
LEMMA ExitKept ==
  ASSUME Inv, Next
  PROVE  ExitStatusIsHonest'
<1>1. \/ exit' = {}
      \/ exit' = {0} /\ Honest0'
      \/ exit' = {1} /\ Honest1'
      \/ exit' = {2} /\ Honest2'
      => ExitStatusIsHonest'
  <2>1. HasCause' => ExitStatusIsHonest'
    BY HonestExit, PTL
  <2>. QED BY <2>1 DEF HasCause
<1>2. CASE AgentStarts \/ BenchStarts
  <2>1. exit' \in {{}, {2}}
    BY <1>2 DEF AgentStarts, BenchStarts, Exit, Next
  <2>2. Honest2'
    BY <1>2 DEF AgentStarts, BenchStarts, Inv, Accounts, Places, benchVars, agentVars, Listeners, Honest2
  <2>. QED BY <1>1, <2>1, <2>2
<1>3. ASSUME NEW l \in Listeners, NEW pc, NEW next, AgentListens(l, pc, next), ln[l] = "off", ~Bench
      PROVE  ExitStatusIsHonest'
  <2>1. CASE exit' = {}
    BY <1>1, <2>1
  <2>2. CASE exit' # {}
    <3>1. exit' = {1} /\ l \in config.listeners /\ UNCHANGED <<ln, config>>
      BY <1>3, <2>2 DEF AgentListens, Exit, Next
    <3>2. Honest1'
      BY <1>3, <3>1 DEF Bench, Honest1
    <3>. QED BY <1>1, <3>1, <3>2
  <2>. QED BY <2>1, <2>2
<1>4. ASSUME NEW l \in Listeners, AgentReceives(l) PROVE ExitStatusIsHonest'
  <2>1. ~Bench /\ UNCHANGED <<config, broken, signalled>>
    BY <1>4 DEF AgentReceives, Inv, Places
  <2>2. CASE served[l] = "error"
    <3>1. exit' = {1} /\ broken # {}
      BY <1>4, <2>2 DEF AgentReceives, Inv, Serving
    <3>. QED BY <1>1, <2>1, <3>1 DEF Bench, Honest1
  <2>3. CASE served[l] # "error" /\ exit' # {}
    <3>. DEFINE got == main.got \cup {l}
    <3>1. exit' = {0} /\ got = config.listeners
      BY <1>4, <2>3 DEF AgentReceives
    <3>2. main' = [main EXCEPT !.got = got, !.pc = "exited"]
      BY <1>4, <3>1 DEF AgentReceives
    <3>3. main'.got = got
      BY <3>2 DEF Inv, Basics, MainType
    <3>4. signalled
      BY <1>4, <2>1, <2>3 DEF AgentReceives, Returned, Inv, Serving, Next
    <3>. HIDE DEF got
    <3>5. Honest0'
      BY <2>1, <3>1, <3>3, <3>4 DEF Bench, Honest0
    <3>. QED BY <1>1, <3>1, <3>5
  <2>. QED BY <1>1, <2>2, <2>3
<1>5. CASE BenchBuilds
  <2>1. CASE exit' = {}
    BY <1>1, <2>1
  <2>2. CASE exit' # {}
    <3>1. exit' = {2} /\ UNCHANGED <<ln, results>>
      BY <1>5, <2>2 DEF BenchBuilds, Exit, Next
    <3>2. Honest2'
      BY <1>5, <3>1 DEF BenchBuilds, Inv, Accounts, Places, Listeners, Honest2
    <3>. QED BY <1>1, <3>1, <3>2
  <2>. QED BY <2>1, <2>2
<1>6. CASE Summarises
  <2>1. CASE exit' = {}
    BY <1>1, <2>1
  <2>2. CASE exit' # {}
    <3>1. exit' = {1} /\ Failed # {} /\ Bench /\ UNCHANGED <<config, results>>
      BY <1>6, <2>2 DEF Summarises, Status, Exit, Next, Inv, Places, benchVars
    <3>2. Honest1'
      BY <3>1 DEF Bench, Failed, Honest1
    <3>. QED BY <1>1, <3>1, <3>2
  <2>. QED BY <2>1, <2>2
<1>. DEFINE Complete == results = [job : 0..config.requests - 1, ok : {TRUE}]
<1>7. main.pc \in {"cleanup", "stopped"} => Complete
  <2>. SUFFICES ASSUME main.pc \in {"cleanup", "stopped"} PROVE Complete
    OBVIOUS
  <2>1. /\ results \subseteq [job : Nat, ok : BOOLEAN] /\ main.job = config.requests /\ main.job \in Nat
        /\ Failed = {} /\ \A w \in Conns : ~Busy(w)
    BY DEF Inv, Accounts, Busy, Basics, MainType
  <2>2. ASSUME NEW r \in results PROVE r \in [job : 0..config.requests - 1, ok : {TRUE}]
    <3>1. r \in [job : Nat, ok : BOOLEAN] /\ r.ok
      BY <2>1 DEF Failed
    <3>2. r.job < main.job
      BY <3>1 DEF Inv, Accounts, InHand
    <3>3. r.job \in 0..config.requests - 1 /\ r = [job |-> r.job, ok |-> TRUE]
      BY <2>1, <3>1, <3>2
    <3>. DEFINE jobs == 0..config.requests - 1
    <3>4. r.job \in jobs
      BY <3>3
    <3>. HIDE DEF jobs
    <3>5. r \in [job : jobs, ok : {TRUE}]
      BY <3>3, <3>4, GoodResult
    <3>. QED BY <3>5 DEF jobs
  <2>3. ASSUME NEW r \in [job : 0..config.requests - 1, ok : {TRUE}] PROVE r \in results
    <3>1. r.job \in 0..config.requests - 1 /\ r = [job |-> r.job, ok |-> TRUE]
      OBVIOUS
    <3>4. r.job \in Nat /\ r.job < main.job
      BY <2>1, <3>1
    <3>2. PICK q \in results : q.job = r.job
      BY <2>1, <3>4 DEF Inv, Accounts, InHand
    <3>3. q = [job |-> q.job, ok |-> TRUE]
      BY <2>1, <2>2
    <3>. QED BY <3>1, <3>2, <3>3
  <2>. QED BY <2>2, <2>3
<1>. HIDE DEF Complete
<1>8. CASE CleansUp
  <2>1. CASE exit' = exit
    BY <1>1, <2>1 DEF Next
  <2>2. CASE exit' # exit
    <3>1. Complete' /\ Bench' /\ exit' = {0}
      BY <1>7, <1>8, <2>2 DEF CleansUp, Exit, Complete, Inv, Places, Bench
    <3>2. served'["socks"] \notin {"running", "stopped"} /\ ln'["socks"] # "open"
      BY <1>8, <2>2 DEF CleansUp, Returned, Inv, Places, Serving, Listeners
    <3>3. \A p \in pool' : p.closed = 1
      <4>1. CASE main.pc = "stopped"
        BY <1>8, <4>1 DEF CleansUp, Inv, Pooling, Places
      <4>2. CASE main.pc = "cleanup" /\ config.mode # "socks-wss"
        <5>1. ASSUME NEW p \in pool PROVE ClosePool(p).closed = 1
          BY DEF Inv, Pooling, ClosePool, Next
        <5>. QED BY <1>8, <4>2, <5>1 DEF CleansUp
      <4>. QED BY <1>8, <2>2, <4>1, <4>2 DEF CleansUp
    <3>. QED BY <3>1, <3>2, <3>3 DEF ExitStatusIsHonest, Complete
  <2>. QED BY <2>1, <2>2
<1>9. CASE exit' = exit
  BY <1>1, <1>9 DEF Next
<1>10. CASE AgentListens("socks", "listen socks", "listen http")
  BY <1>3, <1>10 DEF AgentListens, Inv, Places, Listeners
<1>11. CASE AgentListens("http", "listen http", "await")
  BY <1>3, <1>11 DEF AgentListens, Inv, Places, Listeners
<1>. QED
  BY <1>2, <1>4, <1>5, <1>6, <1>8, <1>9, <1>10, <1>11, Stays DEF MainStep, ClosesJobs, HandsOut

-----------------------------------------------------------------------------
(* The jobs *)

AtWork == {"running", "calling", "hello", "greeted", "requested"}

\* A worker that goes from work to work, or from rest to rest.
LEMMA MoveKeeps ==
  ASSUME WorkersType, NEW w \in Conns, NEW x \in Workers, work' = [work EXCEPT ![w] = x],
         results' = results, x.pc \in AtWork => Busy(w),
         Busy(w) => x.pc \in AtWork /\ x.job = work[w].job, NEW i
  PROVE  InHand(i)' <=> InHand(i)
<1>1. work'[w] = x /\ \A v \in Conns \ {w} : work'[v] = work[v]
  BY DEF WorkersType
<1>2. \A v \in Conns : (Busy(v) /\ work[v].job = i)' <=> (Busy(v) /\ work[v].job = i)
  BY <1>1 DEF Busy, AtWork
<1>. QED BY <1>2 DEF InHand

LEMMA ReportKeeps ==
  ASSUME WorkersType, NEW w \in Conns, NEW ok, Reports(w, ok), Busy(w), NEW i
  PROVE  InHand(i)' <=> InHand(i)
<1>. DEFINE new == [job |-> work[w].job, ok |-> ok]
<1>1. results' = results \cup {new} /\ new.job = work[w].job
  BY DEF Reports
<1>2. work' = [work EXCEPT ![w] = [work[w] EXCEPT !.pc = "idle"]]
  BY DEF Reports, Work, WorkersType
<1>3. ~Busy(w)' /\ \A v \in Conns \ {w} : work'[v] = work[v]
  BY <1>2 DEF Busy, WorkersType, Workers
<1>. HIDE DEF new
<1>4. (\E r \in results' : r.job = i) <=> (\E r \in results : r.job = i) \/ work[w].job = i
  BY <1>1
<1>5. (\E v \in Conns : Busy(v)' /\ work'[v].job = i)
      <=> (\E v \in Conns \ {w} : Busy(v) /\ work[v].job = i)
  BY <1>3 DEF Busy
<1>. QED BY <1>4, <1>5 DEF InHand

LEMMA HandsOutKeeps ==
  ASSUME WorkersType, MainType, NEW w \in Conns, HandsOut(w), NEW i
  PROVE  InHand(i)' <=> InHand(i) \/ i = main.job
<1>. DEFINE j == main.job
<1>1. j \in Nat /\ work[w] \in Workers
  BY DEF MainType, WorkersType
<1>2. /\ work' = [work EXCEPT ![w].pc = "running", ![w].job = j]
      /\ results' = results /\ work[w].pc = "idle"
  BY DEF HandsOut
<1>. HIDE DEF j
<1>3. work'[w].pc = "running" /\ work'[w].job = j /\ \A v \in Conns \ {w} : work'[v] = work[v]
  BY <1>1, <1>2 DEF WorkersType, Workers
<1>4. ~Busy(w) /\ Busy(w)' /\ work'[w].job = j
  BY <1>2, <1>3 DEF Busy
<1>5. (\E v \in Conns : Busy(v)' /\ work'[v].job = i)
      <=> (\E v \in Conns : Busy(v) /\ work[v].job = i) \/ i = j
  BY <1>3, <1>4 DEF Busy
<1>. QED BY <1>2, <1>5 DEF InHand, j

LEMMA ReadsOK ==
  ASSUME config \in Configs, Bench, NEW r
  PROVE  ReadResponse(r) \in BOOLEAN
<1>1. config.payload \in {"none", "http", "banner", "echo", "dns"}
  BY ConfigsAssumption DEF Bench
<1>2. CASE config.payload = "none"
  BY <1>2 DEF ReadResponse
<1>3. CASE config.payload = "http"
  BY <1>3 DEF ReadResponse
<1>4. CASE config.payload = "banner"
  BY <1>4 DEF ReadResponse
<1>5. CASE config.payload = "echo"
  BY <1>5 DEF ReadResponse
<1>6. CASE config.payload = "dns"
  BY <1>6 DEF ReadResponse
<1>. QED BY <1>1, <1>2, <1>3, <1>4, <1>5, <1>6

LEMMA BusyNow ==
  ASSUME Basics, Accounts, NEW w \in Conns, Busy(w)
  PROVE  main.pc \notin {"start", "build", "cleanup", "stopped"} /\ work[w].job \in Nat /\ Bench
<1>1. work[w].job \in Nat /\ Bench
  BY DEF Basics, WorkersType, Workers, Benching, Busy
<1>2. work[w].job < main.job
  BY <1>1 DEF Accounts, InHand
<1>. QED BY <1>1, <1>2 DEF Accounts, Busy

\* A worker's step keeps each job in hand.
LEMMA WorkerAccounts ==
  ASSUME Basics, Accounts, NEW w \in Conns, WorkerStep(w)
  PROVE  Accounts'
<1>1. UNCHANGED <<main, config>>
  BY DEF WorkerStep
<1>2. work[w] \in Workers /\ WorkersType
  BY DEF Basics, WorkersType
<1>3. ASSUME Busy(w), NEW pc \in AtWork, Work(w, pc), results' = results PROVE Accounts'
  <2>1. [work[w] EXCEPT !.pc = pc] \in Workers
    BY <1>2, <1>3 DEF Workers, AtWork
  <2>2. work' = [work EXCEPT ![w] = [work[w] EXCEPT !.pc = pc]]
    BY <1>2, <1>3 DEF Work, WorkersType
  <2>3. \A i : InHand(i)' <=> InHand(i)
    BY <1>2, <1>3, <2>1, <2>2, MoveKeeps DEF Workers
  <2>. QED BY <1>1, <1>3, <2>3, BusyNow DEF Accounts
<1>4. ASSUME Busy(w), NEW ok \in BOOLEAN, Reports(w, ok) PROVE Accounts'
  <2>1. \A i : InHand(i)' <=> InHand(i)
    BY <1>2, <1>4, ReportKeeps
  <2>2. results' \subseteq [job : Nat, ok : BOOLEAN]
    BY <1>4, BusyNow DEF Reports, Accounts
  <2>. QED BY <1>1, <1>4, <2>1, <2>2, BusyNow DEF Accounts
<1>5. \A r : Busy(w) => ReadResponse(r) \in BOOLEAN
  BY ReadsOK, BusyNow DEF Basics, MainType
<1>6. CASE TakesTurn(w)
  BY <1>3, <1>6 DEF TakesTurn, Busy, AtWork
<1>7. CASE Calls(w)
  <2>1. Busy(w)
    BY <1>7 DEF Calls, Busy
  <2>2. \E ok \in BOOLEAN : Reports(w, ok)
    BY <1>5, <1>7, <2>1 DEF Calls
  <2>. QED BY <1>4, <2>1, <2>2
<1>8. CASE SocksDials(w)
  BY <1>3, <1>4, <1>8 DEF SocksDials, Busy, AtWork
<1>9. CASE Greets(w)
  BY <1>3, <1>9 DEF Greets, Busy, AtWork
<1>10. CASE Requests(w)
  BY <1>3, <1>4, <1>10 DEF Requests, SocksFails, Busy, AtWork
<1>11. CASE Exercises(w)
  <2>1. Busy(w)
    BY <1>11 DEF Exercises, Busy
  <2>2. \E ok \in BOOLEAN : Reports(w, ok)
    BY <1>5, <1>11, <2>1 DEF Exercises, SocksFails
  <2>. QED BY <1>4, <2>1, <2>2
<1>12. CASE Leaves(w)
  <2>. DEFINE x == [work[w] EXCEPT !.pc = "exited"]
  <2>1. work[w].pc = "idle" /\ main.pc = "wait" /\ results' = results
    BY <1>12 DEF Leaves
  <2>2. x \in Workers /\ x.pc = "exited" /\ work' = [work EXCEPT ![w] = x]
    BY <1>2, <1>12 DEF Leaves, Work, Workers, WorkersType
  <2>. HIDE DEF x
  <2>3. \A i : InHand(i)' <=> InHand(i)
    BY <1>2, <2>1, <2>2, MoveKeeps DEF Busy, AtWork
  <2>. QED BY <1>1, <2>1, <2>3 DEF Accounts
<1>. QED BY <1>6, <1>7, <1>8, <1>9, <1>10, <1>11, <1>12 DEF WorkerStep

LEMMA LessNext ==
  ASSUME NEW i \in Nat, NEW j \in Nat
  PROVE  i < j + 1 <=> i < j \/ i = j
OBVIOUS

LEMMA NoneBelowZero ==
  ASSUME NEW i \in Nat
  PROVE  ~(i < 0)
OBVIOUS

LEMMA NoneFailed ==
  ASSUME Status = 0
  PROVE  Failed = {}
BY DEF Status

\* Only HandsOut adds a job.
LEMMA MainAccounts ==
  ASSUME Basics, Accounts, MainStep
  PROVE  Accounts'
<1>. USE DEF Basics, MainType
<1>1. ASSUME UNCHANGED <<work, results>> PROVE \A i : InHand(i)' <=> InHand(i)
  BY <1>1 DEF InHand, Busy
<1>2. ASSUME UNCHANGED <<work, results, config>>, main'.job = main.job,
             main'.pc \in {"listen socks", "listen http", "await", "drain", "exited"}
             \/ (main.pc = "start" /\ main'.pc = "build")
             \/ (main.pc = "cleanup" /\ main'.pc = "stopped")
             \/ (main'.pc = "wait" /\ main.job = config.requests)
      PROVE  Accounts'
  BY <1>1, <1>2 DEF Accounts, Failed
<1>3. CASE AgentStarts \/ BenchStarts
  BY <1>2, <1>3 DEF AgentStarts, BenchStarts, benchVars, Main
<1>4. CASE BenchBuilds
  <2>1. main'.job = 0 /\ main.job = 0 /\ results = {} /\ results' = {} /\ config' = config
        /\ main'.pc \in {"produce", "exited"}
    BY <1>4 DEF BenchBuilds, Accounts, Produce, Main
  <2>2. ASSUME NEW i \in Nat PROVE ~InHand(i)
    <3>1. i < main.job <=> InHand(i)
      BY DEF Accounts
    <3>2. ~(i < 0)
      BY NoneBelowZero
    <3>. QED BY <2>1, <3>1, <3>2, Zenon
  <2>3. \A v \in Conns : work[v].job \in Nat /\ ~Busy(v)
    BY <2>2 DEF InHand, WorkersType, Workers
  <2>4. ASSUME NEW v \in Conns PROVE ~Busy(v)'
    <3>1. work'[v] = work[v] \/ work'[v] = [work[v] EXCEPT !.pc = "idle"]
      BY <1>4 DEF BenchBuilds, Produce
    <3>2. work'[v].pc \in {work[v].pc, "idle"}
      BY <3>1 DEF WorkersType, Workers
    <3>. QED BY <2>3, <3>2 DEF Busy
  <2>5. ASSUME NEW i \in Nat PROVE ~(i < main'.job) /\ ~InHand(i)'
    <3>1. ~(i < 0)
      BY NoneBelowZero
    <3>2. ~InHand(i)'
      BY <2>1, <2>4, Zenon DEF InHand
    <3>. QED BY <2>1, <3>1, <3>2, Zenon
  <2>. QED BY <2>1, <2>5 DEF Accounts
<1>5. CASE ClosesJobs
  BY <1>2, <1>5 DEF ClosesJobs, benchVars, Main
<1>6. CASE Summarises
  <2>1. CASE Status # 0
    BY <1>2, <1>6, <2>1 DEF Summarises, benchVars, Main
  <2>2. CASE Status = 0
    <3>1. Failed = {} /\ UNCHANGED <<work, results, config>> /\ main'.job = main.job
          /\ main.pc = "wait" /\ main'.pc = "cleanup" /\ \A w \in Conns : work[w].pc = "exited"
      <4>1. Main("cleanup") /\ Failed = {} /\ UNCHANGED <<work, results, config>>
            /\ main.pc = "wait" /\ \A w \in Conns : work[w].pc = "exited"
        <5>1. Failed = {}
          BY <2>2, NoneFailed
        <5>. QED BY <1>6, <2>2, <5>1, Zenon DEF Summarises, benchVars
      <4>. QED BY <4>1 DEF Main
    <3>. QED BY <1>1, <3>1 DEF Accounts, Failed
  <2>. QED BY <2>1, <2>2
<1>7. CASE CleansUp
  BY <1>2, <1>7 DEF CleansUp, Main
<1>8. ASSUME NEW l, NEW pc, NEW next \in {"listen http", "await"}, AgentListens(l, pc, next)
      PROVE  Accounts'
  BY <1>2, <1>8 DEF AgentListens, benchVars, Main
<1>9. ASSUME NEW l, AgentReceives(l) PROVE Accounts'
  BY <1>2, <1>9 DEF AgentReceives, benchVars
<1>10. ASSUME NEW w \in Conns, HandsOut(w) PROVE Accounts'
  <2>1. \A i : InHand(i)' <=> InHand(i) \/ i = main.job
    BY <1>10, HandsOutKeeps
  <2>2. main.pc = "produce" /\ main' = [main EXCEPT !.job = main.job + 1] /\ results' = results
    BY <1>10 DEF HandsOut
  <2>3. main.job \in Nat /\ main'.job = main.job + 1 /\ main'.pc = "produce"
    BY <2>2
  <2>4. ASSUME NEW i \in Nat PROVE i < main'.job <=> InHand(i)'
    <3>1. i < main.job <=> InHand(i)
      BY DEF Accounts
    <3>2. i < main.job + 1 <=> i < main.job \/ i = main.job
      BY <2>3, LessNext
    <3>. QED BY <2>1, <2>3, <3>1, <3>2, Zenon
  <2>. QED BY <2>2, <2>3, <2>4 DEF Accounts
<1>. QED BY <1>3, <1>4, <1>5, <1>6, <1>7, <1>8, <1>9, <1>10 DEF MainStep

\* The invariant holds at the start.
LEMMA InitInv ==
  ASSUME Init
  PROVE  Inv
<1>1. Accounts
  BY DEF Init, Accounts, InHand, Busy
<1>2. Places /\ Serving /\ Pooling /\ ExitStatusIsHonest
  BY DEF Init, AgentInit, Places, Serving, ServeType, Listeners, Pooling, ExitStatusIsHonest
<1>. QED BY <1>1, <1>2, InitBasics DEF Inv

\* Every step keeps the invariant.
LEMMA NextInv ==
  ASSUME Inv, [Next]_vars
  PROVE  Inv'
<1>1. CASE Next
  <2>1. CASE UNCHANGED <<main, config, work, results>>
    <3>1. \A i : InHand(i)' <=> InHand(i)
      BY <2>1 DEF InHand, Busy
    <3>. QED BY <1>1, <2>1, <3>1, NextBasics, PlacesKept, ServingKept, PoolingKept, ExitKept
         DEF Inv, Accounts, Failed
  <2>2. CASE MainStep \/ \E w \in Conns : WorkerStep(w)
    BY <1>1, <2>2, NextBasics, MainAccounts, WorkerAccounts, PlacesKept, ServingKept, PoolingKept,
       ExitKept DEF Inv
  <2>. QED BY <1>1, <2>1, <2>2 DEF Next, Signal, OfAgent, PeerActs, benchVars
<1>2. CASE UNCHANGED vars
  <2>1. UNCHANGED <<cancelled, ln, served, broken, config, main, exit, signalled, work, results, pool>>
    BY <1>2 DEF vars, agentVars
  <2>2. \A i : InHand(i)' <=> InHand(i)
    BY <2>1 DEF InHand, Busy
  <2>3. Accounts'
    BY <2>1, <2>2 DEF Inv, Accounts, Failed
  <2>4. Places' /\ Serving' /\ Pooling'
    BY <2>1 DEF Inv, Places, Serving, ServeType, Pooling, Bench
  <2>5. ExitStatusIsHonest'
    BY <2>1 DEF Inv, ExitStatusIsHonest, Bench, Failed
  <2>. QED BY <1>2, <2>3, <2>4, <2>5, NextBasics DEF Inv
<1>. QED BY <1>1, <1>2

\* For any number of jobs, workers and clients: exit status 0 of cfsbench says that each
\* job has one good result and that what it started is stopped, 0 of cf-socks-agent that
\* it was signalled and every serve has returned; 1 has a failure behind it, and with 2
\* nothing was begun.
THEOREM HonestStatus == Spec => []ExitStatusIsHonest
<1>1. Inv => ExitStatusIsHonest
  BY DEF Inv
<1>. QED BY <1>1, InitInv, NextInv, PTL DEF Spec
-----------------------------------------------------------------------------
(* The round robin of a pool *)

\* A counter and its remainder and quotient, one step on.
LEMMA NextTicket ==
  ASSUME NEW t \in Nat, NEW n \in Nat \ {0}
  PROVE  /\ t % n \in 0..n - 1 /\ t \div n \in Nat
         /\ (t + 1) % n = IF (t % n) + 1 = n THEN 0 ELSE (t % n) + 1
         /\ (t + 1) \div n = IF (t % n) + 1 = n THEN t \div n + 1 ELSE t \div n
         /\ 0 % n = 0 /\ 0 \div n = 0
<1>. DEFINE q == t \div n
            r == t % n
            s == (t + 1) \div n
            u == (t + 1) % n
<1>1. t = n * q + r /\ q \in Int /\ r \in 0..n-1
  OBVIOUS
<1>2. t + 1 = n * s + u /\ s \in Int /\ u \in 0..n-1
  OBVIOUS
<1>3. s = IF r + 1 = n THEN q + 1 ELSE q
  OBVIOUS
<1>4. q \in Nat
  OBVIOUS
<1>5. 0 % n = 0 /\ 0 \div n = 0
  OBVIOUS
<1>. HIDE DEF q, r, s, u
<1>6. n * (q + 1) = n * q + n
  BY <1>1
<1>7. u = IF r + 1 = n THEN 0 ELSE r + 1
  BY <1>1, <1>2, <1>3, <1>6
<1>. QED BY <1>1, <1>3, <1>4, <1>5, <1>7 DEF q, r, s, u

\* The number of values of the counter.
LEMMA CounterValues == 2^Width \in Nat \ {0}
<1>1. IsFiniteSet(1..Width) /\ Cardinality(1..Width) = Width
  BY FS_Interval, WidthAssumption
<1>2. IsFiniteSet(SUBSET (1..Width)) /\ Cardinality(SUBSET (1..Width)) = 2^Width
  BY <1>1, FS_SUBSET
<1>3. Cardinality(SUBSET (1..Width)) \in Nat /\ Cardinality(SUBSET (1..Width)) # 0
  BY <1>2, FS_CardinalityType, FS_EmptySet
<1>. QED BY <1>2, <1>3

PoolShape(p) ==
  /\ p = [clients |-> p.clients, next |-> p.next, uses |-> p.uses, closed |-> p.closed]
  /\ p.clients \in Nat \ {0} /\ p.next \in Nat /\ p.uses \in [0..p.clients - 1 -> Nat]

\* In each round the clients in front of the next one have been taken once more;
\* each wrap-around may leave them so.
Ahead(p, i) == IF i < p.next % p.clients THEN 1 ELSE 0
SpreadAfter(p, t) ==
  /\ PoolShape(p) /\ p.next = t % 2^Width
  /\ \A i, j \in 0..p.clients - 1 :
       p.uses[i] - p.uses[j] <= t \div 2^Width + Ahead(p, i) - Ahead(p, j)

\* A new pool.
LEMMA NewPoolSpread ==
  ASSUME NEW n \in Nat \ {0},
         NEW p, p = [clients |-> n, next |-> 0, uses |-> [i \in 0..n - 1 |-> 0], closed |-> 0]
  PROVE  SpreadAfter(p, 0)
<1>1. p.clients = n /\ p.next = 0 /\ p.uses = [i \in 0..n - 1 |-> 0]
  OBVIOUS
<1>2. PoolShape(p)
  BY <1>1 DEF PoolShape
<1>3. 0 % 2^Width = 0 /\ 0 \div 2^Width = 0 /\ 0 % n = 0
  BY CounterValues, NextTicket
<1>4. \A i \in 0..n - 1 : Ahead(p, i) = 0 /\ p.uses[i] = 0
  BY <1>1, <1>3 DEF Ahead
<1>. QED BY <1>1, <1>2, <1>3, <1>4 DEF SpreadAfter

\* One more call, at the wrap-around too.
LEMMA TakeSpread ==
  ASSUME NEW p, NEW t \in Nat, SpreadAfter(p, t)
  PROVE  SpreadAfter(Take(p, p.next), t + 1)
<1>1. PICK M \in Nat \ {0} : M = 2^Width
  BY CounterValues
<1>2. PICK n \in Nat \ {0} : n = p.clients
  BY DEF SpreadAfter, PoolShape
<1>3. PICK c \in 0..n - 1 : c = p.next % n /\ (p.next + 1) % n = IF c + 1 = n THEN 0 ELSE c + 1
  <2>1. p.next \in Nat
    BY DEF SpreadAfter, PoolShape
  <2>2. p.next % n \in 0..n - 1
    BY <2>1, NextTicket, Zenon
  <2>3. (p.next + 1) % n = IF (p.next % n) + 1 = n THEN 0 ELSE (p.next % n) + 1
    BY <2>1, NextTicket, Zenon
  <2>. QED BY <2>2, <2>3, Zenon
<1>4. PICK q \in Nat :
        /\ q = t \div M
        /\ (t + 1) % M = IF (t % M) + 1 = M THEN 0 ELSE (t % M) + 1
        /\ (t + 1) \div M = IF (t % M) + 1 = M THEN q + 1 ELSE q
  <2>1. t \div M \in Nat
    BY NextTicket, Zenon
  <2>2. (t + 1) % M = IF (t % M) + 1 = M THEN 0 ELSE (t % M) + 1
    BY NextTicket, Zenon
  <2>3. (t + 1) \div M = IF (t % M) + 1 = M THEN t \div M + 1 ELSE t \div M
    BY NextTicket, Zenon
  <2>. QED BY <2>1, <2>2, <2>3, Zenon
<1>5. /\ p = [clients |-> n, next |-> p.next, uses |-> p.uses, closed |-> p.closed]
      /\ p.next \in Nat /\ p.next = t % M /\ p.uses \in [0..n - 1 -> Nat]
      /\ \A i, j \in 0..n - 1 : p.uses[i] - p.uses[j] <= q + Ahead(p, i) - Ahead(p, j)
  BY <1>1, <1>2, <1>4 DEF SpreadAfter, PoolShape
<1>6. p.next % M = p.next /\ p.next \in 0..M - 1 /\ (p.next + 1) % M = (t + 1) % M
  <2>1. p.next \in 0..M - 1
    BY <1>5, NextTicket
  <2>2. p.next % M = p.next
    BY <2>1
  <2>3. (p.next + 1) % M = IF (p.next % M) + 1 = M THEN 0 ELSE (p.next % M) + 1
    BY <1>5, NextTicket, Zenon
  <2>4. (t + 1) % M = IF p.next + 1 = M THEN 0 ELSE p.next + 1
    BY <1>4, <1>5
  <2>. QED BY <2>1, <2>2, <2>3, <2>4
<1>7. PICK x : x = Take(p, p.next)
  OBVIOUS
<1>8. /\ x = [clients |-> n, next |-> (t + 1) % M, uses |-> [p.uses EXCEPT ![c] = @ + 1],
              closed |-> p.closed]
  <2>1. x = [p EXCEPT !.next = (p.next + 1) % M, !.uses[c] = @ + 1]
    BY <1>1, <1>2, <1>3, <1>7 DEF Take, Turn
  <2>2. PICK y : y = [p EXCEPT !.next = (t + 1) % M]
    OBVIOUS
  <2>3. y = [clients |-> n, next |-> (t + 1) % M, uses |-> p.uses, closed |-> p.closed]
    BY <1>5, <2>2
  <2>4. x = [y EXCEPT !.uses[c] = @ + 1]
    BY <1>6, <2>1, <2>2
  <2>5. [y EXCEPT !.uses[c] = @ + 1]
          = [clients |-> n, next |-> (t + 1) % M, uses |-> [p.uses EXCEPT ![c] = @ + 1],
             closed |-> p.closed]
    BY <2>3
  <2>. QED BY <2>4, <2>5
<1>9. /\ x.clients = n /\ x.next = (t + 1) % M /\ x.uses \in [0..n - 1 -> Nat]
      /\ \A i \in 0..n - 1 : x.uses[i] = IF i = c THEN p.uses[i] + 1 ELSE p.uses[i]
  <2>1. \A u \in [0..n - 1 -> Nat] :
          /\ [u EXCEPT ![c] = @ + 1] \in [0..n - 1 -> Nat]
          /\ \A i \in 0..n - 1 : [u EXCEPT ![c] = @ + 1][i] = IF i = c THEN u[i] + 1 ELSE u[i]
    <3>1. \A u \in [0..n - 1 -> Nat] : u[c] + 1 \in Nat
      OBVIOUS
    <3>. QED BY <3>1
  <2>. QED BY <1>5, <1>8, <2>1
<1>10. (t + 1) % M \in Nat
  <2>1. \A m \in 0..M - 1 : m \in Nat
    OBVIOUS
  <2>. QED BY <2>1, NextTicket
<1>11. PoolShape(x) /\ x.next = (t + 1) % 2^Width
  BY <1>1, <1>8, <1>9, <1>10 DEF PoolShape
<1>12. \A i \in 0..n - 1 : Ahead(p, i) = IF i < c THEN 1 ELSE 0
  BY <1>2, <1>3 DEF Ahead
<1>13. ASSUME NEW i \in 0..n - 1, NEW j \in 0..n - 1
       PROVE  x.uses[i] - x.uses[j] <= (t + 1) \div M + Ahead(x, i) - Ahead(x, j)
  <2>. DEFINE A(k) == IF k < c THEN 1 ELSE 0
              B(k) == IF k = c THEN 1 ELSE 0
  <2>1. PICK a \in Nat, b \in Nat :
          /\ a = p.uses[i] /\ b = p.uses[j] /\ a - b <= q + A(i) - A(j)
          /\ x.uses[i] = a + B(i) /\ x.uses[j] = b + B(j)
    <3>1. p.uses[i] \in Nat /\ p.uses[j] \in Nat
      BY <1>5
    <3>2. p.uses[i] - p.uses[j] <= q + A(i) - A(j)
      BY <1>5, <1>12
    <3>3. x.uses[i] = p.uses[i] + B(i) /\ x.uses[j] = p.uses[j] + B(j)
      <4>1. \A u \in Nat : (IF i = c THEN u + 1 ELSE u) = u + B(i)
                            /\ (IF j = c THEN u + 1 ELSE u) = u + B(j)
        OBVIOUS
      <4>. QED BY <1>9, <3>1, <4>1, Zenon
    <3>. QED BY <3>1, <3>2, <3>3
  <2>2. CASE (t % M) + 1 = M
    <3>1. Ahead(x, i) = 0 /\ Ahead(x, j) = 0
      <4>1. x.next % n = 0
        BY <1>4, <1>9, <2>2, NextTicket
      <4>. QED BY <1>9, <4>1 DEF Ahead
    <3>2. (t + 1) \div M = q + 1
      BY <1>4, <2>2
    <3>3. (a + B(i)) - (b + B(j)) <= q + 1
      BY <2>1
    <3>. QED BY <2>1, <3>1, <3>2, <3>3
  <2>3. CASE (t % M) + 1 # M
    <3>. DEFINE N(k) == IF c + 1 = n THEN 0 ELSE IF k < c + 1 THEN 1 ELSE 0
    <3>1. Ahead(x, i) = N(i) /\ Ahead(x, j) = N(j)
      <4>1. x.next % n = IF c + 1 = n THEN 0 ELSE c + 1
        BY <1>3, <1>4, <1>5, <1>9, <2>3
      <4>. QED BY <1>9, <4>1 DEF Ahead
    <3>2. (t + 1) \div M = q
      BY <1>4, <2>3
    <3>3. (a + B(i)) - (b + B(j)) <= q + N(i) - N(j)
      BY <2>1
    <3>. QED BY <2>1, <3>1, <3>2, <3>3
  <2>. QED BY <2>2, <2>3
<1>. QED BY <1>1, <1>7, <1>9, <1>11, <1>13 DEF SpreadAfter

\* Close leaves the counts alone.
LEMMA CloseSpread ==
  ASSUME NEW p, NEW t, SpreadAfter(p, t)
  PROVE  SpreadAfter(ClosePool(p), t)
<1>. DEFINE x == ClosePool(p)
<1>1. /\ x.clients = p.clients /\ x.next = p.next /\ x.uses = p.uses
      /\ x = [clients |-> x.clients, next |-> x.next, uses |-> x.uses, closed |-> x.closed]
  BY DEF SpreadAfter, PoolShape, ClosePool
<1>. HIDE DEF x
<1>2. \A i : Ahead(x, i) = Ahead(p, i)
  BY <1>1 DEF Ahead
<1>3. SpreadAfter(x, t)
  BY <1>1, <1>2 DEF SpreadAfter, PoolShape
<1>. QED BY <1>3 DEF x

-----------------------------------------------------------------------------
(* The calls of a pool, counted by the workers *)

Running == {w \in Conns : work[w].pc = "running"}
Taken == main.job - Cardinality(Running)

\* Pools as built, taken and closed: every call so far has taken its turn.
Even == Taken \in Nat /\ \A p \in pool : SpreadAfter(p, Taken)

\* Workers in and out of the set of those that have not taken their turn.
LEMMA RunningCount ==
  /\ IsFiniteSet(Running) /\ Cardinality(Running) \in Nat
  /\ \A w : w \in Running => Cardinality(Running \ {w}) = Cardinality(Running) - 1
  /\ \A w : w \notin Running => Cardinality(Running \cup {w}) = Cardinality(Running) + 1
<1>1. IsFiniteSet(Running)
  <2>1. Running \in SUBSET Conns
    BY DEF Running
  <2>. QED BY <2>1, ConnsAssumption, FS_Subset
<1>. QED BY <1>1, FS_CardinalityType, FS_AddElement, FS_RemoveElement

\* What a worker's step does to the number of calls that have taken their turn.
LEMMA WorkerTakes ==
  ASSUME Inv, Even, Next, NEW w \in Conns, WorkerStep(w)
  PROVE  \/ Taken' = Taken /\ pool' = pool
         \/ Taken' = Taken + 1 /\ pool' = {Take(p, p.next) : p \in pool}
<1>1. main' = main /\ main.job \in Nat /\ work \in [Conns -> Workers]
  BY DEF WorkerStep, Inv, Basics, MainType, WorkersType
<1>2. PICK pc : pc # "running" /\ Work(w, pc)
  BY DEF WorkerStep, TakesTurn, Calls, SocksDials, Greets, Requests, Exercises, Leaves, Reports,
         SocksFails
<1>3. Running' = Running \ {w}
  BY <1>1, <1>2 DEF Running, Work, Workers
<1>4. CASE work[w].pc = "running"
  <2>1. Taken' = Taken + 1
    BY <1>1, <1>3, <1>4, RunningCount DEF Taken, Running
  <2>2. TakesTurn(w) \/ (pool = {} /\ pool' = pool)
    BY <1>4 DEF WorkerStep, Calls, SocksDials, Greets, Requests, Exercises, Leaves, Inv, Pooling
  <2>. QED BY <2>1, <2>2 DEF TakesTurn
<1>5. CASE work[w].pc # "running"
  <2>1. Running' = Running
    BY <1>3, <1>5 DEF Running
  <2>2. Taken' = Taken
    BY <1>1, <2>1 DEF Taken
  <2>3. pool' = pool
    BY <1>5 DEF WorkerStep, TakesTurn, Calls, SocksDials, Greets, Requests, Exercises, Leaves
  <2>. QED BY <2>2, <2>3
<1>. QED BY <1>4, <1>5

\* A job handed out is running and has not taken its turn.
LEMMA HandsOutTakes ==
  ASSUME Inv, NEW w \in Conns, HandsOut(w)
  PROVE  Taken' = Taken /\ pool' = pool
<1>1. /\ work \in [Conns -> Workers] /\ work[w].pc = "idle" /\ pool' = pool
      /\ main.job \in Nat /\ main'.job = main.job + 1
      /\ work' = [work EXCEPT ![w].pc = "running", ![w].job = main.job]
  BY DEF HandsOut, Inv, Basics, MainType, WorkersType
<1>2. Running' = Running \cup {w} /\ w \notin Running
  BY <1>1 DEF Running, Workers
<1>. QED BY <1>1, <1>2, RunningCount DEF Taken

\* buildRunner's pool is new, and no job has been handed out.
LEMMA BuildSpread ==
  ASSUME Inv, Even, BenchBuilds
  PROVE  Even'
<1>1. main.job = 0 /\ main'.job = 0 /\ WorkersType /\ ValidConfig /\ config \in Configs
  BY DEF BenchBuilds, Produce, Main, Inv, Accounts, Basics, MainType, Benching
<1>2. \A v \in Conns : ~Busy(v)
  <2>. SUFFICES ASSUME NEW v \in Conns, Busy(v) PROVE FALSE
    OBVIOUS
  <2>. QED BY BusyNow DEF Inv, BenchBuilds
<1>3. Running = {}
  BY <1>2 DEF Running, Busy
<1>4. Running' = {}
  <2>1. \A v \in Conns : work'[v] = work[v] \/ work'[v] = [work[v] EXCEPT !.pc = "idle"]
    BY DEF BenchBuilds, Produce
  <2>2. \A v \in Conns : work'[v].pc \in {work[v].pc, "idle"}
    BY <1>1, <2>1 DEF WorkersType, Workers
  <2>. QED BY <1>3, <2>2 DEF Running
<1>5. Taken' = 0
  BY <1>1, <1>4, FS_EmptySet DEF Taken
<1>6. config.poolSize \in Int /\ config.poolSize >= 0
  BY <1>1, ConfigsAssumption DEF ValidConfig
<1>7. \A p \in pool' : p \in pool \/ \E n \in Nat \ {0} :
        p = [clients |-> n, next |-> 0, uses |-> [i \in 0..n - 1 |-> 0], closed |-> 0]
  <2>1. CASE config.mode = "socks-wss" \/ config.poolSize = 0
    BY <2>1 DEF BenchBuilds
  <2>2. CASE config.mode # "socks-wss" /\ config.poolSize # 0
    <3>. DEFINE n == config.poolSize
                new == {[clients |-> n, next |-> 0, uses |-> [i \in 0..n - 1 |-> 0], closed |-> 0]}
    <3>1. NewClientPool("h2", n, <<>>) \in {{}, new}
      BY <2>2 DEF NewClientPool
    <3>2. NewH3Pool(n) \in {{}, new}
      BY <2>2 DEF NewH3Pool, NewClientPool
    <3>3. pool' \in {{}, new}
      BY <2>2, <3>1, <3>2 DEF BenchBuilds
    <3>4. n \in Nat \ {0}
      BY <1>6, <2>2
    <3>. QED BY <3>3, <3>4
  <2>. QED BY <2>1, <2>2
<1>8. \A p \in pool : SpreadAfter(p, 0)
  <2>1. Taken = 0
    BY <1>1, <1>3, FS_EmptySet DEF Taken
  <2>. QED BY <2>1 DEF Even
<1>9. \A p \in pool' : SpreadAfter(p, 0)
  BY <1>7, <1>8, NewPoolSpread
<1>. QED BY <1>5, <1>9 DEF Even

\* Every step keeps the pools as many calls old as have taken their turn.
LEMMA EvenStep == Inv /\ Even /\ [Next]_vars => Even'
<1>. SUFFICES ASSUME Inv, Even, [Next]_vars PROVE Even'
  OBVIOUS
<1>1. ASSUME Taken' = Taken, pool' = pool \/ pool' = {ClosePool(p) : p \in pool}
      PROVE  Even'
  <2>1. \A p \in pool' : SpreadAfter(p, Taken)
    BY <1>1, CloseSpread DEF Even
  <2>. QED BY <1>1, <2>1 DEF Even
<1>2. ASSUME Taken' = Taken + 1, pool' = {Take(p, p.next) : p \in pool} PROVE Even'
  <2>1. Taken \in Nat /\ Taken + 1 \in Nat
    BY DEF Even
  <2>2. \A p \in pool' : SpreadAfter(p, Taken + 1)
    BY <1>2, <2>1, TakeSpread DEF Even
  <2>. QED BY <1>2, <2>1, <2>2 DEF Even
<1>3. ASSUME main'.job = main.job, UNCHANGED work PROVE Taken' = Taken
  BY <1>3 DEF Taken, Running
<1>4. CASE AgentStarts \/ BenchStarts \/ ClosesJobs \/ Summarises
  <2>1. main'.job = main.job /\ UNCHANGED <<work, pool>>
    BY <1>4 DEF AgentStarts, BenchStarts, ClosesJobs, Summarises, Main, benchVars, Inv, Basics, MainType
  <2>. QED BY <1>1, <1>3, <2>1
<1>5. CASE CleansUp
  <2>1. main'.job = main.job /\ work' = work /\ (pool' = pool \/ pool' = {ClosePool(p) : p \in pool})
    BY <1>5 DEF CleansUp, Main, Inv, Basics, MainType
  <2>. QED BY <1>1, <1>3, <2>1
<1>6. ASSUME NEW l, NEW pc, NEW next, AgentListens(l, pc, next) PROVE Even'
  <2>1. main'.job = main.job /\ UNCHANGED <<work, pool>>
    BY <1>6 DEF AgentListens, Main, benchVars, Inv, Basics, MainType
  <2>. QED BY <1>1, <1>3, <2>1
<1>7. ASSUME NEW l, AgentReceives(l) PROVE Even'
  <2>1. main'.job = main.job /\ UNCHANGED <<work, pool>>
    BY <1>7 DEF AgentReceives, benchVars, Inv, Basics, MainType
  <2>. QED BY <1>1, <1>3, <2>1
<1>8. CASE UNCHANGED <<main, work, pool>>
  BY <1>1, <1>3, <1>8
<1>9. ASSUME NEW w \in Conns, WorkerStep(w), Next PROVE Even'
  BY <1>1, <1>2, <1>9, WorkerTakes
<1>10. ASSUME NEW w \in Conns, HandsOut(w) PROVE Even'
  BY <1>1, <1>10, HandsOutTakes
<1>. QED
  BY <1>4, <1>5, <1>6, <1>7, <1>8, <1>9, <1>10, BuildSpread
  DEF Next, MainStep, Signal, OfAgent, PeerActs, benchVars, vars

\* Whatever the number of workers and of clients of the pool, and in any order of their
\* atomic additions: no client is taken more than once more often than another, and
\* once more for each wrap-around of the counter.
THEOREM FairTurns == Spec => []EvenSpread
<1>1. Init => Even
  <2>. SUFFICES ASSUME Init PROVE Even
    OBVIOUS
  <2>1. Running = {} /\ main.job = 0 /\ pool = {}
    BY DEF Init, Running
  <2>2. Taken = 0
    BY <2>1, FS_EmptySet DEF Taken
  <2>. QED BY <2>1, <2>2 DEF Even
<1>2. Even => EvenSpread
  <2>. SUFFICES ASSUME Even, NEW p \in pool, NEW i \in DOMAIN p.uses, NEW j \in DOMAIN p.uses
                PROVE  p.uses[i] - p.uses[j] <= 1 + Taken \div 2^Width
    BY DEF EvenSpread, Taken, Running
  <2>1. SpreadAfter(p, Taken) /\ Taken \in Nat
    BY DEF Even
  <2>2. i \in 0..p.clients - 1 /\ j \in 0..p.clients - 1 /\ p.uses[i] \in Nat /\ p.uses[j] \in Nat
    BY <2>1 DEF SpreadAfter, PoolShape
  <2>3. p.uses[i] - p.uses[j] <= Taken \div 2^Width + Ahead(p, i) - Ahead(p, j)
    BY <2>1, <2>2 DEF SpreadAfter
  <2>4. Ahead(p, i) \in {0, 1} /\ Ahead(p, j) \in {0, 1} /\ Taken \div 2^Width \in Nat
    BY <2>1, CounterValues, NextTicket DEF Ahead
  <2>. QED BY <2>2, <2>3, <2>4
<1>. QED BY <1>1, <1>2, InitInv, NextInv, EvenStep, PTL DEF Spec
=============================================================================
