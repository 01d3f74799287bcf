------------------------------- MODULE Commands -------------------------------
(***************************************************************************)
(* The two programs: cmd/cf-socks-agent, which runs one or two listeners   *)
(* until a signal, and cmd/cfsbench, which runs jobs over the SDK, over a  *)
(* pool of its clients, or through an agent of its own, and reports.       *)
(*                                                                         *)
(*   config  the command line: program, mode, whether the flags without a  *)
(*           model are good, the requests, the pool size, the payload, the *)
(*           targets; for the agent its listeners                          *)
(*   main    where main is, how many jobs it has handed out, and the       *)
(*           serves whose result it has received                           *)
(*   exit    {} or the exit status                                         *)
(*   work    each worker of runLoad: where it is and its job               *)
(*   results the channel: the jobs done, with their outcome                *)
(*   pool    {} or the pool                                                *)
(***************************************************************************)
EXTENDS AgentServer, ClientPool, Sequences, FiniteSets

CONSTANTS Configs,    \* command lines
          Peers,      \* connections of clients that are not cfsbench
          Messages,   \* what those may say
          Responses   \* what a target sends back

ASSUME ConnsAssumption == IsFiniteSet(Conns)
ASSUME PeersAssumption == Peers \subseteq Conns
ASSUME MessagesAssumption ==
  \A m \in Messages : m.kind = "greeting" \/ (m.host \in STRING /\ m.port \in Int)
ASSUME ConfigsAssumption ==
  \A c \in Configs :
    /\ c.requests \in Int /\ c.poolSize \in Int /\ c.listeners \subseteq Listeners
    /\ c.targets \in Seq([host : STRING, port : Int])
    /\ c.program = "cfsbench" => c.payload \in {"none", "http", "banner", "echo", "dns"}

VARIABLES config, main, exit, signalled, work, results, pool

vars == <<agentVars, config, main, exit, signalled, work, results, pool>>
benchVars == <<work, results, pool>>

Bench == config.program = "cfsbench"

Init ==
  /\ AgentInit
  /\ config \in Configs
  /\ main = [pc |-> "start", job |-> 0, got |-> {}]
  /\ exit = {} /\ signalled = FALSE
  /\ work = [w \in Conns |-> [pc |-> "none", job |-> 0]]
  /\ results = {} /\ pool = {}

Exit(code) == exit' = {code}
Main(pc) == main' = [main EXCEPT !.pc = pc]

-----------------------------------------------------------------------------
(* cf-socks-agent *)

\* The flags; net.Listen on each address, and the goroutine that serves it.
AgentStarts ==
  /\ main.pc = "start" /\ ~Bench
  /\ IF config.good /\ config.listeners # {}
       THEN Main("listen socks") /\ exit' = exit
       ELSE Main("exited") /\ Exit(2)
  /\ UNCHANGED <<agentVars, config, signalled, benchVars>>

AgentListens(l, pc, next) ==
  /\ main.pc = pc
  /\ IF l \notin config.listeners
       THEN Main(next) /\ UNCHANGED <<ln, served, exit>>
       ELSE \/ Listen(l) /\ Main(next) /\ exit' = exit
            \/ Main("exited") /\ Exit(1) /\ UNCHANGED <<ln, served>>
  /\ UNCHANGED <<cancelled, broken, conn, config, signalled, benchVars>>

Returned(l) == served[l] \in {"nil", "error"} /\ l \notin main.got

\* The first result cancels the context; a clean one then waits for the other.
AgentReceives(l) ==
  /\ main.pc \in {"await", "drain"} /\ Returned(l)
  /\ cancelled' = TRUE
  /\ LET got  == main.got \cup {l}
         last == served[l] = "error" \/ got = config.listeners
     IN  /\ main' = [main EXCEPT !.got = got, !.pc = IF last THEN "exited" ELSE "drain"]
         /\ exit' = IF last THEN {IF served[l] = "error" THEN 1 ELSE 0} ELSE {}
  /\ UNCHANGED <<ln, served, broken, conn, config, signalled, benchVars>>

Signal ==
  /\ ~Bench /\ ~signalled /\ main.pc # "start"
  /\ signalled' = TRUE /\ cancelled' = TRUE
  /\ UNCHANGED <<ln, served, broken, conn, config, main, exit, benchVars>>

\* Its clients: they connect, say anything, and go.
PeerActs(k) ==
  /\ ~Bench /\ ~conn[k].gone
  /\ \/ conn[k].pc = "none" /\ \E l \in Listeners : Connects(k, l)
     \/ conn[k].pc \in {"greeting", "request", "http"} /\ conn[k].inbox = {}
        /\ \E m \in Messages : Says(k, m)
     \/ conn[k].pc # "none" /\ Goes(k)
  /\ UNCHANGED <<lnVars, config, main, exit, signalled, benchVars>>

-----------------------------------------------------------------------------
(* cfsbench: main, buildRunner, startLocalAgent *)

\* config.validate; splitTarget looks at the port only.
ValidConfig ==
  /\ config.good /\ config.targets # <<>>
  /\ \A i \in DOMAIN config.targets : config.targets[i].port \in Ports
  /\ config.requests >= 1 /\ config.poolSize >= 0
  /\ config.poolSize > 0 => config.mode \in {"h2-do", "h3-do"}

BenchStarts ==
  /\ main.pc = "start" /\ Bench
  /\ IF ValidConfig THEN Main("build") /\ exit' = exit ELSE Main("exited") /\ Exit(2)
  /\ UNCHANGED <<agentVars, config, signalled, benchVars>>

Produce == Main("produce") /\ work' = [w \in Conns |-> [work[w] EXCEPT !.pc = "idle"]]

BenchBuilds ==
  /\ main.pc = "build"
  /\ \/ /\ config.mode = "socks-wss"
        /\ \/ Listen("socks") /\ Produce /\ exit' = exit
           \/ Main("exited") /\ Exit(2) /\ UNCHANGED <<ln, served, work>>
        /\ pool' = pool
     \/ /\ config.mode # "socks-wss"
        /\ pool' = IF config.poolSize = 0 THEN {}
                   ELSE IF config.mode = "h3-do" THEN NewH3Pool(config.poolSize)
                   ELSE NewClientPool("h2", config.poolSize, <<>>)
        /\ Produce /\ UNCHANGED <<ln, served, exit>>
  /\ UNCHANGED <<cancelled, broken, conn, config, signalled, results>>

\* `jobs <- i` meets `range jobs`.
HandsOut(w) ==
  /\ main.pc = "produce" /\ main.job < config.requests /\ work[w].pc = "idle"
  /\ main' = [main EXCEPT !.job = @ + 1]
  /\ work' = [work EXCEPT ![w].pc = "running", ![w].job = main.job]
  /\ UNCHANGED <<agentVars, config, exit, signalled, results, pool>>

ClosesJobs ==
  /\ main.pc = "produce" /\ main.job = config.requests
  /\ Main("wait")
  /\ UNCHANGED <<agentVars, config, exit, signalled, benchVars>>

Failed == {r \in results : ~r.ok}

\* summarize counts the failures; os.Exit skips the deferred cleanup.
Status == IF Failed # {} THEN 1 ELSE 0

Summarises ==
  /\ main.pc = "wait" /\ \A w \in Conns : work[w].pc = "exited"
  /\ IF Status = 0 THEN Main("cleanup") /\ exit' = exit ELSE Main("exited") /\ Exit(Status)
  /\ UNCHANGED <<agentVars, config, signalled, benchVars>>

\* The pool's Close, or stop(), ln.Close() and <-done.
CleansUp ==
  /\ \/ /\ main.pc = "cleanup" /\ config.mode = "socks-wss"
        /\ cancelled' = TRUE /\ CloseListener("socks")
        /\ Main("stopped") /\ UNCHANGED <<exit, pool>>
     \/ /\ main.pc = "cleanup" /\ config.mode # "socks-wss"
        /\ pool' = {ClosePool(p) : p \in pool}
        /\ Main("exited") /\ Exit(0) /\ UNCHANGED <<cancelled, ln, conn>>
     \/ /\ main.pc = "stopped" /\ Returned("socks")
        /\ Main("exited") /\ Exit(0) /\ UNCHANGED <<cancelled, ln, conn, pool>>
  /\ UNCHANGED <<served, broken, config, signalled, work, results>>

-----------------------------------------------------------------------------
(* cfsbench: the workers of runLoad *)

Target(w) == config.targets[(work[w].job % Len(config.targets)) + 1]
Reachable(t) == ValidHost(t.host) /\ t.port \in Ports
Work(w, pc) == work' = [work EXCEPT ![w].pc = pc]

\* readResponse on what the target sent, [kind, counts]: the counts of DNS records
\* are added in 16 bits.
ReadResponse(r) ==
  CASE config.payload = "none"   -> TRUE
    [] config.payload = "http"   -> r.kind = "http"
    [] config.payload = "banner" -> r.kind \in {"http", "text"}
    [] config.payload = "echo"   -> r.kind = "echo"
    [] config.payload = "dns"    ->
         r.kind = "dns" /\ (r.counts[1] + r.counts[2] + r.counts[3]) % 2^16 # 0

\* Mutant: the results channel is unbuffered, and main receives after the wait only.
ReportsUnbuffered(w, ok) ==
  /\ \A v \in Conns : work[v].pc = "exited"
  /\ results' = results \cup {[job |-> work[w].job, ok |-> ok]}
  /\ Work(w, "idle")

\* `results <- res`
Reports(w, ok) ==
  /\ Cardinality(results) < config.requests
  /\ results' = results \cup {[job |-> work[w].job, ok |-> ok]}
  /\ Work(w, "idle")

\* Mutant: load and store of the counter are two steps, and another call's load
\* fell between them.
TakesTurnRacily(w) ==
  /\ work[w].pc = "running" /\ pool # {}
  /\ \E p \in pool : \E ticket \in {p.next, (p.next + 2^Width - 1) % 2^Width} :
       pool' = {Take(p, ticket)}
  /\ Work(w, "calling") /\ UNCHANGED <<results, conn>>

\* ClientPool.Do before it calls the client.
TakesTurn(w) ==
  /\ work[w].pc = "running" /\ pool # {}
  /\ pool' = {Take(p, p.next) : p \in pool}
  /\ Work(w, "calling") /\ UNCHANGED <<results, conn>>

\* Dial and exerciseConn, or Do and readResponse; the context's time-out ends either.
Calls(w) ==
  /\ \/ work[w].pc = "running" /\ pool = {} /\ config.mode # "socks-wss"
     \/ work[w].pc = "calling"
  /\ \/ Reports(w, FALSE)
     \/ Reachable(Target(w)) /\ \E r \in Responses : Reports(w, ReadResponse(r))
  /\ pool' = pool /\ conn' = conn

\* The connection to the local agent, and socksConnect's greeting on it.
SocksDials(w) ==
  /\ work[w].pc = "running" /\ config.mode = "socks-wss"
  /\ \/ Connects(w, "socks") /\ Work(w, "hello") /\ results' = results
     \/ Reports(w, FALSE) /\ conn' = conn
  /\ pool' = pool

Greets(w) ==
  /\ work[w].pc = "hello" /\ Work(w, "greeted")
  /\ Says(w, [kind |-> "greeting", version |-> 5, methods |-> {0}])
  /\ UNCHANGED <<results, pool>>

\* The connection is closed with the job's end.
SocksFails(w) == Reports(w, FALSE) /\ Goes(w)

\* net.ParseIP and To4: an IPv4-mapped IPv6 address is sent as the IPv4 address it is,
\* and the kind of address chooses the type.
Canonical(host) == IF host = "v4in6" THEN "v4" ELSE host
AddressType(host) == IF host \in {"v4", "v6"} THEN host ELSE "domain"

\* socksConnect after the method reply; it has no deadline.
Requests(w) ==
  /\ work[w].pc = "greeted" /\ (conn[w].heard # "nothing" \/ conn[w].pc = "closed")
  /\ IF conn[w].heard = "method" /\ conn[w].pc # "closed" /\ Target(w).host # "huge"
       THEN /\ Says(w, [kind |-> "socks", version |-> 5, command |-> 1, cut |-> "no",
                        atyp |-> AddressType(Canonical(Target(w).host)),
                        host |-> Canonical(Target(w).host), port |-> Target(w).port])
            /\ Work(w, "requested") /\ results' = results
       ELSE SocksFails(w)
  /\ pool' = pool

\* socksConnect's end, and exerciseConn under the context's deadline.
Exercises(w) ==
  /\ work[w].pc = "requested" /\ (conn[w].heard # "method" \/ conn[w].pc = "closed")
  /\ \/ SocksFails(w)
     \/ conn[w].heard = "connected" /\ \E r \in Responses : Reports(w, ReadResponse(r)) /\ Goes(w)
  /\ pool' = pool

Leaves(w) ==
  /\ work[w].pc = "idle" /\ main.pc = "wait"
  /\ Work(w, "exited") /\ UNCHANGED <<results, pool, conn>>

WorkerStep(w) ==
  /\ TakesTurn(w) \/ Calls(w) \/ SocksDials(w) \/ Greets(w) \/ Requests(w) \/ Exercises(w) \/ Leaves(w)
  /\ UNCHANGED <<lnVars, config, main, exit, signalled>>

-----------------------------------------------------------------------------
MainStep ==
  \/ AgentStarts \/ BenchStarts \/ BenchBuilds \/ ClosesJobs \/ Summarises \/ CleansUp
  \/ AgentListens("socks", "listen socks", "listen http")
  \/ AgentListens("http", "listen http", "await")
  \/ \E l \in Listeners : AgentReceives(l)
  \/ \E w \in Conns : HandsOut(w)

OfAgent(A) == A /\ UNCHANGED <<config, main, exit, signalled, benchVars>>

\* A program that has exited is gone.
Next ==
  /\ exit = {}
  /\ \/ MainStep \/ Signal
     \/ \E l \in Listeners : OfAgent(AcceptFails(l) \/ Closer(l) \/ ServeReturns(l))
     \/ \E k \in Conns : OfAgent(HandlerStep(k)) \/ WorkerStep(k)
     \/ \E k \in Peers : PeerActs(k)

\* What the Go scheduler runs: Accept must fail on a closed listener and need not on
\* an open one.
Go(A) == exit = {} /\ A
ServeGoes(l) == Closer(l) \/ ServeReturns(l) \/ (ln[l] = "closed" /\ AcceptFails(l))

Spec ==
  /\ Init /\ [][Next]_vars
  /\ WF_vars(Go(MainStep))
  /\ \A l \in Listeners : WF_vars(Go(OfAgent(ServeGoes(l))))
  /\ \A k \in Conns : WF_vars(Go(OfAgent(HandlerStep(k)))) /\ WF_vars(Go(WorkerStep(k)))

-----------------------------------------------------------------------------
(* Properties *)

\* Exit status 0 of cfsbench: each job has one result and it is good, and the agent
\* or the pool it started is stopped. Exit status 0 of cf-socks-agent: it was
\* signalled and every listener's serve has returned. Status 1 has a failure behind it,
\* never the program's own shutdown; with status 2 nothing was begun.
ExitStatusIsHonest ==
  /\ 0 \in exit /\ Bench =>
       /\ results = [job : 0..config.requests - 1, ok : {TRUE}]
       /\ served["socks"] \notin {"running", "stopped"} /\ ln["socks"] # "open"
       /\ \A p \in pool : p.closed = 1
  /\ 0 \in exit /\ ~Bench => signalled /\ main.got = config.listeners
  /\ 1 \in exit => IF Bench THEN Failed # {}
                            ELSE broken # {} \/ \E l \in config.listeners : ln[l] = "off"
  /\ 2 \in exit => results = {} /\ \A l \in Listeners : ln[l] = "off"

\* cfsbench ends, and so does cf-socks-agent after a signal or when a serve fails. Left out
\* is cfsbench whose own agent has stopped accepting, and assumed that a call's time-out
\* ends it: see the README.
ProcessesEnd ==
  (Bench \/ signalled \/ broken # {}) ~> (exit # {} \/ (Bench /\ broken # {}))

\* Whatever the order of concurrent calls, no client of a pool is taken more than once
\* more often than another; each wrap-around of the counter may add one to that.
EvenSpread ==
  \A p \in pool :
    LET taken == main.job - Cardinality({w \in Conns : work[w].pc = "running"})
    IN  \A i, j \in DOMAIN p.uses : p.uses[i] - p.uses[j] <= 1 + taken \div 2^Width
==============================================================================
