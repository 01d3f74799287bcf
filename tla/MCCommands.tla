------------------------------ MODULE MCCommands ------------------------------
(* Command lines and messages of the Commands run. *)
EXTENDS Commands

To(host) == [host |-> host, port |-> 80]

BenchRun == [program |-> "cfsbench", mode |-> "wss-dial", good |-> TRUE, requests |-> 3,
             poolSize |-> 0, payload |-> "none", targets |-> <<To("t")>>, listeners |-> {}]
AgentRun == [program |-> "cf-socks-agent", mode |-> "", good |-> TRUE, requests |-> 0,
             poolSize |-> 0, payload |-> "", targets |-> <<>>, listeners |-> Listeners]

MCConfigs ==
  {[BenchRun EXCEPT !.mode = m] : m \in {"wss-dial", "socks-wss", "h2-do"}}
  \cup {[BenchRun EXCEPT !.mode = m, !.poolSize = n, !.requests = 6] : m \in {"h2-do", "h3-do"}, n \in 2..3}
  \cup {[BenchRun EXCEPT !.payload = p] : p \in {"http", "banner", "dns", "echo"}}
  \cup {[BenchRun EXCEPT !.mode = "socks-wss", !.payload = "dns", !.targets = t] :
          t \in {<<To("v4"), To("v6"), To("v4in6")>>, <<To("long"), To("huge"), To("")>>}}
  \cup {[BenchRun EXCEPT !.good = FALSE], [BenchRun EXCEPT !.requests = 0],
        [BenchRun EXCEPT !.poolSize = 2], [BenchRun EXCEPT !.poolSize = -1],
        [BenchRun EXCEPT !.targets = <<>>],
        [BenchRun EXCEPT !.targets = <<To("t"), [To("t") EXCEPT !.port = 0]>>]}
  \cup {[AgentRun EXCEPT !.listeners = s] : s \in SUBSET Listeners}
  \cup {[AgentRun EXCEPT !.good = FALSE]}

Connect == [kind |-> "socks", version |-> 5, command |-> 1, atyp |-> "domain", host |-> "t",
            port |-> 80, cut |-> "no"]
MCMessages ==
  {[kind |-> "greeting", version |-> 4, methods |-> {0}],
   [kind |-> "greeting", version |-> 5, methods |-> {2}],
   [kind |-> "greeting", version |-> 5, methods |-> {0, 2}],
   Connect, [Connect EXCEPT !.command = 2], [Connect EXCEPT !.atyp = "other"],
   [Connect EXCEPT !.atyp = "v6", !.host = "v4in6"],
   [Connect EXCEPT !.host = ""], [Connect EXCEPT !.cut = "address"],
   [Connect EXCEPT !.cut = "port"], [Connect EXCEPT !.port = 0]}
  \cup [kind : {"http"}, method : {"CONNECT"}, host : {"t", "long", ""}, port : {80}]
  \cup [kind : {"http"}, method : {"GET"}, host : {"t"}, port : {80}]

MCResponses ==
  {[kind |-> k, counts |-> <<0, 0, 0>>] : k \in {"http", "text", "echo", "dns", "cut"}}
  \cup {[kind |-> "dns", counts |-> c] : c \in {<<1, 0, 0>>, <<32768, 32767, 1>>}}
==============================================================================
