------------------------------ MODULE ClientPool ------------------------------
(***************************************************************************)
(* sdk/go/pool.go and sdk/go/h3/h3.go: pools of clients that take turns.   *)
(* A pool is [clients, next, uses, closed]: how many clients it has, the   *)
(* atomic counter, how often each client was chosen, and how often its     *)
(* transports were closed.                                                 *)
(***************************************************************************)
EXTENDS Integers

CONSTANT Width   \* bits of the counter, 64 in the code

ASSUME WidthAssumption == Width \in Nat

DefaultSize == 4

\* NewClientPool, given the HTTP clients it is to use (with TRUE for each that is
\* not nil): {} if it fails, else the pool.
NewClientPool(transport, size, httpClients) ==
  LET given == DOMAIN httpClients # {}
      n     == IF size # 0 THEN size
               ELSE IF ~given THEN DefaultSize
               ELSE CHOOSE m \in DOMAIN httpClients : \A i \in DOMAIN httpClients : i <= m
  IN  IF /\ transport \in {"", "h2", "h3"} /\ n >= 1
         /\ given => DOMAIN httpClients = 1..n /\ \A i \in 1..n : httpClients[i]
         /\ transport = "h3" => given
        THEN {[clients |-> n, next |-> 0, uses |-> [i \in 0..n - 1 |-> 0], closed |-> 0]}
        ELSE {}

\* h3.NewPool, which makes the HTTP clients.
NewH3Pool(size) ==
  LET n == IF size = 0 THEN DefaultSize ELSE size
  IN  IF n < 1 THEN {} ELSE NewClientPool("h3", n, [i \in 1..n |-> TRUE])

\* The client a call of Do takes: next.Add(1) - 1, reduced.
Turn(pool, ticket) == ticket % pool.clients
Take(pool, ticket) ==
  [pool EXCEPT !.next = (ticket + 1) % 2^Width, !.uses[Turn(pool, ticket)] = @ + 1]

\* closeOnce
ClosePool(pool) == [pool EXCEPT !.closed = IF @ = 0 THEN 1 ELSE @]
==============================================================================
