----------------------------- MODULE NonceCache -----------------------------
(***************************************************************************)
(* worker/src/token.ts and auth/bearer-claims.ts: the Worker accepts each  *)
(* bearer token once.  The client seals a token with its own clock; any    *)
(* number of requests may carry the same token, because a request is       *)
(* retried or delivered twice; verification awaits the decryption, so      *)
(* several requests are under way in one isolate; an isolate, with the     *)
(* cache it holds, may be discarded at any moment.                         *)
(*                                                                         *)
(* A token is named by its nonce.  Foreign stands for every header that    *)
(* does not open under this method and path: malformed, sealed with        *)
(* another secret, or presented on another route.                          *)
(*                                                                         *)
(* The JavaScript Map `seen` iterates in insertion order.  `log` is the    *)
(* history of insertions of this isolate and `seen` the positions in it    *)
(* that are still in the Map.                                              *)
(***************************************************************************)
EXTENDS Integers, Sequences, FiniteSets

CONSTANTS
  Nonces,      \* nonces of the tokens clients seal
  Requests,    \* requests, each sent once
  Foreign,     \* see above
  MaxEntries,  \* maxEntries of the NonceCache
  Window,      \* windowSeconds
  Skew,        \* bound: difference of a client's clock and the Worker's
  MaxTime      \* bound: last instant of the Worker's clock

ASSUME CacheAssumption ==
  /\ Foreign \notin Nonces
  /\ MaxEntries \in Nat \ {0} /\ Window \in Nat \ {0}
  /\ Skew \in Nat /\ MaxTime \in Nat

VARIABLES
  now,         \* the Worker's clock, in seconds
  ts,          \* claims.ts of each sealed token
  req, st,     \* what each request carries, and how far it has come
  log, seen    \* the cache of the isolate

vars == <<now, ts, req, st, log, seen>>

Unsealed == 0 - Skew - 1
Times == 0 - Skew .. MaxTime + Skew
Entries == [nonce : Nonces, expires : Int, at : 0..MaxTime]

Init ==
  /\ now = 0
  /\ ts = [n \in Nonces |-> Unsealed]
  /\ req = [q \in Requests |-> Foreign]
  /\ st = [q \in Requests |-> "new"]
  /\ log = <<>> /\ seen = {}

-----------------------------------------------------------------------------
\* token.Seal: the client stamps the token with its own time.
Seal(n) ==
  /\ ts[n] = Unsealed
  /\ \E t \in now - Skew .. now + Skew : ts' = [ts EXCEPT ![n] = t]
  /\ UNCHANGED <<now, req, st, log, seen>>

\* A request reaches the isolate and its decryption is awaited.
Arrive(q) ==
  /\ st[q] = "new" /\ st' = [st EXCEPT ![q] = "decrypting"]
  /\ \E n \in {m \in Nonces : ts[m] # Unsealed} \cup {Foreign} :
       req' = [req EXCEPT ![q] = n]
  /\ UNCHANGED <<now, ts, log, seen>>

Valid(q) == req[q] # Foreign /\ now - ts[req[q]] \in 0 - Window .. Window

\* cleanup(now): the entries it leaves.
Live == {i \in seen : log[i].expires > now}

Known(n) == \E i \in Live : log[i].nonce = n

\* Mutant: the cache grows to one entry more than maxEntries.
EvictedLate(S) ==
  IF Cardinality(S) > MaxEntries THEN S \ {CHOOSE i \in S : \A j \in S : i <= j} ELSE S

\* Room for one entry: at the limit the entry inserted first is deleted.
Evicted(S) ==
  IF Cardinality(S) >= MaxEntries THEN S \ {CHOOSE i \in S : \A j \in S : i <= j} ELSE S

Answer(q, a) == st[q] = "decrypting" /\ st' = [st EXCEPT ![q] = a]

Enter(n, expires) ==
  /\ log' = Append(log, [nonce |-> n, expires |-> expires, at |-> now])
  /\ seen' = Evicted(Live) \cup {Len(log) + 1}
  /\ UNCHANGED <<now, ts, req>>

\* Mutants: the entry lives for a window from now; has() is not consulted.
AcceptForWindow(q) ==
  /\ Valid(q) /\ ~Known(req[q])
  /\ Answer(q, "accepted")
  /\ Enter(req[q], now + Window)

AcceptUnchecked(q) ==
  /\ Valid(q)
  /\ Answer(q, "accepted")
  /\ Enter(req[q], ts[req[q]] + Window)

\* After the decryption everything happens in one turn of the event loop: the
\* window, cleanup, has, eviction and set.
Accept(q) ==
  /\ Valid(q) /\ ~Known(req[q])
  /\ Answer(q, "accepted")
  /\ Enter(req[q], ts[req[q]] + Window)

Replayed(q) ==
  /\ Valid(q) /\ Known(req[q])
  /\ Answer(q, "refused")
  /\ seen' = Live
  /\ UNCHANGED <<now, ts, req, log>>

\* Mutant: the nonce is consumed before the window is checked.
InvalidConsumed(q) ==
  /\ ~Valid(q) /\ Answer(q, "refused")
  /\ IF req[q] = Foreign THEN UNCHANGED <<now, ts, req, log, seen>>
                          ELSE Enter(req[q], ts[req[q]] + Window)

\* The token does not open, or is outside its window: the cache is not touched.
Invalid(q) ==
  /\ ~Valid(q)
  /\ Answer(q, "refused")
  /\ UNCHANGED <<now, ts, req, log, seen>>

Tick ==
  /\ now < MaxTime /\ now' = now + 1
  /\ UNCHANGED <<ts, req, st, log, seen>>

\* The isolate is replaced; its requests are lost with it.
Restart ==
  /\ log' = <<>> /\ seen' = {}
  /\ st' = [q \in Requests |-> IF st[q] = "decrypting" THEN "lost" ELSE st[q]]
  /\ UNCHANGED <<now, ts, req>>

Next ==
  \/ \E n \in Nonces : Seal(n)
  \/ \E q \in Requests : Arrive(q) \/ Accept(q) \/ Replayed(q) \/ Invalid(q)
  \/ Tick \/ Restart

Spec == Init /\ [][Next]_vars

-----------------------------------------------------------------------------
(* Properties *)

\* The variables have their types, and the Map has one entry for a nonce.
TypeOK ==
  /\ now \in 0..MaxTime
  /\ ts \in [Nonces -> Times \cup {Unsealed}]
  /\ req \in [Requests -> Nonces \cup {Foreign}]
  /\ st \in [Requests -> {"new", "decrypting", "accepted", "refused", "lost"}]
  /\ log \in Seq(Entries)
  /\ seen \subseteq 1..Len(log)
  /\ \A i, j \in seen : log[i].nonce = log[j].nonce => i = j

\* An isolate accepts a token twice only if the second request comes when the
\* token's entry has expired (its last valid second), or after more than
\* maxEntries acceptances have pushed the entry out.
AcceptedOnce ==
  \A i, j \in DOMAIN log :
    i < j /\ log[i].nonce = log[j].nonce =>
      log[j].at >= ts[log[j].nonce] + Window \/ j - i > MaxEntries

\* A good token is refused only if some request with it has been accepted: an
\* invalid, early or late request never uses up a nonce, and neither does a
\* duplicate that overtakes the request it copies.
RefusedForCause ==
  [][\A q \in Requests :
       st[q] = "decrypting" /\ st'[q] = "refused" /\ Valid(q)
       => \E p \in Requests : st[p] = "accepted" /\ req[p] = req[q]]_vars

\* The cache never holds more than maxEntries nonces.
Bounded == Cardinality(seen) <= MaxEntries

\* docs/protocol.md:193: a replayed token is rejected.
ReplayRejected ==
  \A i, j \in DOMAIN log : log[i].nonce = log[j].nonce => i = j

\* What makes AcceptedOnce inductive: an insertion that is no longer in the Map
\* has expired or is older than the last maxEntries insertions.
Stamped ==
  /\ \A q \in Requests : req[q] # Foreign => ts[req[q]] # Unsealed
  /\ \A i \in DOMAIN log :
       /\ ts[log[i].nonce] # Unsealed
       /\ log[i].expires = ts[log[i].nonce] + Window

Retained ==
  \A i \in DOMAIN log :
    i \in seen \/ log[i].expires <= now \/ Len(log) - i >= MaxEntries
=============================================================================
