-------------------------- MODULE NonceCacheProofs --------------------------
(***************************************************************************)
(* Theorems about NonceCache for all values of its constants: the types,   *)
(* the bound on the cache, how often a token can be accepted, and why a    *)
(* good one may be refused.                                                *)
(***************************************************************************)
EXTENDS NonceCache, TLAPS, FiniteSetTheorems, SequenceTheorems, WellFoundedInduction

\* A set of positions has a smallest one.
LEMMA Smallest ==
  ASSUME NEW S \in SUBSET Nat, S # {}
  PROVE  \E i \in S : \A j \in S : i <= j
<1>. DEFINE R == {ss \in Nat \X Nat : ss[1] < ss[2]}
<1>1. IsWellFoundedOn(R, Nat)
  BY NatLessThanWellFounded DEF OpToRel
<1>2. PICK i \in S : \A j \in S : ~ (<<j, i>> \in R)
  BY <1>1, WFMin, Zenon
<1>3. ASSUME NEW j \in S PROVE i <= j
  <2>1. i \in Nat /\ j \in Nat
    OBVIOUS
  <2>2. ~(j < i)
    BY <1>2, <2>1
  <2>. QED BY <2>1, <2>2
<1>. QED BY <1>3

\* Positions up to n, at least k of them: the first is k or more back from n + 1.
LEMMA FirstIsOld ==
  ASSUME NEW n \in Nat, NEW S \in SUBSET (1..n), NEW i \in S, \A j \in S : i <= j
  PROVE  IsFiniteSet(S) /\ Cardinality(S) \in Nat /\ Cardinality(S) <= (n + 1) - i
<1>1. S \in SUBSET (i..n) /\ i \in 1..n
  OBVIOUS
<1>2. IsFiniteSet(i..n) /\ Cardinality(i..n) = (n + 1) - i
  BY <1>1, FS_Interval
<1>. QED BY <1>1, <1>2, FS_Subset, FS_CardinalityType

\* What eviction leaves: one entry goes, the oldest, and only at the limit.
LEMMA EvictedProperties ==
  ASSUME NEW n \in Nat, NEW S \in SUBSET (1..n), Cardinality(S) <= MaxEntries
  PROVE  /\ Evicted(S) \subseteq S
         /\ IsFiniteSet(Evicted(S)) /\ Cardinality(Evicted(S)) \in Nat
         /\ Cardinality(Evicted(S)) < MaxEntries
         /\ \A i \in S \ Evicted(S) : MaxEntries <= (n + 1) - i
<1>1. IsFiniteSet(1..n)
  BY FS_Interval
<1>2. IsFiniteSet(S) /\ Cardinality(S) \in Nat
  BY <1>1, FS_Subset, FS_CardinalityType
<1>3. MaxEntries \in Nat \ {0}
  BY CacheAssumption
<1>4. CASE Cardinality(S) < MaxEntries
  BY <1>2, <1>3, <1>4 DEF Evicted
<1>5. CASE Cardinality(S) = MaxEntries
  <2>1. S # {}
    BY <1>3, <1>5, FS_EmptySet
  <2>. DEFINE m == CHOOSE i \in S : \A j \in S : i <= j
  <2>2. m \in S /\ \A j \in S : m <= j
    <3>1. S \in SUBSET Nat
      OBVIOUS
    <3>2. \E i \in S : \A j \in S : i <= j
      BY <2>1, <3>1, Smallest
    <3>. QED BY <3>2, Zenon
  <2>3. Evicted(S) = S \ {m}
    BY <1>2, <1>3, <1>5 DEF Evicted
  <2>4. MaxEntries <= (n + 1) - m
    BY <1>5, <2>2, FirstIsOld
  <2>. HIDE DEF m
  <2>5. IsFiniteSet(S \ {m}) /\ Cardinality(S \ {m}) = Cardinality(S) - 1
    BY <1>2, <2>2, FS_RemoveElement
  <2>. QED BY <1>2, <1>3, <1>5, <2>2, <2>3, <2>4, <2>5
<1>. QED BY <1>2, <1>3, <1>4, <1>5

-----------------------------------------------------------------------------
CacheInv == TypeOK /\ Bounded /\ Stamped /\ Retained /\ AcceptedOnce

\* An empty cache.
LEMMA CacheInit == Init => CacheInv
<1>. SUFFICES ASSUME Init PROVE CacheInv
  OBVIOUS
<1>1. log \in Seq(Entries) /\ Len(log) = 0 /\ DOMAIN log = {}
  BY EmptySeq DEF Init
<1>2. Cardinality(seen) = 0
  BY FS_EmptySet DEF Init
<1>3. TypeOK
  BY <1>1, CacheAssumption DEF Init, TypeOK
<1>. QED BY <1>1, <1>2, <1>3, CacheAssumption
         DEF Init, CacheInv, Bounded, Stamped, Retained, AcceptedOnce

\* Entries that cleanup keeps.
LEMMA LiveProperties ==
  ASSUME CacheInv
  PROVE  /\ Live \subseteq seen /\ Live \subseteq 1..Len(log) /\ Len(log) \in Nat
         /\ DOMAIN log = 1..Len(log)
         /\ Cardinality(Live) \in Nat /\ Cardinality(Live) <= MaxEntries
         /\ \A i \in 1..Len(log) : log[i] \in Entries
<1>1. log \in Seq(Entries) /\ seen \in SUBSET (1..Len(log))
  BY DEF CacheInv, TypeOK
<1>2. Len(log) \in Nat /\ DOMAIN log = 1..Len(log) /\ \A i \in 1..Len(log) : log[i] \in Entries
  BY <1>1, LenProperties, ElementOfSeq
<1>3. Live \in SUBSET seen
  BY DEF Live
<1>4. IsFiniteSet(seen) /\ Cardinality(seen) \in Nat
  <2>1. IsFiniteSet(1..Len(log))
    BY <1>2, FS_Interval
  <2>2. IsFiniteSet(seen)
    BY <1>1, <2>1, FS_Subset, Zenon
  <2>. QED BY <2>2, FS_CardinalityType
<1>5. Cardinality(Live) \in Nat /\ Cardinality(Live) <= Cardinality(seen)
  BY <1>3, <1>4, FS_Subset, FS_CardinalityType
<1>. QED BY <1>1, <1>2, <1>3, <1>4, <1>5, CacheAssumption DEF CacheInv, Bounded

\* An entry joins the log; the others keep their places.
LEMMA LogAppend ==
  ASSUME NEW s \in Seq(Entries), NEW e \in Entries
  PROVE  /\ Append(s, e) \in Seq(Entries)
         /\ Len(Append(s, e)) = Len(s) + 1 /\ DOMAIN Append(s, e) = 1..(Len(s) + 1)
         /\ Append(s, e)[Len(s) + 1] = e
         /\ \A i \in 1..Len(s) : Append(s, e)[i] = s[i]
BY AppendProperties, LenProperties

\* Accepting a token.
LEMMA AcceptStep ==
  ASSUME CacheInv, NEW q \in Requests, Accept(q)
  PROVE  CacheInv'
<1>. DEFINE n == req[q]
            k == Len(log) + 1
            e == [nonce |-> n, expires |-> ts[n] + Window, at |-> now]
<1>1. n \in Nonces /\ ts[n] # Unsealed /\ ts[n] \in Int /\ Window \in Int /\ e \in Entries
  <2>1. n \in Nonces /\ now \in 0..MaxTime /\ ts[n] \in Times \cup {Unsealed}
    BY DEF CacheInv, TypeOK, Accept, Valid
  <2>2. Times \cup {Unsealed} \subseteq Int /\ Window \in Int
    BY CacheAssumption DEF Times, Unsealed
  <2>3. ts[n] # Unsealed
    BY DEF CacheInv, Stamped, Accept, Valid
  <2>. QED BY <2>1, <2>2, <2>3 DEF Entries
<1>2. /\ log' = Append(log, e) /\ seen' = Evicted(Live) \cup {k}
      /\ UNCHANGED <<now, ts, req>> /\ \A i \in Live : log[i].nonce # n
  BY DEF Accept, Enter, Known
<1>. HIDE DEF e, n
<1>3. /\ log \in Seq(Entries) /\ Len(log) \in Nat /\ DOMAIN log = 1..Len(log)
      /\ Live \in SUBSET seen /\ Live \in SUBSET (1..Len(log))
      /\ Cardinality(Live) <= MaxEntries /\ \A i \in 1..Len(log) : log[i] \in Entries
  BY LiveProperties DEF CacheInv, TypeOK
<1>4. /\ log' \in Seq(Entries) /\ Len(log') = k /\ DOMAIN log' = 1..k /\ log'[k] = e
      /\ \A i \in 1..Len(log) : log'[i] = log[i]
  BY <1>1, <1>2, <1>3, LogAppend
<1>5. /\ Evicted(Live) \subseteq Live
      /\ IsFiniteSet(Evicted(Live)) /\ Cardinality(Evicted(Live)) \in Nat
      /\ Cardinality(Evicted(Live)) < MaxEntries
      /\ \A i \in Live \ Evicted(Live) : MaxEntries <= k - i
  BY <1>3, EvictedProperties
<1>6. e.nonce = n /\ e.expires = ts[n] + Window /\ e.at = now
  BY DEF e
<1>7. MaxEntries \in Nat /\ now \in Int
  BY CacheAssumption DEF CacheInv, TypeOK
<1>8. TypeOK'
  <2>1. st' \in [Requests -> {"new", "decrypting", "accepted", "refused", "lost"}]
    BY DEF CacheInv, TypeOK, Accept, Answer
  <2>2. seen' \subseteq 1..Len(log')
    <3>1. Evicted(Live) \subseteq 1..Len(log)
      BY <1>3, <1>5
    <3>2. 1..Len(log) \subseteq 1..k /\ k \in 1..k
      BY <1>3
    <3>. QED BY <1>2, <1>4, <3>1, <3>2
  <2>3. ASSUME NEW i \in seen', NEW j \in seen', log'[i].nonce = log'[j].nonce PROVE i = j
    <3>1. CASE i = k \/ j = k
      BY <1>2, <1>3, <1>4, <1>5, <1>6, <2>3, <3>1
    <3>2. CASE i # k /\ j # k
      BY <1>2, <1>3, <1>4, <1>5, <2>3, <3>2 DEF CacheInv, TypeOK
    <3>. QED BY <3>1, <3>2
  <2>. QED BY <1>2, <1>4, <2>1, <2>2, <2>3 DEF CacheInv, TypeOK
<1>9. Bounded'
  <2>1. k \notin Evicted(Live)
    BY <1>3, <1>5
  <2>2. Cardinality(seen') = Cardinality(Evicted(Live)) + 1
    BY <1>2, <1>5, <2>1, FS_AddElement
  <2>. QED BY <1>5, <1>7, <2>2 DEF Bounded
<1>10. Stamped'
  BY <1>1, <1>2, <1>3, <1>4, <1>6 DEF CacheInv, Stamped
<1>11. Retained'
  <2>. SUFFICES ASSUME NEW i \in 1..k
                PROVE  i \in seen' \/ log'[i].expires <= now \/ k - i >= MaxEntries
    BY <1>2, <1>4 DEF Retained
  <2>1. CASE i = k
    BY <1>2, <2>1
  <2>2. CASE i \in Live
    BY <1>2, <1>3, <1>5, <1>7, <2>2
  <2>3. CASE i \in seen \ Live
    <3>1. log'[i] = log[i] /\ log[i].expires \in Int /\ ~(log[i].expires > now)
      BY <1>3, <1>4, <2>3 DEF CacheInv, TypeOK, Live, Entries
    <3>. QED BY <1>7, <3>1
  <2>4. CASE i \in (1..Len(log)) \ seen
    BY <1>3, <1>4, <1>7, <2>4 DEF CacheInv, Retained
  <2>. QED BY <1>3, <2>1, <2>2, <2>3, <2>4
<1>12. AcceptedOnce'
  <2>. SUFFICES ASSUME NEW i \in 1..k, NEW j \in 1..k, i < j, log'[i].nonce = log'[j].nonce
                PROVE  log'[j].at >= ts[log'[j].nonce] + Window \/ j - i > MaxEntries
    BY <1>2, <1>4 DEF AcceptedOnce
  <2>1. CASE j # k
    <3>1. i \in 1..Len(log) /\ j \in 1..Len(log)
      BY <1>3, <2>1
    <3>2. log'[i] = log[i] /\ log'[j] = log[j]
      BY <1>4, <3>1
    <3>. QED BY <1>3, <3>1, <3>2 DEF CacheInv, AcceptedOnce
  <2>2. CASE j = k
    <3>1. i \in 1..Len(log) /\ log'[i] = log[i] /\ log[i].nonce = n /\ i \notin Live
      BY <1>2, <1>3, <1>4, <1>6, <2>2
    <3>2. log[i].expires = ts[n] + Window
      BY <1>3, <3>1 DEF CacheInv, Stamped
    <3>3. \/ ~(ts[n] + Window > now) \/ Len(log) - i >= MaxEntries
      BY <1>1, <1>3, <1>7, <3>1, <3>2 DEF CacheInv, Retained, Live
    <3>4. log'[j].at = now /\ log'[j].nonce = n
      BY <1>4, <1>6, <2>2
    <3>. QED BY <1>1, <1>3, <1>7, <2>2, <3>3, <3>4
  <2>. QED BY <2>1, <2>2
<1>. QED BY <1>8, <1>9, <1>10, <1>11, <1>12 DEF CacheInv

\* Every step keeps the cache as Retained, Stamped and the rest describe it.
LEMMA CacheStep == CacheInv /\ [Next]_vars => CacheInv'
<1>. SUFFICES ASSUME CacheInv, [Next]_vars PROVE CacheInv'
  OBVIOUS
<1>. USE DEF CacheInv
<1>1. /\ DOMAIN log = 1..Len(log) /\ \A i \in 1..Len(log) : log[i] \in Entries
      /\ Len(log) \in Nat /\ Live \in SUBSET seen
  BY LiveProperties
\* Steps that leave the cache alone.
<1>2. ASSUME UNCHANGED <<log, seen, now, ts>> PROVE Bounded' /\ Retained' /\ AcceptedOnce'
  BY <1>2 DEF Bounded, Retained, AcceptedOnce
<1>3. ASSUME NEW n \in Nonces, Seal(n) PROVE CacheInv'
  <2>1. PICK t \in now - Skew .. now + Skew : ts' = [ts EXCEPT ![n] = t]
    BY <1>3 DEF Seal
  <2>2. t \in Times /\ t # Unsealed
    BY CacheAssumption DEF TypeOK, Times, Unsealed
  <2>3. UNCHANGED <<now, req, st, log, seen>> /\ ts[n] = Unsealed
    BY <1>3 DEF Seal
  <2>4. TypeOK'
    BY <2>1, <2>2, <2>3 DEF TypeOK
  <2>5. Bounded' /\ Retained'
    BY <2>3 DEF Bounded, Retained
  <2>6. \A i \in 1..Len(log) : log[i].nonce # n /\ ts'[log[i].nonce] = ts[log[i].nonce]
    BY <1>1, <2>1, <2>3 DEF TypeOK, Stamped, Entries
  <2>7. Stamped'
    BY <1>1, <2>1, <2>2, <2>3, <2>6 DEF TypeOK, Stamped
  <2>8. AcceptedOnce'
    BY <1>1, <2>3, <2>6 DEF AcceptedOnce
  <2>. QED BY <2>4, <2>5, <2>7, <2>8
<1>4. ASSUME NEW q \in Requests, Arrive(q) PROVE CacheInv'
  <2>1. UNCHANGED <<log, seen, now, ts>>
    BY <1>4 DEF Arrive
  <2>2. PICK n \in {m \in Nonces : ts[m] # Unsealed} \cup {Foreign} : req' = [req EXCEPT ![q] = n]
    BY <1>4 DEF Arrive
  <2>3. TypeOK'
    BY <1>4, <2>1, <2>2 DEF Arrive, TypeOK
  <2>4. Stamped'
    BY <2>1, <2>2 DEF TypeOK, Stamped
  <2>. QED BY <1>2, <2>1, <2>3, <2>4
<1>5. ASSUME NEW q \in Requests, Accept(q) PROVE CacheInv'
  BY <1>5, AcceptStep
<1>6. ASSUME NEW q \in Requests, Replayed(q) PROVE CacheInv'
  <2>1. UNCHANGED <<now, ts, req, log>> /\ seen' = Live
    BY <1>6 DEF Replayed
  <2>2. TypeOK'
    BY <1>1, <1>6, <2>1 DEF Replayed, Answer, TypeOK
  <2>3. Bounded'
    BY <2>1, LiveProperties DEF Bounded
  <2>4. Retained'
    <3>. SUFFICES ASSUME NEW i \in 1..Len(log), i \in seen \ Live
                  PROVE  log[i].expires <= now
      BY <1>1, <2>1 DEF Retained
    <3>1. log[i].expires \in Int /\ now \in Int
      BY <1>1, CacheAssumption DEF Entries, TypeOK
    <3>. QED BY <3>1 DEF Live
  <2>5. Stamped' /\ AcceptedOnce'
    BY <2>1 DEF Stamped, AcceptedOnce
  <2>. QED BY <2>2, <2>3, <2>4, <2>5
<1>7. ASSUME NEW q \in Requests, Invalid(q) PROVE CacheInv'
  <2>1. TypeOK'
    BY <1>7 DEF Invalid, Answer, TypeOK
  <2>2. Stamped'
    BY <1>7 DEF Invalid, Stamped
  <2>. QED BY <1>2, <1>7, <2>1, <2>2 DEF Invalid
<1>8. ASSUME Tick PROVE CacheInv'
  <2>1. now' = now + 1 /\ now' \in 0..MaxTime /\ UNCHANGED <<ts, req, st, log, seen>>
    BY <1>8, CacheAssumption DEF Tick, TypeOK
  <2>2. TypeOK' /\ Bounded' /\ Stamped' /\ AcceptedOnce'
    BY <2>1 DEF TypeOK, Bounded, Stamped, AcceptedOnce
  <2>3. Retained'
    <3>1. \A i \in 1..Len(log) : log[i].expires \in Int /\ now \in Int
      BY <1>1, CacheAssumption DEF Entries, TypeOK
    <3>. QED BY <1>1, <2>1, <3>1 DEF Retained
  <2>. QED BY <2>2, <2>3
<1>9. ASSUME Restart PROVE CacheInv'
  <2>1. log' \in Seq(Entries) /\ Len(log') = 0 /\ DOMAIN log' = {} /\ seen' = {}
    BY <1>9, EmptySeq DEF Restart
  <2>2. TypeOK'
    BY <1>9, <2>1 DEF Restart, TypeOK
  <2>3. Bounded'
    BY <2>1, FS_EmptySet, CacheAssumption DEF Bounded
  <2>4. Stamped' /\ Retained' /\ AcceptedOnce'
    BY <1>9, <2>1 DEF Restart, Stamped, Retained, AcceptedOnce
  <2>. QED BY <2>2, <2>3, <2>4
<1>10. CASE UNCHANGED vars
  BY <1>10 DEF vars, TypeOK, Bounded, Stamped, Retained, AcceptedOnce
<1>. QED BY <1>3, <1>4, <1>5, <1>6, <1>7, <1>8, <1>9, <1>10 DEF Next

\* Whatever the clocks, the duplicates and the restarts: a token is accepted a
\* second time only in its last valid second or after maxEntries others.
THEOREM AtMostOnce == Spec => []AcceptedOnce
<1>1. CacheInv => AcceptedOnce
  BY DEF CacheInv
<1>. QED BY CacheInit, CacheStep, <1>1, PTL DEF Spec

\* The Map never holds more than maxEntries entries.
THEOREM CacheSize == Spec => []Bounded
<1>1. CacheInv => Bounded
  BY DEF CacheInv
<1>. QED BY CacheInit, CacheStep, <1>1, PTL DEF Spec

\* The variables keep their types, and the Map never holds two entries for one
\* nonce: this is what lets has() stand for "accepted and not yet forgotten".
THEOREM Typing == Spec => []TypeOK
<1>1. CacheInv => TypeOK
  BY DEF CacheInv
<1>. QED BY CacheInit, CacheStep, <1>1, PTL DEF Spec

-----------------------------------------------------------------------------
(* Refusals *)

\* Every insertion was made for a request that was accepted with its nonce.
Consumed ==
  \A i \in DOMAIN log : \E p \in Requests : st[p] = "accepted" /\ req[p] = log[i].nonce

\* An empty cache has consumed nothing.
LEMMA ConsumedInit == Init => Consumed
<1>. SUFFICES ASSUME Init PROVE DOMAIN log = {}
  BY DEF Consumed
<1>. QED BY EmptySeq DEF Init

\* An accepted request stays what it is; Accept makes one for its new entry.
LEMMA ConsumedStep == CacheInv /\ Consumed /\ [Next]_vars => Consumed'
<1>. SUFFICES ASSUME CacheInv, Consumed, [Next]_vars PROVE Consumed'
  OBVIOUS
<1>1. /\ log \in Seq(Entries) /\ DOMAIN log = 1..Len(log) /\ Len(log) \in Nat
      /\ st \in [Requests -> {"new", "decrypting", "accepted", "refused", "lost"}]
      /\ req \in [Requests -> Nonces \cup {Foreign}]
  BY LiveProperties DEF CacheInv, TypeOK
<1>2. ASSUME UNCHANGED log,
             \A p \in Requests : st[p] = "accepted" => st'[p] = "accepted" /\ req'[p] = req[p]
      PROVE  Consumed'
  BY <1>2 DEF Consumed
<1>3. CASE \E n \in Nonces : Seal(n)
  BY <1>2, <1>3 DEF Seal
<1>4. CASE \E q \in Requests : Arrive(q)
  BY <1>1, <1>2, <1>4 DEF Arrive
<1>5. ASSUME NEW q \in Requests, Accept(q) PROVE Consumed'
  <2>. DEFINE e == [nonce |-> req[q], expires |-> ts[req[q]] + Window, at |-> now]
  <2>1. /\ log' = Append(log, e) /\ UNCHANGED req /\ st[q] = "decrypting"
        /\ st' = [st EXCEPT ![q] = "accepted"] /\ e.nonce = req[q]
    BY <1>5 DEF Accept, Answer, Enter
  <2>2. log' \in Seq(Entries)
    BY <1>5, AcceptStep DEF CacheInv, TypeOK
  <2>. HIDE DEF e
  <2>3. /\ DOMAIN log' = 1..(Len(log) + 1) /\ log'[Len(log) + 1] = e
        /\ \A i \in 1..Len(log) : log'[i] = log[i]
    BY <1>1, <2>1, <2>2, AppendProperties, LenProperties
  <2>4. \A p \in Requests : st[p] = "accepted" => st'[p] = "accepted"
    BY <1>1, <2>1
  <2>5. ASSUME NEW i \in 1..Len(log)
        PROVE  \E p \in Requests : st'[p] = "accepted" /\ req'[p] = log'[i].nonce
    BY <1>1, <2>1, <2>3, <2>4 DEF Consumed
  <2>6. st'[q] = "accepted" /\ req'[q] = log'[Len(log) + 1].nonce
    BY <1>1, <2>1, <2>3
  <2>7. \A i \in 1..(Len(log) + 1) : i \in 1..Len(log) \/ i = Len(log) + 1
    BY <1>1
  <2>. QED BY <2>3, <2>5, <2>6, <2>7 DEF Consumed
<1>6. CASE \E q \in Requests : Replayed(q) \/ Invalid(q)
  BY <1>1, <1>2, <1>6 DEF Replayed, Invalid, Answer
<1>7. CASE Restart
  <2>. SUFFICES DOMAIN log' = {}
    BY DEF Consumed
  <2>. QED BY <1>7, EmptySeq DEF Restart
<1>8. CASE Tick \/ UNCHANGED vars
  BY <1>2, <1>8 DEF Tick, vars
<1>. QED BY <1>3, <1>4, <1>5, <1>6, <1>7, <1>8 DEF Next

\* The only step that refuses a valid request is the one that found its nonce.
LEMMA RefusalHasCause ==
  ASSUME CacheInv, Consumed, [Next]_vars,
         NEW q \in Requests, st[q] = "decrypting", st'[q] = "refused", Valid(q)
  PROVE  \E p \in Requests : st[p] = "accepted" /\ req[p] = req[q]
<1>1. /\ DOMAIN log = 1..Len(log) /\ Live \subseteq 1..Len(log)
      /\ st \in [Requests -> {"new", "decrypting", "accepted", "refused", "lost"}]
  BY LiveProperties DEF CacheInv, TypeOK
<1>2. Replayed(q)
  <2>1. ~Restart
    BY <1>1 DEF Restart
  <2>2. ~Tick /\ ~UNCHANGED vars /\ \A n \in Nonces : ~Seal(n)
    BY DEF Tick, vars, Seal
  <2>3. ASSUME NEW p \in Requests, Arrive(p) \/ Accept(p) \/ Replayed(p) \/ Invalid(p)
        PROVE  p = q /\ ~Arrive(p) /\ ~Accept(p) /\ ~Invalid(p)
    BY <1>1, <2>3 DEF Arrive, Accept, Replayed, Invalid, Answer
  <2>. QED BY <2>1, <2>2, <2>3 DEF Next
<1>3. PICK i \in Live : log[i].nonce = req[q]
  BY <1>2 DEF Replayed, Known
<1>. QED BY <1>1, <1>3 DEF Consumed

\* A good token is refused only after some request with it has been accepted:
\* no forged, early, late or overtaking request uses up a nonce.
THEOREM GoodTokenRefusedForCause == Spec => RefusedForCause
<1>1. Init => CacheInv /\ Consumed
  BY CacheInit, ConsumedInit
<1>2. CacheInv /\ Consumed /\ [Next]_vars => (CacheInv /\ Consumed)'
  BY CacheStep, ConsumedStep
<1>3. CacheInv /\ Consumed /\ [Next]_vars =>
        [\A q \in Requests :
           st[q] = "decrypting" /\ st'[q] = "refused" /\ Valid(q)
           => \E p \in Requests : st[p] = "accepted" /\ req[p] = req[q]]_vars
  BY RefusalHasCause
<1>. QED BY <1>1, <1>2, <1>3, PTL DEF Spec, RefusedForCause
=============================================================================
