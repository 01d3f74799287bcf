-------------------------- MODULE AgentProxyProofs --------------------------
(***************************************************************************)
(* Theorems about AgentProxy for all values of its constants.              *)
(***************************************************************************)
EXTENDS AgentProxy, TLAPS, SequenceTheorems

\* The bytes a+1, a+2, ... in order.
Run(s, a) == \A i \in DOMAIN s : s[i] = a + i

(* The phases of the handler *)

Early == {"negotiate", "dial", "reply", "buffered"}
Ending == {"closing", "waiting"}

\* Before the go statements nothing runs; afterwards nothing is buffered, a
\* result has been taken just from FirstResult on, and the handler leaves
\* only what is closed, ended or told to stop.
Phases ==
  /\ hpc \in Early =>
       /\ errc = <<>> /\ result = NoResult /\ mpc = "off"
       /\ \A c \in Conns : rpc[c] = "off" /\ wpc[c] = "off"
  /\ hpc = "relaying" => result = NoResult /\ \A c \in Conns : rpc[c] # "off"
  /\ hpc \in Ending => result \in Results /\ stopped /\ \A c \in Conns : rpc[c] # "off"
  /\ hpc = "done" =>
       /\ open = AllClosed /\ (mpc = "run" => stopped)
       /\ \A c \in Conns : rpc[c] \in {"off", "end"} /\ (wpc[c] = "wait" => stopped)

\* A relay holds bytes only to write them, and starts after writeBuffered.
Holding ==
  /\ hpc = "negotiate" => buffered = <<>>
  /\ \A c \in Conns : /\ rpc[c] # "write" => buf[c] = <<>>
                      /\ rpc[c] # "off" => buffered = <<>>

\* Every relay that has ended has given one result.
OneResultEach ==
  /\ \A i, j \in DOMAIN errc : errc[i].from = errc[j].from => i = j
  /\ \A i \in DOMAIN errc : errc[i].from # result.from /\ rpc[errc[i].from] = "end"
  /\ \A c \in Conns : c = result.from => rpc[c] = "end"
  /\ hpc \in {"relaying"} \cup Ending =>
       \A c \in Conns : rpc[c] = "end" =>
         c = result.from \/ \E i \in DOMAIN errc : errc[i].from = c

(* The bytes *)

\* How many bytes of c's stream have been written to the other side.
Passed(c) ==
  IF c = "client" THEN Len(out["remote"])
  ELSE IF out["client"] = <<>> THEN 0 ELSE Len(out["client"]) - 1

Behind(c) == IF c = "client" THEN Len(buffered) ELSE 0

\* What waits in front of c, in its relay and behind the request are the bytes
\* of its stream that follow the ones passed on.
Flow ==
  \A c \in Conns :
    /\ Run(in[c], sent[c] - Len(in[c]))
    /\ Run(buf[c], Passed(c))
    /\ rpc[c] # "end" => Passed(c) + Behind(c) + Len(buf[c]) + Len(in[c]) = sent[c]

Written ==
  /\ Run(buffered, Passed("client")) /\ Run(out["remote"], 0)
  /\ hpc \in {"negotiate", "dial", "reply"} => out["client"] = <<>>
  /\ hpc \in {"buffered", "relaying"} \cup Ending => out["client"] # <<>>
  /\ (out["client"] = <<Refusal>> /\ hpc = "done") \/ Run(out["client"], -1)

\* A relay that ended without an error has passed all its peer sent, and its
\* peer sends no more.
Complete(c) == end[c] # "no" /\ Passed(c) = sent[c] /\ (c = "remote" => out["client"] # <<>>)

CleanEnds ==
  /\ \A i \in DOMAIN errc : errc[i].err = "nil" => Complete(errc[i].from)
  /\ result.err = "nil" => Complete(result.from)

(* The idle monitor *)

\* The timer runs no faster than the silence it measures.
TimerCovers ==
  /\ mpc = "off" => left = IdleTimeout
  /\ mpc = "run" => IdleTimeout > 0 /\ (activity \/ quiet + left >= IdleTimeout)

-----------------------------------------------------------------------------
(* Sequences *)

\* A longer sequence, by index; a run continues with the next number.
LEMMA AppendOf ==
  ASSUME NEW S, NEW s \in Seq(S), NEW e \in S
  PROVE  /\ Append(s, e) \in Seq(S) /\ Len(Append(s, e)) = Len(s) + 1 /\ Len(s) \in Nat
         /\ DOMAIN s = 1..Len(s) /\ DOMAIN Append(s, e) = 1..Len(s) + 1
         /\ \A i \in 1..Len(s) : Append(s, e)[i] = s[i]
         /\ Append(s, e)[Len(s) + 1] = e
         /\ \A a \in Int : Run(s, a) /\ e = a + Len(s) + 1 => Run(Append(s, e), a)
<1>1. Len(s) \in Nat /\ DOMAIN s = 1..Len(s)
  BY LenProperties
<1>2. /\ Append(s, e) \in Seq(S) /\ Len(Append(s, e)) = Len(s) + 1
      /\ \A i \in 1..Len(s) : Append(s, e)[i] = s[i]
      /\ Append(s, e)[Len(s) + 1] = e
  BY AppendProperties
<1>3. DOMAIN Append(s, e) = 1..Len(s) + 1
  BY <1>2, LenProperties
<1>. QED BY <1>1, <1>2, <1>3 DEF Run

\* The first k bytes of a run and the ones behind them.
LEMMA SplitOf ==
  ASSUME NEW S, NEW s \in Seq(S), NEW k \in 0..Len(s)
  PROVE  /\ SubSeq(s, 1, k) \in Seq(S) /\ Len(SubSeq(s, 1, k)) = k
         /\ SubSeq(s, k + 1, Len(s)) \in Seq(S) /\ Len(SubSeq(s, k + 1, Len(s))) = Len(s) - k
         /\ Len(s) \in Nat /\ k \in Nat
         /\ \A a \in Int : Run(s, a) => /\ Run(SubSeq(s, 1, k), a)
                                        /\ Run(SubSeq(s, k + 1, Len(s)), a + k)
<1>1. Len(s) \in Nat /\ DOMAIN s = 1..Len(s) /\ \A i \in 1..Len(s) : s[i] \in S
  BY LenProperties, ElementOfSeq
<1>2. k \in Int /\ 0 <= k /\ k <= Len(s) /\ k \in Nat
  BY <1>1
<1>. DEFINE p == SubSeq(s, 1, k)
            q == SubSeq(s, k + 1, Len(s))
<1>3. p \in Seq(S) /\ Len(p) = k /\ \A i \in 1..k : p[i] = s[i]
  <2>1. \A i \in 1..k : s[i] \in S
    BY <1>1, <1>2
  <2>2. p \in Seq(S) /\ Len(p) = (IF 1 <= k THEN k - 1 + 1 ELSE 0)
        /\ \A i \in 1..(k - 1 + 1) : p[i] = s[1 + i - 1]
    BY <1>2, <2>1, SubSeqProperties
  <2>. HIDE DEF p
  <2>. QED BY <1>2, <2>2
<1>4. q \in Seq(S) /\ Len(q) = Len(s) - k /\ \A i \in 1..Len(s) - k : q[i] = s[k + i]
  <2>1. \A i \in k + 1 .. Len(s) : s[i] \in S
    BY <1>1, <1>2
  <2>2. k + 1 \in Int /\ Len(s) \in Int
    BY <1>1, <1>2
  <2>3. q \in Seq(S) /\ Len(q) = (IF k + 1 <= Len(s) THEN Len(s) - (k + 1) + 1 ELSE 0)
        /\ \A i \in 1..(Len(s) - (k + 1) + 1) : q[i] = s[k + 1 + i - 1]
    BY <2>1, <2>2, SubSeqProperties
  <2>. HIDE DEF q
  <2>4. Len(q) = Len(s) - k
    <3>1. \A l, m \in Nat : m <= l => (IF m + 1 <= l THEN l - (m + 1) + 1 ELSE 0) = l - m
      OBVIOUS
    <3>. QED BY <1>1, <1>2, <2>3, <3>1
  <2>5. ASSUME NEW i \in 1..Len(s) - k PROVE q[i] = s[k + i]
    <3>1. Len(s) - (k + 1) + 1 = Len(s) - k /\ k + 1 + i - 1 = k + i
      BY <1>1, <1>2
    <3>. QED BY <2>3, <3>1
  <2>. QED BY <2>3, <2>4, <2>5
<1>. HIDE DEF p, q
<1>5. DOMAIN p = 1..k /\ DOMAIN q = 1..Len(s) - k
  BY <1>3, <1>4, LenProperties
<1>6. ASSUME NEW a \in Int, Run(s, a) PROVE Run(p, a) /\ Run(q, a + k)
  <2>1. Run(p, a)
    BY <1>1, <1>2, <1>3, <1>5, <1>6 DEF Run
  <2>2. ASSUME NEW i \in 1..Len(s) - k PROVE q[i] = (a + k) + i
    <3>1. k + i \in 1..Len(s)
      BY <1>1, <1>2
    <3>2. s[k + i] = a + (k + i)
      BY <1>1, <1>6, <3>1 DEF Run
    <3>. QED BY <1>2, <1>4, <3>2
  <2>. QED BY <1>5, <2>1, <2>2 DEF Run
<1>. QED BY <1>1, <1>2, <1>3, <1>4, <1>6 DEF p, q

\* A run behind a run.
LEMMA ConcatOf ==
  ASSUME NEW S, NEW s \in Seq(S), NEW t \in Seq(S)
  PROVE  /\ s \o t \in Seq(S) /\ Len(s \o t) = Len(s) + Len(t)
         /\ \A a \in Int : Run(s, a) /\ Run(t, a + Len(s)) => Run(s \o t, a)
<1>1. /\ Len(s) \in Nat /\ DOMAIN s = 1..Len(s)
      /\ Len(t) \in Nat /\ DOMAIN t = 1..Len(t)
  BY LenProperties
<1>. DEFINE u == s \o t
<1>2. /\ u \in Seq(S) /\ Len(u) = Len(s) + Len(t)
      /\ \A i \in 1 .. Len(s) + Len(t) : u[i] = IF i <= Len(s) THEN s[i] ELSE t[i - Len(s)]
  BY ConcatProperties
<1>. HIDE DEF u
<1>3. DOMAIN u = 1..Len(s) + Len(t)
  BY <1>2, LenProperties
<1>4. ASSUME NEW a \in Int, Run(s, a), Run(t, a + Len(s)) PROVE Run(u, a)
  <2>. SUFFICES ASSUME NEW i \in 1..Len(s) + Len(t) PROVE u[i] = a + i
    BY <1>3 DEF Run
  <2>1. CASE i <= Len(s)
    BY <1>1, <1>2, <1>4, <2>1 DEF Run
  <2>2. CASE ~(i <= Len(s))
    <3>1. i - Len(s) \in 1..Len(t) /\ i \in Int
      BY <1>1, <2>2
    <3>2. t[i - Len(s)] = (a + Len(s)) + (i - Len(s))
      BY <1>1, <1>4, <3>1 DEF Run
    <3>. QED BY <1>1, <1>2, <2>2, <3>1, <3>2
  <2>. QED BY <2>1, <2>2
<1>. QED BY <1>2, <1>4 DEF u

\* The rest of a sequence, by index.
LEMMA TailOf ==
  ASSUME NEW S, NEW s \in Seq(S), s # <<>>
  PROVE  /\ Tail(s) \in Seq(S) /\ Len(Tail(s)) = Len(s) - 1 /\ Len(s) \in Nat \ {0}
         /\ Head(s) = s[1] /\ 1 \in DOMAIN s /\ Head(s) \in S
         /\ \A i \in DOMAIN Tail(s) : i + 1 \in DOMAIN s /\ Tail(s)[i] = s[i + 1]
         /\ \A i \in DOMAIN s : i = 1 \/ (i - 1 \in DOMAIN Tail(s) /\ Tail(s)[i - 1] = s[i])
         /\ \A i \in DOMAIN Tail(s) : i \in Nat /\ i >= 1
<1>1. Len(s) \in Nat \ {0} /\ DOMAIN s = 1..Len(s)
  BY EmptySeq, LenProperties
<1>2. /\ Tail(s) \in Seq(S) /\ Len(Tail(s)) = Len(s) - 1 /\ Head(s) = s[1] /\ Head(s) \in S
      /\ DOMAIN Tail(s) = 1..Len(s) - 1 /\ \A i \in 1..Len(s) - 1 : Tail(s)[i] = s[i + 1]
  BY <1>1, HeadTailProperties, LenProperties
<1>. QED BY <1>1, <1>2

\* Nothing is a run from anywhere.
LEMMA EmptyRun == \A a : Run(<<>>, a)
BY DEF Run

-----------------------------------------------------------------------------
(* Types *)

ToPeer == {Refusal, Granted} \cup Bytes

\* The numbers of bytes on the way.
LEMMA Lengths ==
  ASSUME Types
  PROVE  /\ buffered \in Seq(Bytes) /\ Len(buffered) \in Nat
         /\ \A c \in Conns :
              /\ in[c] \in Seq(Bytes) /\ Len(in[c]) \in Nat
              /\ buf[c] \in Seq(Bytes) /\ Len(buf[c]) \in Nat
              /\ out[c] \in Seq(ToPeer) /\ Len(out[c]) \in Nat
              /\ sent[c] \in Nat /\ Other(c) \in Conns
<1>1. /\ buffered \in Seq(Bytes) /\ in \in [Conns -> Seq(Bytes)] /\ buf \in [Conns -> Seq(Bytes)]
      /\ out \in [Conns -> Seq(ToPeer)] /\ sent \in [Conns -> 0..MaxSend]
  BY DEF Types, HandlerType, RelayType, PeerType, ToPeer
<1>2. \A n \in 0..MaxSend : n \in Nat
  BY ProxyAssumption
<1>. QED BY <1>1, <1>2, LenProperties DEF Other, Conns

\* What one Write adds to the stream that goes to c.
LEMMA TakesMore ==
  ASSUME Types, NEW c \in Conns, NEW s \in Seq(Bytes), NEW k \in 0..Len(s), Takes(c, s, k)
  PROVE  /\ out' \in [Conns -> Seq(ToPeer)]
         /\ \A d \in Conns : d # c => out'[d] = out[d]
         /\ out'[c] = out[c] \o SubSeq(s, 1, k) /\ Len(out'[c]) = Len(out[c]) + k
         /\ \A a \in Int : Run(out[c], a) /\ Run(s, a + Len(out[c])) => Run(out'[c], a)
<1>1. SubSeq(s, 1, k) \in Seq(Bytes) /\ Len(SubSeq(s, 1, k)) = k
  BY SplitOf
<1>2. SubSeq(s, 1, k) \in Seq(ToPeer)
  BY <1>1, SeqMonotonic DEF ToPeer
<1>3. out[c] \in Seq(ToPeer) /\ out \in [Conns -> Seq(ToPeer)] /\ Len(out[c]) \in Nat
  BY Lengths DEF Types, PeerType, ToPeer
<1>4. out' = [out EXCEPT ![c] = @ \o SubSeq(s, 1, k)]
  BY DEF Takes
<1>5. /\ out[c] \o SubSeq(s, 1, k) \in Seq(ToPeer)
      /\ Len(out[c] \o SubSeq(s, 1, k)) = Len(out[c]) + k
      /\ \A a \in Int : Run(out[c], a) /\ Run(SubSeq(s, 1, k), a + Len(out[c]))
                          => Run(out[c] \o SubSeq(s, 1, k), a)
  BY <1>1, <1>2, <1>3, ConcatOf
<1>6. \A a \in Int : Run(s, a + Len(out[c])) => Run(SubSeq(s, 1, k), a + Len(out[c]))
  BY <1>3, SplitOf
<1>. QED BY <1>3, <1>4, <1>5, <1>6

\* Init has the types.
LEMMA TypesInit == Init => Types
<1>. SUFFICES ASSUME Init PROVE Types
  OBVIOUS
<1>. USE ProxyAssumption, EmptySeq DEF Init
<1>1. HandlerType BY DEF HandlerType
<1>2. RelayType BY DEF RelayType, Conns
<1>3. IdleType
  <2>1. 0 \in 0..IdleTimeout /\ IdleTimeout \in 0..IdleTimeout
    OBVIOUS
  <2>. QED BY <2>1 DEF IdleType
<1>4. PeerType BY DEF PeerType
<1>. QED BY <1>1, <1>2, <1>3, <1>4 DEF Types

\* Every return of the handler.
LEMMA ReturnTypes ==
  ASSUME Types, Return, buffered' = buffered, errc' \in Seq(Results), UNCHANGED <<result, stopped>>,
         out' \in [Conns -> Seq(ToPeer)]
  PROVE  Types'
<1>. USE DEF Return, UnchangedByHandler
<1>1. HandlerType' BY DEF Types, HandlerType
<1>2. RelayType' BY DEF Types, RelayType, AllClosed
<1>3. IdleType' BY DEF Types, IdleType
<1>4. PeerType' BY DEF Types, PeerType, ToPeer
<1>. QED BY <1>1, <1>2, <1>3, <1>4 DEF Types

\* The handler's steps keep the types.
LEMMA HandlerTypes ==
  ASSUME Types, Negotiated \/ NegotiateFailed \/ Handler
  PROVE  Types'
<1>. USE DEF UnchangedByHandler, ctxVars, connVars, relayVars, peerVars
<1>0. errc \in Seq(Results) /\ out \in [Conns -> Seq(ToPeer)]
  BY DEF Types, HandlerType, PeerType, ToPeer
<1>1. CASE Negotiated
  <2>1. PICK k \in 0..MaxBuffered :
          /\ k <= Len(in["client"])
          /\ buffered' = SubSeq(in["client"], 1, k)
          /\ in' = [in EXCEPT !["client"] = SubSeq(@, k + 1, Len(@))]
    BY <1>1 DEF Negotiated
  <2>2. "client" \in Conns /\ in["client"] \in Seq(Bytes) /\ k \in 0..Len(in["client"])
    <3>1. "client" \in Conns
      BY DEF Conns
    <3>. QED BY <2>1, <3>1, Lengths, ProxyAssumption
  <2>3. buffered' \in Seq(Bytes) /\ SubSeq(in["client"], k + 1, Len(in["client"])) \in Seq(Bytes)
    BY <2>1, <2>2, SplitOf
  <2>4. in' \in [Conns -> Seq(Bytes)]
    BY <2>1, <2>2, <2>3 DEF Types, PeerType
  <2>5. HandlerType' BY <1>1, <2>3 DEF Negotiated, Types, HandlerType
  <2>6. RelayType' BY <1>1 DEF Negotiated, Types, RelayType
  <2>7. IdleType' BY <1>1 DEF Negotiated, Types, IdleType
  <2>8. PeerType' BY <1>1, <2>4 DEF Negotiated, Types, PeerType
  <2>. QED BY <2>5, <2>6, <2>7, <2>8 DEF Types
<1>2. CASE NegotiateFailed \/ ReplyFailed \/ BufferedFailed
  BY <1>0, <1>2, ReturnTypes DEF NegotiateFailed, ReplyFailed, BufferedFailed
<1>3. ASSUME NEW e \in ToPeer, out' = [out EXCEPT !["client"] = Append(@, e)]
      PROVE  out' \in [Conns -> Seq(ToPeer)]
  <2>1. Append(out["client"], e) \in Seq(ToPeer) /\ "client" \in Conns
    BY <1>0, AppendOf DEF Conns
  <2>. QED BY <1>0, <1>3, <2>1
<1>4. CASE DialFailed
  <2>1. out' = out \/ out' = [out EXCEPT !["client"] = Append(@, Refusal)]
    BY <1>0, <1>4 DEF DialFailed, Conns
  <2>2. out' \in [Conns -> Seq(ToPeer)]
    BY <1>0, <1>3, <2>1 DEF ToPeer
  <2>. QED BY <1>0, <1>4, <2>2, ReturnTypes DEF DialFailed
<1>5. CASE Replied
  <2>1. out' \in [Conns -> Seq(ToPeer)]
    BY <1>3, <1>5 DEF Replied, ToPeer
  <2>2. HandlerType' BY <1>5 DEF Replied, Types, HandlerType
  <2>3. RelayType' BY <1>5 DEF Replied, Types, RelayType
  <2>4. IdleType' BY <1>5 DEF Replied, Types, IdleType
  <2>5. PeerType' BY <1>5, <2>1 DEF Replied, Types, PeerType, ToPeer
  <2>. QED BY <2>2, <2>3, <2>4, <2>5 DEF Types
<1>6. CASE BufferedWritten
  <2>1. out' \in [Conns -> Seq(ToPeer)]
    <3>1. "remote" \in Conns /\ Len(buffered) \in 0..Len(buffered)
      BY Lengths DEF Conns
    <3>. QED BY <1>6, <3>1, Lengths, TakesMore DEF BufferedWritten
  <2>2. HandlerType' BY <1>6, EmptySeq DEF BufferedWritten, Types, HandlerType
  <2>3. RelayType' BY <1>6 DEF BufferedWritten, Types, RelayType
  <2>4. IdleType' BY <1>6, ProxyAssumption DEF BufferedWritten, NotifyActivity, Types, IdleType
  <2>5. PeerType' BY <1>6, <2>1 DEF BufferedWritten, Types, PeerType, ToPeer
  <2>. QED BY <2>2, <2>3, <2>4, <2>5 DEF Types
<1>7. CASE Dialed \/ StartRelay \/ CloseBoth
  <2>. USE <1>7 DEF Dialed, StartRelay, CloseBoth
  <2>1. HandlerType' BY DEF Types, HandlerType
  <2>2. RelayType' BY DEF Types, RelayType, AllClosed, Conns
  <2>3. IdleType' BY DEF Types, IdleType
  <2>4. PeerType' BY DEF Types, PeerType
  <2>. QED BY <2>1, <2>2, <2>3, <2>4 DEF Types
<1>8. CASE FirstResult
  <2>1. result' \in Results /\ errc' \in Seq(Results)
    BY <1>0, <1>8, TailOf DEF FirstResult
  <2>2. HandlerType' BY <1>8, <2>1 DEF FirstResult, Types, HandlerType
  <2>3. RelayType' BY <1>8 DEF FirstResult, Types, RelayType
  <2>4. IdleType' BY <1>8 DEF FirstResult, Types, IdleType
  <2>5. PeerType' BY <1>8 DEF FirstResult, Types, PeerType
  <2>. QED BY <2>2, <2>3, <2>4, <2>5 DEF Types
<1>9. CASE SecondResult
  <2>1. errc' \in Seq(Results)
    BY <1>0, <1>9, TailOf DEF SecondResult
  <2>. QED BY <1>0, <1>9, <2>1, ReturnTypes DEF SecondResult
<1>. QED
  BY <1>1, <1>2, <1>4, <1>5, <1>6, <1>7, <1>8, <1>9 DEF Handler, NegotiateFailed

\* The relays' and watchers' steps keep the types.
LEMMA RelayTypes ==
  ASSUME Types, NEW c \in Conns, Relay(c) \/ Watcher(c)
  PROVE  Types'
<1>. USE DEF handlerVars, ctxVars, connVars, relayVars, idleVars, peerVars
<1>1. ASSUME NEW e \in {"nil", "error"}, RelayReturns(c, e)
      PROVE  Types'
  <2>1. errc' \in Seq(Results)
    <3>1. Result(c, e) \in Results /\ errc \in Seq(Results)
      BY DEF Result, Results, Types, HandlerType
    <3>. QED BY <1>1, <3>1, AppendOf DEF RelayReturns
  <2>2. HandlerType' BY <1>1, <2>1 DEF RelayReturns, Types, HandlerType
  <2>3. RelayType' BY <1>1, EmptySeq DEF RelayReturns, Types, RelayType
  <2>4. IdleType' BY <1>1 DEF RelayReturns, Types, IdleType
  <2>5. PeerType' BY <1>1 DEF RelayReturns, Types, PeerType
  <2>. QED BY <2>2, <2>3, <2>4, <2>5 DEF Types
<1>2. CASE RelayRead(c)
  <2>1. PICK n \in 1..Len(in[c]) :
          /\ buf' = [buf EXCEPT ![c] = SubSeq(in[c], 1, n)]
          /\ in' = [in EXCEPT ![c] = SubSeq(@, n + 1, Len(@))]
    BY <1>2 DEF RelayRead
  <2>2. SubSeq(in[c], 1, n) \in Seq(Bytes) /\ SubSeq(in[c], n + 1, Len(in[c])) \in Seq(Bytes)
    BY Lengths, SplitOf
  <2>3. HandlerType' BY <1>2 DEF RelayRead, Types, HandlerType
  <2>4. RelayType' BY <1>2, <2>1, <2>2 DEF RelayRead, Types, RelayType
  <2>5. IdleType' BY <1>2 DEF RelayRead, Types, IdleType
  <2>6. PeerType' BY <1>2, <2>1, <2>2 DEF RelayRead, Types, PeerType
  <2>. QED BY <2>3, <2>4, <2>5, <2>6 DEF Types
<1>3. CASE RelayWrite(c)
  <2>1. PICK k \in 1..Len(buf[c]) :
          /\ Takes(Other(c), buf[c], k)
          /\ buf' = [buf EXCEPT ![c] = SubSeq(@, k + 1, Len(@))]
          /\ \/ rpc' = [rpc EXCEPT ![c] = "read"] /\ NotifyActivity
             \/ UNCHANGED <<rpc, activity, quiet>>
    BY <1>3 DEF RelayWrite
  <2>2. k \in 0..Len(buf[c]) /\ buf[c] \in Seq(Bytes) /\ Other(c) \in Conns
    BY Lengths
  <2>3. SubSeq(buf[c], k + 1, Len(buf[c])) \in Seq(Bytes) /\ out' \in [Conns -> Seq(ToPeer)]
    BY <2>1, <2>2, SplitOf, TakesMore
  <2>4. HandlerType' BY <1>3 DEF RelayWrite, Types, HandlerType
  <2>5. RelayType' BY <1>3, <2>1, <2>3 DEF RelayWrite, Types, RelayType
  <2>6. IdleType'
    <3>1. activity' \in BOOLEAN /\ quiet' \in 0..IdleTimeout
      <4>1. CASE NotifyActivity
        <5>1. (IdleTimeout > 0) \in BOOLEAN
          OBVIOUS
        <5>2. quiet' \in 0..IdleTimeout
          BY <4>1, ProxyAssumption DEF NotifyActivity
        <5>. QED BY <4>1, <5>1, <5>2 DEF NotifyActivity
      <4>2. CASE UNCHANGED <<activity, quiet>>
        BY <4>2 DEF Types, IdleType
      <4>. QED BY <2>1, <4>1, <4>2
    <3>. QED BY <1>3, <3>1 DEF RelayWrite, Types, IdleType
  <2>7. PeerType' BY <1>3, <2>3 DEF RelayWrite, Types, PeerType, ToPeer
  <2>. QED BY <2>4, <2>5, <2>6, <2>7 DEF Types
<1>4. CASE Watcher(c)
  BY <1>4 DEF Watcher, Types, HandlerType, RelayType, IdleType, PeerType
<1>. QED
  BY <1>1, <1>2, <1>3, <1>4 DEF Relay, RelayEOF, RelayReadFailed, RelayWriteFailed

\* The monitor's, the clock's and the peers' steps keep the types.
LEMMA EnvironmentTypes ==
  ASSUME Types,
         \/ Monitor \/ Tick \/ ParentCancel
         \/ \E c \in Conns : PeerSends(c) \/ PeerEnds(c) \/ PeerResets(c) \/ PeerStalls(c)
  PROVE  Types'
<1>. USE ProxyAssumption
     DEF handlerVars, ctxVars, connVars, relayVars, idleVars, peerVars, UnchangedByMonitor,
         UnchangedByPeers
<1>1. CASE Monitor
  <2>. USE <1>1 DEF Monitor, MonitorStops, MonitorActivity, MonitorIdle, MonitorCloses
  <2>1. HandlerType' BY DEF Types, HandlerType
  <2>2. RelayType' BY DEF Types, RelayType, AllClosed
  <2>3. IdleType'
    <3>1. IdleTimeout \in 0..IdleTimeout
      OBVIOUS
    <3>2. left' \in 0..IdleTimeout
      BY <3>1 DEF Types, IdleType
    <3>. QED BY <3>2 DEF Types, IdleType
  <2>4. PeerType' BY DEF Types, PeerType
  <2>. QED BY <2>1, <2>2, <2>3, <2>4 DEF Types
<1>2. CASE Tick
  <2>1. HandlerType' /\ RelayType' /\ PeerType'
    BY <1>2 DEF Tick, Types, HandlerType, RelayType, PeerType
  <2>2. IdleType'
    BY <1>2 DEF Tick, Types, IdleType
  <2>. QED BY <2>1, <2>2 DEF Types
<1>3. CASE ParentCancel
  BY <1>3 DEF ParentCancel, Types, HandlerType, RelayType, IdleType, PeerType
<1>4. ASSUME NEW c \in Conns, PeerSends(c) PROVE Types'
  <2>1. sent[c] + 1 \in 0..MaxSend /\ sent[c] + 1 \in Bytes
    BY <1>4 DEF PeerSends, Types, PeerType, Bytes
  <2>2. Append(in[c], sent[c] + 1) \in Seq(Bytes)
    BY <2>1, Lengths, AppendOf
  <2>3. HandlerType' /\ RelayType' /\ IdleType'
    BY <1>4 DEF PeerSends, Types, HandlerType, RelayType, IdleType
  <2>4. PeerType'
    BY <1>4, <2>1, <2>2 DEF PeerSends, Types, PeerType
  <2>. QED BY <2>3, <2>4 DEF Types
<1>5. ASSUME NEW c \in Conns, PeerEnds(c) \/ PeerResets(c) \/ PeerStalls(c) PROVE Types'
  <2>1. HandlerType' /\ RelayType' /\ IdleType'
    BY <1>5 DEF PeerEnds, PeerResets, PeerStalls, Types, HandlerType, RelayType, IdleType
  <2>2. PeerType'
    BY <1>5 DEF PeerEnds, PeerResets, PeerStalls, Types, PeerType
  <2>. QED BY <2>1, <2>2 DEF Types
<1>. QED BY <1>1, <1>2, <1>3, <1>4, <1>5

\* Every step keeps the types.
LEMMA TypesStep == Types /\ [Next]_vars => Types'
<1>. SUFFICES ASSUME Types, [Next]_vars PROVE Types'
  OBVIOUS
<1>1. CASE UNCHANGED vars
  BY <1>1
  DEF vars, handlerVars, ctxVars, connVars, relayVars, idleVars, peerVars, Types, HandlerType,
      RelayType, IdleType, PeerType
<1>. QED BY <1>1, HandlerTypes, RelayTypes, EnvironmentTypes DEF Next

-----------------------------------------------------------------------------
(* Control: phases, what is held, and the results of the relays *)

Control == Phases /\ Holding /\ OneResultEach

\* A handler that negotiates has started nothing.
LEMMA ControlInit == Init => Control
<1>. SUFFICES ASSUME Init PROVE Control
  OBVIOUS
<1>1. DOMAIN errc = {}
  BY EmptySeq DEF Init
<1>2. Phases /\ Holding
  BY DEF Init, Phases, Holding, Early, Ending
<1>3. OneResultEach
  BY <1>1 DEF Init, OneResultEach, NoResult, Result, Conns, Ending
<1>. QED BY <1>2, <1>3 DEF Control

\* Results in errc are of two connections at most.
LEMMA AtMostTwo ==
  ASSUME Types, OneResultEach
  PROVE  /\ errc \in Seq(Results) /\ Len(errc) \in Nat /\ DOMAIN errc = 1..Len(errc)
         /\ \A i \in DOMAIN errc : errc[i] \in Results /\ errc[i].from \in Conns
         /\ Len(errc) <= 2
<1>1. errc \in Seq(Results)
  BY DEF Types, HandlerType
<1>2. /\ Len(errc) \in Nat /\ DOMAIN errc = 1..Len(errc)
      /\ \A i \in DOMAIN errc : errc[i] \in Results
  BY <1>1, LenProperties, ElementOfSeq
<1>3. \A i \in DOMAIN errc : errc[i].from \in Conns
  BY <1>2 DEF Results
<1>4. Len(errc) <= 2
  <2>. SUFFICES ASSUME Len(errc) > 2 PROVE FALSE
    BY <1>2
  <2>1. 1 \in DOMAIN errc /\ 2 \in DOMAIN errc /\ 3 \in DOMAIN errc
    BY <1>2
  <2>2. \/ errc[1].from = errc[2].from \/ errc[1].from = errc[3].from
        \/ errc[2].from = errc[3].from
    BY <1>3, <2>1 DEF Conns
  <2>. QED BY <2>1, <2>2 DEF OneResultEach
<1>. QED BY <1>1, <1>2, <1>3, <1>4

\* A relay at work: the handler is relaying or ending.
LEMMA RelayAtWork ==
  ASSUME Types, Phases, NEW c \in Conns, rpc[c] \in {"read", "write"}
  PROVE  hpc \in {"relaying"} \cup Ending /\ \A d \in Conns : rpc[d] # "off"
BY DEF Types, HandlerType, Phases, Early, Ending

\* Steps that touch neither the relays, their results nor the handler.
LEMMA ControlUntouched ==
  ASSUME Control,
         UNCHANGED <<hpc, buffered, errc, result, rpc, buf>>,
         stopped => stopped', open' \in {open, AllClosed}, mpc' = "run" => mpc = "run",
         mpc = "off" => mpc' = "off",
         \A c \in Conns : wpc'[c] \in {wpc[c], "end"} /\ (wpc[c] = "off" => wpc'[c] = "off")
  PROVE  Control'
<1>1. Phases'
  <2>1. hpc \in Early => mpc' = "off" /\ \A c \in Conns : rpc[c] = "off" /\ wpc'[c] = "off"
    BY DEF Control, Phases
  <2>2. hpc \in Ending => stopped'
    BY DEF Control, Phases
  <2>3. hpc = "done" =>
          /\ open' = AllClosed /\ (mpc' = "run" => stopped')
          /\ \A c \in Conns : rpc[c] \in {"off", "end"} /\ (wpc'[c] = "wait" => stopped')
    BY DEF Control, Phases
  <2>. QED BY <2>1, <2>2, <2>3 DEF Control, Phases
<1>2. Holding' /\ OneResultEach'
  BY DEF Control, Holding, OneResultEach
<1>. QED BY <1>1, <1>2 DEF Control

\* A return before the go statements.
LEMMA EarlyReturnControl ==
  ASSUME Types, Control, hpc \in Early, Return, UNCHANGED <<buffered, errc, result, stopped>>
  PROVE  Control'
<1>. USE DEF Control
<1>1. UNCHANGED <<buf, rpc, wpc, mpc>> /\ hpc' = "done" /\ open' = AllClosed
  BY DEF Return, UnchangedByHandler
<1>2. Phases'
  BY <1>1 DEF Phases, Early, Ending
<1>3. Holding' /\ OneResultEach'
  BY <1>1 DEF Holding, OneResultEach, Ending
<1>. QED BY <1>2, <1>3

\* The handler's steps, phase by phase.
LEMMA HandlerControl ==
  ASSUME Types, Control, Negotiated \/ NegotiateFailed \/ Handler
  PROVE  Control'
<1>. USE DEF Control, UnchangedByHandler
<1>1. CASE NegotiateFailed \/ DialFailed \/ ReplyFailed \/ BufferedFailed
  BY <1>1, EarlyReturnControl
  DEF NegotiateFailed, DialFailed, ReplyFailed, BufferedFailed, Early
<1>2. CASE Negotiated \/ Dialed \/ Replied \/ BufferedWritten
  <2>1. /\ hpc \in Early /\ hpc' \in Early \ {"negotiate"}
        /\ UNCHANGED <<errc, result, mpc, rpc, wpc, buf>>
    BY <1>2 DEF Negotiated, Dialed, Replied, BufferedWritten, Early, ctxVars, connVars, relayVars
  <2>2. Phases'
    BY <2>1 DEF Phases, Early, Ending
  <2>3. Holding'
    BY <2>1 DEF Phases, Holding, Early
  <2>4. OneResultEach'
    BY <2>1 DEF Phases, OneResultEach, Early, Ending
  <2>. QED BY <2>2, <2>3, <2>4
<1>3. CASE StartRelay
  <2>1. /\ hpc = "buffered" /\ hpc' = "relaying" /\ buffered = <<>>
        /\ rpc' = [c \in Conns |-> "read"]
        /\ UNCHANGED <<buffered, errc, result, buf>>
    BY <1>3 DEF StartRelay
  <2>2. errc = <<>> /\ result = NoResult /\ DOMAIN errc = {} /\ \A c \in Conns : rpc[c] = "off"
    BY <2>1, EmptySeq DEF Phases, Early
  <2>3. Phases' /\ Holding'
    BY <2>1, <2>2 DEF Phases, Holding, Early, Ending
  <2>4. OneResultEach'
    BY <2>1, <2>2 DEF OneResultEach, NoResult, Result, Conns
  <2>. QED BY <2>3, <2>4
<1>4. CASE FirstResult
  <2>1. /\ hpc = "relaying" /\ hpc' = "closing" /\ errc # <<>> /\ errc' = Tail(errc)
        /\ result' = Head(errc) /\ stopped' = TRUE /\ result = NoResult
        /\ UNCHANGED <<buffered, rpc, buf, open, wpc, mpc>>
    BY <1>4 DEF FirstResult, Phases
  <2>2. /\ errc \in Seq(Results) /\ DOMAIN errc = 1..Len(errc) /\ Len(errc) \in Nat
        /\ \A i \in DOMAIN errc : errc[i] \in Results
    BY AtMostTwo
  <2>3. /\ Head(errc) = errc[1] /\ 1 \in DOMAIN errc
        /\ \A i \in DOMAIN errc' : i + 1 \in DOMAIN errc /\ errc'[i] = errc[i + 1]
        /\ \A i \in DOMAIN errc : i = 1 \/ (i - 1 \in DOMAIN errc' /\ errc'[i - 1] = errc[i])
        /\ \A i \in DOMAIN errc' : i \in Nat /\ i >= 1
    BY <2>1, <2>2, TailOf
  <2>4. Phases' /\ Holding'
    BY <2>1, <2>2, <2>3 DEF Phases, Holding, Early, Ending
  <2>5. OneResultEach'
    <3>1. \A i, j \in DOMAIN errc' : errc'[i].from = errc'[j].from => i = j
      BY <2>3 DEF OneResultEach
    <3>2. \A i \in DOMAIN errc' : errc'[i].from # result'.from /\ rpc'[errc'[i].from] = "end"
      BY <2>1, <2>3 DEF OneResultEach
    <3>3. \A c \in Conns : c = result'.from => rpc'[c] = "end"
      BY <2>1, <2>3 DEF OneResultEach
    <3>4. ASSUME NEW c \in Conns, rpc'[c] = "end"
          PROVE  c = result'.from \/ \E i \in DOMAIN errc' : errc'[i].from = c
      <4>1. PICK i \in DOMAIN errc : errc[i].from = c
        BY <2>1, <3>4 DEF OneResultEach, NoResult, Result, Conns
      <4>. QED BY <2>1, <2>3, <4>1
    <3>. QED BY <3>1, <3>2, <3>3, <3>4 DEF OneResultEach
  <2>. QED BY <2>4, <2>5
<1>5. CASE CloseBoth
  <2>1. /\ hpc = "closing" /\ hpc' = "waiting" /\ open' = AllClosed
        /\ UNCHANGED <<buffered, errc, result, stopped, rpc, buf, wpc, mpc>>
    BY <1>5 DEF CloseBoth
  <2>2. Phases' /\ Holding'
    BY <2>1 DEF Phases, Holding, Early, Ending
  <2>3. OneResultEach'
    BY <2>1 DEF OneResultEach, Ending
  <2>. QED BY <2>2, <2>3
<1>6. CASE SecondResult
  <2>1. /\ hpc = "waiting" /\ hpc' = "done" /\ errc # <<>> /\ errc' = Tail(errc)
        /\ open' = AllClosed /\ result \in Results /\ stopped
        /\ UNCHANGED <<buffered, result, stopped, rpc, buf, wpc, mpc>>
    BY <1>6 DEF SecondResult, Return, Phases, Ending
  <2>2. /\ errc \in Seq(Results) /\ DOMAIN errc = 1..Len(errc) /\ Len(errc) \in Nat
        /\ \A i \in DOMAIN errc : errc[i].from \in Conns
    BY AtMostTwo
  <2>3. /\ 1 \in DOMAIN errc
        /\ \A i \in DOMAIN errc' : i + 1 \in DOMAIN errc /\ errc'[i] = errc[i + 1]
        /\ \A i \in DOMAIN errc' : i \in Nat /\ i >= 1
    BY <2>1, <2>2, TailOf
  <2>4. \A c \in Conns : rpc[c] = "end"
    BY <2>1, <2>2, <2>3 DEF OneResultEach, Results, Conns
  <2>5. Phases' /\ Holding'
    BY <2>1, <2>4 DEF Phases, Holding, Early, Ending
  <2>6. OneResultEach'
    BY <2>1, <2>3 DEF OneResultEach, Ending
  <2>. QED BY <2>5, <2>6
<1>. QED BY <1>1, <1>2, <1>3, <1>4, <1>5, <1>6 DEF Handler

\* A relay that returns gives its one result.
LEMMA ReturnControl ==
  ASSUME Types, Control, NEW c \in Conns, NEW e, rpc[c] \in {"read", "write"},
         e \in {"nil", "error"}, RelayReturns(c, e)
  PROVE  Control'
<1>. USE DEF Control
<1>. DEFINE x == Result(c, e)
<1>1. /\ rpc' = [rpc EXCEPT ![c] = "end"] /\ buf' = [buf EXCEPT ![c] = <<>>]
      /\ errc' = Append(errc, x) /\ x \in Results /\ x.from = c
      /\ UNCHANGED <<hpc, buffered, result, stopped, open, wpc, mpc>>
  BY DEF RelayReturns, Result, Results, ctxVars, connVars, idleVars
<1>2. /\ hpc \in {"relaying"} \cup Ending /\ \A d \in Conns : rpc[d] # "off"
      /\ rpc \in [Conns -> {"off", "read", "write", "end"}] /\ buf \in [Conns -> Seq(Bytes)]
  BY RelayAtWork DEF Types, RelayType
<1>3. errc \in Seq(Results) /\ DOMAIN errc = 1..Len(errc) /\ Len(errc) \in Nat
  BY AtMostTwo
<1>. HIDE DEF x
<1>4. /\ DOMAIN errc' = 1..Len(errc) + 1 /\ errc'[Len(errc) + 1] = x
      /\ \A i \in 1..Len(errc) : errc'[i] = errc[i]
  BY <1>1, <1>3, AppendOf
<1>5. \A i \in DOMAIN errc' : i \in DOMAIN errc \/ i = Len(errc) + 1
  BY <1>3, <1>4
<1>6. Phases' /\ Holding'
  BY <1>1, <1>2 DEF Phases, Holding, Early, Ending
<1>7. OneResultEach'
  <2>1. \A i \in DOMAIN errc : errc[i].from # c /\ result.from # c
    BY DEF OneResultEach
  <2>2. \A i, j \in DOMAIN errc' : errc'[i].from = errc'[j].from => i = j
    BY <1>1, <1>3, <1>4, <1>5, <2>1 DEF OneResultEach
  <2>3. result.from # c
    BY DEF OneResultEach
  <2>4. \A i \in DOMAIN errc' : errc'[i].from # result'.from /\ rpc'[errc'[i].from] = "end"
    BY <1>1, <1>2, <1>3, <1>4, <1>5, <2>1, <2>3 DEF OneResultEach
  <2>5. \A d \in Conns : d = result'.from => rpc'[d] = "end"
    BY <1>1, <1>2 DEF OneResultEach
  <2>6. ASSUME NEW d \in Conns, rpc'[d] = "end"
        PROVE  d = result'.from \/ \E i \in DOMAIN errc' : errc'[i].from = d
    <3>1. CASE d = c
      <4>1. Len(errc) + 1 \in DOMAIN errc'
        BY <1>3, <1>4
      <4>. QED BY <1>1, <1>4, <3>1, <4>1
    <3>2. CASE d # c
      <4>1. rpc[d] = "end"
        BY <1>1, <1>2, <2>6, <3>2
      <4>2. \A i \in DOMAIN errc : i \in DOMAIN errc' /\ errc'[i] = errc[i]
        BY <1>3, <1>4
      <4>. QED BY <1>1, <1>2, <4>1, <4>2 DEF OneResultEach
    <3>. QED BY <3>1, <3>2
  <2>. QED BY <1>1, <2>2, <2>4, <2>5, <2>6 DEF OneResultEach
<1>. QED BY <1>6, <1>7

\* The other steps of relays and watchers: they move between reading and writing.
LEMMA RelayControl ==
  ASSUME Types, Control, NEW c \in Conns, Relay(c) \/ Watcher(c)
  PROVE  Control'
<1>. USE DEF Control, handlerVars, ctxVars, connVars, relayVars, idleVars
<1>1. CASE RelayEOF(c) \/ RelayReadFailed(c) \/ RelayWriteFailed(c)
  BY <1>1, ReturnControl DEF RelayEOF, RelayReadFailed, RelayWriteFailed
<1>2. CASE RelayRead(c) \/ RelayWrite(c)
  <2>1. /\ rpc[c] \in {"read", "write"}
        /\ UNCHANGED <<hpc, buffered, errc, result, stopped, open, wpc, mpc>>
    BY <1>2 DEF RelayRead, RelayWrite
  <2>2. /\ hpc \in {"relaying"} \cup Ending /\ \A d \in Conns : rpc[d] # "off"
        /\ rpc \in [Conns -> {"off", "read", "write", "end"}] /\ buf \in [Conns -> Seq(Bytes)]
    BY <2>1, RelayAtWork DEF Types, RelayType
  <2>3. \A d \in Conns : rpc'[d] # "off" /\ (rpc'[d] = "end" <=> rpc[d] = "end")
    BY <1>2, <2>2 DEF RelayRead, RelayWrite
  <2>4. Phases'
    BY <2>1, <2>2, <2>3 DEF Phases, Early, Ending
  <2>5. Holding'
    <3>1. \A d \in Conns : rpc'[d] # "write" => buf'[d] = <<>>
      <4>1. CASE RelayRead(c)
        BY <2>2, <4>1 DEF RelayRead, Holding
      <4>2. CASE RelayWrite(c)
        <5>1. PICK k \in 1..Len(buf[c]) :
                /\ buf' = [buf EXCEPT ![c] = SubSeq(@, k + 1, Len(@))]
                /\ k = Len(buf[c]) => rpc' = [rpc EXCEPT ![c] = "read"]
                /\ k # Len(buf[c]) => UNCHANGED rpc
          BY <4>2 DEF RelayWrite
        <5>2. k = Len(buf[c]) => SubSeq(buf[c], k + 1, Len(buf[c])) = <<>>
          BY Lengths, SplitOf, EmptySeq
        <5>3. rpc[c] = "write"
          BY <4>2 DEF RelayWrite
        <5>. QED BY <2>2, <5>1, <5>2, <5>3 DEF Holding
      <4>. QED BY <1>2, <4>1, <4>2
    <3>. QED BY <2>1, <2>2, <3>1 DEF Holding, Ending
  <2>6. OneResultEach'
    <3>1. \A i \in DOMAIN errc : errc[i].from \in Conns
      BY AtMostTwo
    <3>. QED BY <2>1, <2>3, <3>1 DEF OneResultEach
  <2>. QED BY <2>4, <2>5, <2>6
<1>3. CASE Watcher(c)
  <2>1. wpc \in [Conns -> {"off", "wait", "end"}]
    BY DEF Types, RelayType
  <2>. QED BY <1>3, <2>1, ControlUntouched DEF Watcher
<1>. QED BY <1>1, <1>2, <1>3 DEF Relay

\* Every step keeps phases, what is held, and one result of each relay.
LEMMA ControlStep == Types /\ Control /\ [Next]_vars => Control'
<1>. SUFFICES ASSUME Types, Control, [Next]_vars PROVE Control'
  OBVIOUS
<1>. USE DEF handlerVars, ctxVars, connVars, relayVars, idleVars
<1>1. CASE Monitor
  BY <1>1, ControlUntouched
  DEF Monitor, MonitorStops, MonitorActivity, MonitorIdle, MonitorCloses, UnchangedByMonitor
<1>2. CASE Tick \/ ParentCancel \/ UNCHANGED vars
  BY <1>2, ControlUntouched DEF Tick, ParentCancel, UnchangedByPeers, vars
<1>3. CASE \E c \in Conns : PeerSends(c) \/ PeerEnds(c) \/ PeerResets(c) \/ PeerStalls(c)
  BY <1>3, ControlUntouched DEF PeerSends, PeerEnds, PeerResets, PeerStalls, UnchangedByPeers
<1>. QED BY <1>1, <1>2, <1>3, HandlerControl, RelayControl DEF Next

\* The variables have their types, errc has room for both results, and a relay has
\* ended just when proxy has its result or finds it in errc.
THEOREM Typing == Spec => []TypeOK
<1>1. Types /\ Control => TypeOK
  <2>. SUFFICES ASSUME Types, Control PROVE ResultsKept
    BY DEF TypeOK
  <2>1. /\ Len(errc) <= 2
        /\ \A i \in DOMAIN errc : rpc[errc[i].from] = "end"
        /\ \A c \in Conns : c = result.from => rpc[c] = "end"
    BY AtMostTwo DEF Control, OneResultEach
  <2>2. hpc \in {"relaying", "closing", "waiting"} =>
          \A c \in Conns : rpc[c] = "end" =>
            c = result.from \/ \E i \in DOMAIN errc : errc[i].from = c
    BY DEF Control, OneResultEach, Ending
  <2>. QED BY <2>1, <2>2 DEF ResultsKept
<1>. QED BY <1>1, TypesInit, TypesStep, ControlInit, ControlStep, PTL DEF Spec

\* A handler that has returned has closed both connections, waited for both relays,
\* and left its watchers and its monitor nothing to wait for.
THEOREM ReturnLeavesNothing == Spec => []NothingLeftBehind
<1>1. Control => NothingLeftBehind
  BY DEF Control, Phases, NothingLeftBehind, CtxDone
<1>. QED BY <1>1, TypesInit, TypesStep, ControlInit, ControlStep, PTL DEF Spec

-----------------------------------------------------------------------------
(* The idle monitor *)

\* The timer has its full time before the monitor runs.
LEMMA TimerInit == Init => TimerCovers
BY DEF Init, TimerCovers

\* Steps in which neither the monitor nor its clock takes part.
LEMMA TimerUntouched ==
  ASSUME TimerCovers, UNCHANGED <<mpc, left, activity, quiet>>
  PROVE  TimerCovers'
BY DEF TimerCovers

\* A forwarded buffer is told to a monitor that runs.
LEMMA TimerNotified ==
  ASSUME TimerCovers, NotifyActivity, UNCHANGED <<mpc, left>>
  PROVE  TimerCovers'
BY DEF TimerCovers, NotifyActivity

\* The monitor starts with its full time, restarts it after an activity, and loses of
\* it one tick for each tick of silence.
LEMMA TimerStep == Types /\ Control /\ TimerCovers /\ [Next]_vars => TimerCovers'
<1>. SUFFICES ASSUME Types, Control, TimerCovers, [Next]_vars PROVE TimerCovers'
  OBVIOUS
<1>. USE DEF UnchangedByHandler, handlerVars, ctxVars, connVars, relayVars, idleVars, peerVars
<1>0. /\ left \in Int /\ 0 <= left /\ quiet \in Int /\ 0 <= quiet /\ quiet <= IdleTimeout
      /\ IdleTimeout \in Nat
  BY ProxyAssumption DEF Types, IdleType
<1>1. CASE Negotiated \/ NegotiateFailed \/ Handler
  <2>1. CASE BufferedWritten
    BY <2>1, TimerNotified DEF BufferedWritten
  <2>2. CASE StartRelay
    <3>1. mpc = "off" /\ UNCHANGED <<left, activity, quiet>>
      BY <2>2 DEF StartRelay, Control, Phases, Early
    <3>2. mpc' = "run" => IdleTimeout > 0
      BY <2>2 DEF StartRelay
    <3>. QED BY <1>0, <3>1, <3>2 DEF TimerCovers
  <2>3. CASE Negotiated \/ NegotiateFailed \/ Dialed \/ DialFailed \/ Replied \/ ReplyFailed
             \/ BufferedFailed \/ FirstResult \/ CloseBoth \/ SecondResult
    BY <2>3, TimerUntouched
    DEF Negotiated, NegotiateFailed, Dialed, DialFailed, Replied, ReplyFailed, BufferedFailed,
        FirstResult, CloseBoth, SecondResult, Return
  <2>. QED BY <1>1, <2>1, <2>2, <2>3 DEF Handler
<1>2. CASE \E c \in Conns : Relay(c) \/ Watcher(c)
  <2>. PICK c \in Conns : Relay(c) \/ Watcher(c)
    BY <1>2
  <2>1. CASE RelayWrite(c)
    <3>1. UNCHANGED <<mpc, left>> /\ (NotifyActivity \/ UNCHANGED <<activity, quiet>>)
      BY <2>1 DEF RelayWrite
    <3>. QED BY <3>1, TimerNotified, TimerUntouched
  <2>2. CASE RelayRead(c) \/ RelayEOF(c) \/ RelayReadFailed(c) \/ RelayWriteFailed(c) \/ Watcher(c)
    BY <2>2, TimerUntouched
    DEF RelayRead, RelayEOF, RelayReadFailed, RelayWriteFailed, RelayReturns, Watcher
  <2>. QED BY <2>1, <2>2 DEF Relay
<1>3. CASE MonitorActivity
  BY <1>0, <1>3 DEF MonitorActivity, UnchangedByMonitor, TimerCovers
<1>4. CASE MonitorStops \/ MonitorIdle \/ MonitorCloses
  BY <1>4 DEF MonitorStops, MonitorIdle, MonitorCloses, TimerCovers
<1>5. CASE Tick
  <2>1. /\ mpc = "run" /\ mpc' = "run" /\ left' = left - 1 /\ activity' = activity
        /\ quiet' = (IF quiet < IdleTimeout THEN quiet + 1 ELSE quiet)
    BY <1>5 DEF Tick
  <2>2. quiet + left >= IdleTimeout => quiet' + left' >= IdleTimeout \/ quiet' = IdleTimeout
    BY <1>0, <2>1
  <2>3. left' >= 0
    BY <1>0, <1>5 DEF Tick
  <2>. QED BY <1>0, <2>1, <2>2, <2>3 DEF TimerCovers
<1>6. CASE \/ ParentCancel \/ UNCHANGED vars
           \/ \E c \in Conns : PeerSends(c) \/ PeerEnds(c) \/ PeerResets(c) \/ PeerStalls(c)
  BY <1>6, TimerUntouched
  DEF ParentCancel, PeerSends, PeerEnds, PeerResets, PeerStalls, UnchangedByPeers, vars
<1>. QED BY <1>1, <1>2, <1>3, <1>4, <1>5, <1>6 DEF Next, Monitor

\* monitorIdle gives up a connection over which a buffer was forwarded within the
\* last IdleTimeout only when that buffer raced the timer.
THEOREM IdleCloseIsCaused == Spec => IdleCloseHasCause
<1>. DEFINE Cause == mpc = "run" /\ mpc' = "closing" => quiet = IdleTimeout \/ activity
<1>1. Types /\ TimerCovers /\ [Next]_vars => [Cause]_vars
  <2>. SUFFICES ASSUME Types, TimerCovers, Next, mpc = "run", mpc' = "closing"
                PROVE  quiet = IdleTimeout \/ activity
    OBVIOUS
  <2>. USE DEF UnchangedByHandler, handlerVars, ctxVars, connVars, relayVars, idleVars, peerVars
  <2>1. CASE Negotiated \/ NegotiateFailed \/ Handler
    BY <2>1
    DEF Handler, Negotiated, NegotiateFailed, Dialed, DialFailed, Replied, ReplyFailed,
        BufferedWritten, BufferedFailed, StartRelay, FirstResult, CloseBoth, SecondResult, Return
  <2>2. CASE \E c \in Conns : Relay(c) \/ Watcher(c)
    BY <2>2
    DEF Relay, RelayRead, RelayEOF, RelayReadFailed, RelayWrite, RelayWriteFailed, RelayReturns,
        Watcher
  <2>3. CASE MonitorIdle
    <3>1. left = 0 /\ (activity \/ quiet + left >= IdleTimeout)
      BY <2>3 DEF MonitorIdle, TimerCovers
    <3>2. quiet \in Int /\ quiet <= IdleTimeout /\ IdleTimeout \in Int
      BY ProxyAssumption DEF Types, IdleType
    <3>. QED BY <3>1, <3>2
  <2>4. CASE MonitorStops \/ MonitorActivity \/ MonitorCloses \/ Tick \/ ParentCancel
    BY <2>4
    DEF MonitorStops, MonitorActivity, MonitorCloses, Tick, UnchangedByMonitor, ParentCancel,
        UnchangedByPeers
  <2>5. CASE \E c \in Conns : PeerSends(c) \/ PeerEnds(c) \/ PeerResets(c) \/ PeerStalls(c)
    BY <2>5 DEF PeerSends, PeerEnds, PeerResets, PeerStalls, UnchangedByPeers
  <2>. QED BY <2>1, <2>2, <2>3, <2>4, <2>5 DEF Next, Monitor
<1>2. Spec => [](Types /\ Control /\ TimerCovers)
  BY TypesInit, TypesStep, ControlInit, ControlStep, TimerInit, TimerStep, PTL DEF Spec
<1>3. Spec => [][Cause]_vars
  BY <1>1, <1>2, PTL DEF Spec
<1>. QED BY <1>3 DEF IdleCloseHasCause

-----------------------------------------------------------------------------
(* The bytes on their way *)

BytesInv == Flow /\ Written

\* Before anything was sent nothing is under way.
LEMMA BytesInit == Init => BytesInv
<1>. SUFFICES ASSUME Init PROVE BytesInv
  OBVIOUS
<1>1. /\ buffered = <<>> /\ hpc = "negotiate"
      /\ \A c \in Conns : in[c] = <<>> /\ buf[c] = <<>> /\ out[c] = <<>> /\ sent[c] = 0
      /\ "client" \in Conns /\ "remote" \in Conns /\ Len(<<>>) = 0
  BY DEF Init, Conns
<1>2. buffered = <<>> /\ \A c \in Conns : Passed(c) = 0 /\ Behind(c) = 0
  BY <1>1 DEF Init, Passed, Behind
<1>4. 0 - 0 = 0 /\ 0 + 0 + 0 + 0 = 0
  OBVIOUS
<1>5. Flow
  BY <1>1, <1>2, <1>4, EmptyRun DEF Flow
<1>3. Written
  BY <1>1, <1>2, EmptyRun DEF Written, Ending
<1>. QED BY <1>3, <1>5 DEF BytesInv

\* Steps in which no byte moves: the handler goes on, a relay does not come back.
LEMMA NoByteMoves ==
  ASSUME BytesInv, UNCHANGED <<buffered, buf, sent, in, out>>,
         \A c \in Conns : rpc[c] = "end" => rpc'[c] = "end",
         \/ hpc' = hpc
         \/ hpc' = "done"
         \/ hpc = "dial" /\ hpc' = "reply"
         \/ hpc = "buffered" /\ hpc' = "relaying"
         \/ hpc = "relaying" /\ hpc' = "closing"
         \/ hpc = "closing" /\ hpc' = "waiting"
  PROVE  BytesInv'
<1>1. \A c \in Conns : Passed(c)' = Passed(c) /\ Behind(c)' = Behind(c)
  BY DEF Passed, Behind
<1>2. Flow'
  BY <1>1 DEF BytesInv, Flow, Run
<1>3. Passed("client")' = Passed("client")
  BY <1>1 DEF Conns
<1>4. Written'
  BY <1>3 DEF BytesInv, Written, Ending, Run
<1>. QED BY <1>2, <1>4 DEF BytesInv

\* Negotiation leaves the first bytes of the client's stream behind the request.
LEMMA NegotiatedBytes ==
  ASSUME Types, Control, BytesInv, Negotiated
  PROVE  BytesInv'
<1>1. PICK k \in 0..MaxBuffered :
        /\ k <= Len(in["client"]) /\ buffered' = SubSeq(in["client"], 1, k)
        /\ in' = [in EXCEPT !["client"] = SubSeq(@, k + 1, Len(@))]
  BY DEF Negotiated
<1>2. /\ hpc = "negotiate" /\ hpc' = "dial" /\ buffered = <<>> /\ Len(buffered) = 0
      /\ "client" \in Conns /\ in \in [Conns -> Seq(Bytes)] /\ rpc["client"] = "off"
      /\ UNCHANGED <<sent, buf, out, rpc>> /\ buf["client"] = <<>> /\ Len(buf["client"]) = 0
  BY DEF Negotiated, UnchangedByHandler, Control, Holding, Phases, Early, Types, PeerType, Conns
<1>3. /\ in["client"] \in Seq(Bytes) /\ Len(in["client"]) \in Nat /\ Len(out["remote"]) \in Nat
      /\ sent["client"] \in Nat /\ k \in 0..Len(in["client"])
  BY <1>1, <1>2, Lengths, ProxyAssumption DEF Conns
<1>. DEFINE p == Len(out["remote"])
            l == Len(in["client"])
            s == sent["client"]
<1>4. p + 0 + 0 + l = s /\ Run(in["client"], s - l)
  <2>1. Passed("client") = p /\ Behind("client") = 0
    BY <1>2 DEF Passed, Behind
  <2>. QED BY <1>2, <2>1 DEF BytesInv, Flow
<1>14. p \in Nat /\ l \in Nat /\ s \in Nat /\ k \in Nat /\ k <= l
  BY <1>1, <1>3
<1>. HIDE DEF p, l, s
<1>5. s - l = p /\ p \in Int /\ p + k = s - (l - k) /\ p + k + 0 + (l - k) = s
  BY <1>4, <1>14
<1>15. p = Len(out["remote"]) /\ l = Len(in["client"]) /\ s = sent["client"]
  BY DEF p, l, s
<1>6. /\ Run(buffered', p) /\ Len(buffered') = k
      /\ Run(in'["client"], p + k) /\ Len(in'["client"]) = l - k
  BY <1>1, <1>2, <1>3, <1>4, <1>5, <1>15, SplitOf
<1>8. Flow'
  <2>. SUFFICES ASSUME NEW c \in Conns
                PROVE  /\ Run(in'[c], sent'[c] - Len(in'[c])) /\ Run(buf'[c], Passed(c)')
                       /\ rpc'[c] # "end" =>
                            Passed(c)' + Behind(c)' + Len(buf'[c]) + Len(in'[c]) = sent'[c]
    BY DEF Flow
  <2>1. CASE c = "client"
    BY <1>2, <1>5, <1>6, <1>15, <2>1, EmptyRun DEF Passed, Behind
  <2>2. CASE c # "client"
    <3>1. in'[c] = in[c] /\ Passed(c)' = Passed(c) /\ Behind(c)' = Behind(c)
      BY <1>1, <1>2, <2>2 DEF Passed, Behind
    <3>. QED BY <1>2, <3>1 DEF BytesInv, Flow
  <2>. QED BY <2>1, <2>2
<1>9. Written'
  BY <1>2, <1>6, <1>15 DEF BytesInv, Written, Passed, Ending, Run
<1>. QED BY <1>8, <1>9 DEF BytesInv

\* The reply is the first thing the client hears, and no byte of the remote end's.
LEMMA ReplyBytes ==
  ASSUME Types, Control, BytesInv, hpc \in {"dial", "reply"},
         NEW r \in {Refusal, Granted}, out' = [out EXCEPT !["client"] = Append(@, r)],
         IF r = Granted THEN hpc' = "buffered" ELSE hpc' = "done",
         UNCHANGED <<buffered, buf, sent, in, rpc>>
  PROVE  BytesInv'
<1>1. out["client"] = <<>> /\ "client" \in Conns /\ out \in [Conns -> Seq(ToPeer)]
  BY DEF BytesInv, Written, Types, PeerType, ToPeer, Conns
<1>2. out'["client"] = <<r>> /\ \A c \in Conns : c # "client" => out'[c] = out[c]
  BY <1>1
<1>3. <<r>> # <<>> /\ Len(<<r>>) = 1 /\ Len(<<>>) = 0 /\ 1 - 1 = 0
  OBVIOUS
<1>4. Passed("client")' = Passed("client") /\ Passed("remote")' = Passed("remote")
  BY <1>1, <1>2, <1>3 DEF Passed, Conns
<1>5. Behind("client")' = Behind("client") /\ Behind("remote")' = Behind("remote")
  BY DEF Behind
<1>6. Flow'
  BY <1>4, <1>5 DEF BytesInv, Flow, Conns
<1>7. (out'["client"] = <<Refusal>> /\ hpc' = "done") \/ Run(out'["client"], -1)
  <2>1. CASE r = Granted
    BY <1>2, <2>1 DEF Run, Granted
  <2>2. CASE r # Granted
    BY <1>2, <2>2
  <2>. QED BY <2>1, <2>2
<1>8. Run(buffered', Passed("client")') /\ Run(out'["remote"], 0)
  BY <1>2, <1>4 DEF BytesInv, Written, Conns
<1>9. /\ hpc' \notin {"negotiate", "dial", "reply"}
      /\ out'["client"] # <<>>
  BY <1>2, <1>3
<1>. QED BY <1>6, <1>7, <1>8, <1>9 DEF BytesInv, Written

\* writeBuffered passes on what was read behind the request.
LEMMA BufferedBytes ==
  ASSUME Types, Control, BytesInv, BufferedWritten
  PROVE  BytesInv'
<1>1. /\ hpc = "buffered" /\ hpc' = hpc /\ buffered' = <<>> /\ Len(<<>>) = 0
      /\ Takes("remote", buffered, Len(buffered)) /\ "remote" \in Conns /\ "client" \in Conns
      /\ UNCHANGED <<rpc, buf, sent, in>> /\ buf["client"] = <<>> /\ rpc["client"] # "end"
  BY DEF BufferedWritten, relayVars, Conns, Control, Phases, Holding, Early
<1>2. /\ buffered \in Seq(Bytes) /\ Len(buffered) \in 0..Len(buffered) /\ Len(buffered) \in Nat
      /\ Len(out["remote"]) \in Nat /\ sent["client"] \in Nat /\ Len(in["client"]) \in Nat
  BY <1>1, Lengths
<1>3. /\ \A d \in Conns : d # "remote" => out'[d] = out[d]
      /\ Len(out'["remote"]) = Len(out["remote"]) + Len(buffered)
      /\ \A a \in Int : Run(out["remote"], a) /\ Run(buffered, a + Len(out["remote"]))
                          => Run(out'["remote"], a)
  BY <1>1, <1>2, TakesMore
<1>4. Run(out'["remote"], 0)
  <2>1. Run(out["remote"], 0) /\ Run(buffered, Len(out["remote"]))
    BY DEF BytesInv, Written, Passed
  <2>2. 0 + Len(out["remote"]) = Len(out["remote"])
    BY <1>2
  <2>. QED BY <1>3, <2>1, <2>2
<1>5. Passed("remote")' = Passed("remote") /\ Behind("remote")' = Behind("remote")
  BY <1>1, <1>3 DEF Passed, Behind, Conns
<1>6. Passed("client")' + 0 + 0 + Len(in["client"]) = sent["client"] /\ Behind("client")' = 0
  <2>1. Len(out["remote"]) + Len(buffered) + 0 + Len(in["client"]) = sent["client"]
    BY <1>1 DEF BytesInv, Flow, Passed, Behind
  <2>2. Passed("client")' = Len(out["remote"]) + Len(buffered) /\ Behind("client")' = 0
    BY <1>1, <1>3 DEF Passed, Behind
  <2>. DEFINE m == Len(out["remote"])
              n == Len(buffered)
              i == Len(in["client"])
  <2>3. m \in Nat /\ n \in Nat /\ i \in Nat
    BY <1>2
  <2>4. m + n + 0 + i = sent["client"] /\ Passed("client")' = m + n
    BY <2>1, <2>2
  <2>. HIDE DEF m, n, i
  <2>5. (m + n) + 0 + 0 + i = sent["client"]
    BY <2>3, <2>4
  <2>. QED BY <2>2, <2>4, <2>5 DEF i
<1>7. Flow'
  BY <1>1, <1>5, <1>6, EmptyRun DEF BytesInv, Flow, Conns
<1>8. Written'
  BY <1>1, <1>3, <1>4, EmptyRun DEF BytesInv, Written, Conns, Ending, Run
<1>. QED BY <1>7, <1>8 DEF BytesInv

\* A relay takes the next bytes of its peer's stream.
LEMMA ReadBytes ==
  ASSUME Types, Control, BytesInv, NEW c \in Conns, RelayRead(c)
  PROVE  BytesInv'
<1>1. PICK n \in 1..Len(in[c]) :
        /\ buf' = [buf EXCEPT ![c] = SubSeq(in[c], 1, n)]
        /\ in' = [in EXCEPT ![c] = SubSeq(@, n + 1, Len(@))]
  BY DEF RelayRead
<1>2. /\ rpc[c] = "read" /\ rpc' = [rpc EXCEPT ![c] = "write"] /\ buf[c] = <<>> /\ Len(buf[c]) = 0
      /\ UNCHANGED <<hpc, buffered, sent, out>> /\ buffered = <<>> /\ Len(buffered) = 0
      /\ rpc \in [Conns -> {"off", "read", "write", "end"}] /\ buf \in [Conns -> Seq(Bytes)]
      /\ in \in [Conns -> Seq(Bytes)]
  BY DEF RelayRead, handlerVars, Control, Holding, Types, RelayType, PeerType
<1>3. /\ in[c] \in Seq(Bytes) /\ Len(in[c]) \in Nat /\ sent[c] \in Nat /\ n \in 0..Len(in[c])
      /\ \A d \in Conns : Len(out[d]) \in Nat
  BY Lengths
<1>4. \A d \in Conns : Passed(d)' = Passed(d) /\ Behind(d)' = Behind(d) /\ Behind(d) = 0
  BY <1>2 DEF Passed, Behind
<1>5. Passed(c) \in Int
  BY <1>3 DEF Passed, Conns
<1>. DEFINE p == Passed(c)
            l == Len(in[c])
<1>6. p + 0 + 0 + l = sent[c] /\ Run(in[c], sent[c] - l)
  BY <1>2, <1>4 DEF BytesInv, Flow
<1>7. sent[c] - l = p /\ p \in Int /\ l \in Nat
  BY <1>3, <1>5, <1>6
<1>8. /\ Run(buf'[c], p) /\ Len(buf'[c]) = n
      /\ Run(in'[c], p + n) /\ Len(in'[c]) = l - n
  BY <1>1, <1>2, <1>3, <1>6, <1>7, SplitOf
<1>. HIDE DEF p, l
<1>9. p + n = sent[c] - (l - n) /\ p + 0 + n + (l - n) = sent[c]
  BY <1>3, <1>6, <1>7
<1>10. Flow'
  <2>. SUFFICES ASSUME NEW d \in Conns
                PROVE  /\ Run(in'[d], sent'[d] - Len(in'[d])) /\ Run(buf'[d], Passed(d)')
                       /\ rpc'[d] # "end" =>
                            Passed(d)' + Behind(d)' + Len(buf'[d]) + Len(in'[d]) = sent'[d]
    BY DEF Flow
  <2>1. CASE d = c
    BY <1>2, <1>4, <1>8, <1>9, <2>1 DEF p
  <2>2. CASE d # c
    <3>1. in'[d] = in[d] /\ buf'[d] = buf[d] /\ rpc'[d] = rpc[d]
      BY <1>1, <1>2, <2>2
    <3>. QED BY <1>2, <1>4, <3>1 DEF BytesInv, Flow
  <2>. QED BY <2>1, <2>2
<1>11. Written'
  BY <1>2 DEF BytesInv, Written, Passed, Run
<1>. QED BY <1>10, <1>11 DEF BytesInv

\* A relay passes on the first bytes it holds.
LEMMA WriteBytes ==
  ASSUME Types, Control, BytesInv, NEW c \in Conns, RelayWrite(c)
  PROVE  BytesInv'
<1>. DEFINE o == Other(c)
<1>1. PICK k \in 1..Len(buf[c]) :
        /\ Takes(o, buf[c], k) /\ buf' = [buf EXCEPT ![c] = SubSeq(@, k + 1, Len(@))]
        /\ rpc' = rpc \/ rpc' = [rpc EXCEPT ![c] = "read"]
  BY DEF RelayWrite
<1>2. /\ rpc[c] = "write" /\ UNCHANGED <<hpc, buffered, sent, in>>
      /\ buffered = <<>> /\ Len(buffered) = 0 /\ hpc \in {"relaying"} \cup Ending
      /\ rpc \in [Conns -> {"off", "read", "write", "end"}] /\ buf \in [Conns -> Seq(Bytes)]
  BY RelayAtWork DEF RelayWrite, handlerVars, Control, Holding, Types, RelayType
<1>3. /\ o \in Conns /\ buf[c] \in Seq(Bytes) /\ Len(buf[c]) \in Nat /\ k \in 0..Len(buf[c])
      /\ Len(in[c]) \in Nat /\ sent[c] \in Nat /\ \A d \in Conns : Len(out[d]) \in Nat
  BY Lengths
<1>4. /\ \A d \in Conns : d # o => out'[d] = out[d]
      /\ Len(out'[o]) = Len(out[o]) + k
      /\ \A a \in Int : Run(out[o], a) /\ Run(buf[c], a + Len(out[o])) => Run(out'[o], a)
  BY <1>1, <1>3, TakesMore
<1>5. out["client"] # <<>> /\ Run(out["client"], -1) /\ Run(out["remote"], 0)
  BY <1>2 DEF BytesInv, Written, Ending
<1>6. /\ Passed("client") = Len(out["remote"]) /\ Passed("client")' = Len(out'["remote"])
      /\ Passed("remote") = Len(out["client"]) - 1
  BY <1>5 DEF Passed
<1>7. o = "client" => out'["client"] # <<>>
  <2>1. Len(out'[o]) # 0
    BY <1>3, <1>4
  <2>. QED BY <2>1
<1>8. Passed("remote")' = Len(out'["client"]) - 1
  BY <1>4, <1>5, <1>7 DEF Passed, Conns
<1>9. Passed(c)' = Passed(c) + k /\ Passed(c) \in Int
  <2>1. CASE c = "client"
    <3>1. o = "remote" /\ Len(out'["remote"]) = Len(out["remote"]) + k /\ Len(out["remote"]) \in Int
      BY <1>3, <1>4, <2>1 DEF Other, Conns
    <3>. QED BY <1>6, <2>1, <3>1
  <2>2. CASE c = "remote"
    <3>1. o = "client" /\ Len(out'["client"]) = Len(out["client"]) + k /\ Len(out["client"]) \in Nat
      BY <1>3, <1>4, <2>2 DEF Other, Conns
    <3>2. \A n, j \in Nat : (n + j) - 1 = (n - 1) + j /\ n - 1 \in Int
      OBVIOUS
    <3>3. k \in Nat
      BY <1>3
    <3>. QED BY <1>6, <1>8, <2>2, <3>1, <3>2, <3>3
  <2>. QED BY <2>1, <2>2 DEF Conns
<1>10. \A d \in Conns : d # c => Passed(d)' = Passed(d)
  BY <1>3, <1>4, <1>6, <1>8 DEF Other, Conns
<1>11. /\ Run(buf[c], Passed(c)) /\ Run(in[c], sent[c] - Len(in[c]))
       /\ Passed(c) + 0 + Len(buf[c]) + Len(in[c]) = sent[c]
  BY <1>2 DEF BytesInv, Flow, Behind
<1>12. Run(buf'[c], Passed(c) + k) /\ Len(buf'[c]) = Len(buf[c]) - k
  BY <1>1, <1>2, <1>3, <1>9, <1>11, SplitOf
<1>13. Run(out'[o], IF o = "client" THEN -1 ELSE 0)
  <2>1. CASE c = "client"
    <3>1. o = "remote" /\ 0 + Len(out["remote"]) = Passed("client")
      BY <1>3, <1>6, <2>1 DEF Other, Conns
    <3>. QED BY <1>4, <1>5, <1>11, <2>1, <3>1
  <2>2. CASE c = "remote"
    <3>1. o = "client" /\ -1 + Len(out["client"]) = Passed("remote") /\ -1 \in Int
      BY <1>3, <1>6, <2>2 DEF Other, Conns
    <3>. QED BY <1>4, <1>5, <1>11, <2>2, <3>1
  <2>. QED BY <2>1, <2>2 DEF Conns
<1>14. Flow'
  <2>. SUFFICES ASSUME NEW d \in Conns
                PROVE  /\ Run(in'[d], sent'[d] - Len(in'[d])) /\ Run(buf'[d], Passed(d)')
                       /\ rpc'[d] # "end" =>
                            Passed(d)' + Behind(d)' + Len(buf'[d]) + Len(in'[d]) = sent'[d]
    BY DEF Flow
  <2>0. Behind(d)' = 0 /\ Behind(d) = 0
    BY <1>2 DEF Behind
  <2>1. CASE d = c
    <3>1. Passed(c) + k + 0 + (Len(buf[c]) - k) + Len(in[c]) = sent[c]
      BY <1>3, <1>9, <1>11
    <3>. QED BY <1>2, <1>9, <1>11, <1>12, <2>0, <2>1, <3>1
  <2>2. CASE d # c
    <3>1. buf'[d] = buf[d] /\ rpc'[d] = rpc[d]
      BY <1>1, <1>2, <2>2
    <3>. QED BY <1>2, <1>10, <2>0, <2>2, <3>1 DEF BytesInv, Flow
  <2>. QED BY <2>1, <2>2
<1>15. Written'
  <2>1. Run(out'["client"], -1) /\ Run(out'["remote"], 0) /\ out'["client"] # <<>>
    BY <1>3, <1>4, <1>5, <1>7, <1>13 DEF Other, Conns
  <2>2. Run(buffered', Passed("client")')
    BY <1>2, EmptyRun
  <2>. QED BY <1>2, <2>1, <2>2 DEF Written, Ending
<1>. QED BY <1>14, <1>15 DEF BytesInv

\* A relay that returns drops what it holds.
LEMMA ReturnBytes ==
  ASSUME Types, BytesInv, NEW c \in Conns, NEW e, RelayReturns(c, e)
  PROVE  BytesInv'
<1>1. /\ rpc' = [rpc EXCEPT ![c] = "end"] /\ buf' = [buf EXCEPT ![c] = <<>>]
      /\ UNCHANGED <<hpc, buffered, sent, in, out>>
      /\ rpc \in [Conns -> {"off", "read", "write", "end"}] /\ buf \in [Conns -> Seq(Bytes)]
  BY DEF RelayReturns, peerVars, Types, RelayType
<1>2. \A d \in Conns : Passed(d)' = Passed(d) /\ Behind(d)' = Behind(d)
  BY <1>1 DEF Passed, Behind
<1>3. Flow'
  <2>. SUFFICES ASSUME NEW d \in Conns
                PROVE  /\ Run(in'[d], sent'[d] - Len(in'[d])) /\ Run(buf'[d], Passed(d)')
                       /\ rpc'[d] # "end" =>
                            Passed(d)' + Behind(d)' + Len(buf'[d]) + Len(in'[d]) = sent'[d]
    BY DEF Flow
  <2>1. CASE d = c
    BY <1>1, <2>1, EmptyRun DEF BytesInv, Flow
  <2>2. CASE d # c
    BY <1>1, <1>2, <2>2 DEF BytesInv, Flow
  <2>. QED BY <2>1, <2>2
<1>4. Passed("client")' = Passed("client")
  BY <1>2 DEF Conns
<1>5. Written'
  BY <1>1, <1>4 DEF BytesInv, Written
<1>. QED BY <1>3, <1>5 DEF BytesInv

\* A peer sends its next byte.
LEMMA SendBytes ==
  ASSUME Types, BytesInv, NEW c \in Conns, PeerSends(c)
  PROVE  BytesInv'
<1>1. /\ sent' = [sent EXCEPT ![c] = @ + 1] /\ in' = [in EXCEPT ![c] = Append(@, sent[c] + 1)]
      /\ UNCHANGED <<hpc, buffered, buf, rpc, out>> /\ sent[c] < MaxSend
      /\ sent \in [Conns -> 0..MaxSend] /\ in \in [Conns -> Seq(Bytes)]
  BY DEF PeerSends, UnchangedByPeers, handlerVars, relayVars, Types, PeerType
<1>2. /\ in[c] \in Seq(Bytes) /\ Len(in[c]) \in Nat /\ sent[c] \in Nat
      /\ Len(buf[c]) \in Nat /\ Len(buffered) \in Nat /\ \A d \in Conns : Len(out[d]) \in Nat
      /\ sent[c] + 1 \in Bytes
  <2>1. sent[c] + 1 \in Bytes
    BY <1>1, Lengths, ProxyAssumption DEF Bytes
  <2>. QED BY <2>1, Lengths
<1>. DEFINE a == sent[c] - Len(in[c])
<1>3. a \in Int /\ sent[c] + 1 = a + Len(in[c]) + 1 /\ a = (sent[c] + 1) - (Len(in[c]) + 1)
  BY <1>2
<1>4. Run(in[c], a)
  BY DEF BytesInv, Flow
<1>. HIDE DEF a
<1>5. /\ in'[c] = Append(in[c], sent[c] + 1) /\ sent'[c] = sent[c] + 1
      /\ \A d \in Conns : d # c => in'[d] = in[d] /\ sent'[d] = sent[d]
  BY <1>1
<1>6. Run(in'[c], a) /\ Len(in'[c]) = Len(in[c]) + 1
  BY <1>1, <1>2, <1>3, <1>4, <1>5, AppendOf
<1>7. \A d \in Conns : Passed(d)' = Passed(d) /\ Behind(d)' = Behind(d)
  BY <1>1 DEF Passed, Behind
<1>8. Passed(c) \in Int /\ Behind(c) \in Int
  BY <1>2 DEF Passed, Behind
<1>9. Flow'
  <2>. SUFFICES ASSUME NEW d \in Conns
                PROVE  /\ Run(in'[d], sent'[d] - Len(in'[d])) /\ Run(buf'[d], Passed(d)')
                       /\ rpc'[d] # "end" =>
                            Passed(d)' + Behind(d)' + Len(buf'[d]) + Len(in'[d]) = sent'[d]
    BY DEF Flow
  <2>1. CASE d = c
    <3>1. rpc[c] # "end" => Passed(c) + Behind(c) + Len(buf[c]) + Len(in[c]) = sent[c]
      BY DEF BytesInv, Flow
    <3>2. rpc[c] # "end" => Passed(c) + Behind(c) + Len(buf[c]) + (Len(in[c]) + 1) = sent[c] + 1
      <4>. DEFINE p == Passed(c)
                  b == Behind(c)
                  u == Len(buf[c])
                  i == Len(in[c])
      <4>1. p \in Int /\ b \in Int /\ u \in Int /\ i \in Int
        BY <1>2, <1>8
      <4>2. rpc[c] # "end" => p + b + u + i = sent[c]
        BY <3>1
      <4>. HIDE DEF p, b, u, i
      <4>3. rpc[c] # "end" => p + b + u + (i + 1) = sent[c] + 1
        BY <4>1, <4>2
      <4>. QED BY <4>3 DEF p, b, u, i
    <3>3. Run(buf[c], Passed(c))
      BY DEF BytesInv, Flow
    <3>. QED BY <1>1, <1>3, <1>5, <1>6, <1>7, <2>1, <3>2, <3>3
  <2>2. CASE d # c
    BY <1>1, <1>5, <1>7, <2>2 DEF BytesInv, Flow
  <2>. QED BY <2>1, <2>2
<1>10. Passed("client")' = Passed("client")
  BY <1>7 DEF Conns
<1>11. Written'
  BY <1>1, <1>10 DEF BytesInv, Written
<1>. QED BY <1>9, <1>11 DEF BytesInv

\* Every step keeps the bytes in order and accounted for.
LEMMA BytesStep == Types /\ Control /\ BytesInv /\ [Next]_vars => BytesInv'
<1>. SUFFICES ASSUME Types, Control, BytesInv, [Next]_vars PROVE BytesInv'
  OBVIOUS
<1>. USE DEF UnchangedByHandler, handlerVars, ctxVars, connVars, relayVars, idleVars, peerVars
<1>1. CASE Dialed \/ FirstResult \/ CloseBoth
  BY <1>1, NoByteMoves DEF Dialed, FirstResult, CloseBoth
<1>2. CASE NegotiateFailed \/ ReplyFailed \/ BufferedFailed \/ SecondResult
  BY <1>2, NoByteMoves DEF NegotiateFailed, ReplyFailed, BufferedFailed, SecondResult, Return
<1>3. CASE StartRelay
  <2>1. \A c \in Conns : rpc[c] # "end"
    BY <1>3 DEF StartRelay, Control, Phases, Early
  <2>. QED BY <1>3, <2>1, NoByteMoves DEF StartRelay
<1>4. CASE DialFailed
  <2>1. hpc = "dial" /\ hpc' = "done" /\ UNCHANGED <<buffered, buf, sent, in, rpc>>
    BY <1>4 DEF DialFailed, Return
  <2>2. out' = out \/ out' = [out EXCEPT !["client"] = Append(@, Refusal)]
    BY <1>4 DEF DialFailed, Types, PeerType, Conns
  <2>3. Refusal # Granted
    BY DEF Refusal, Granted
  <2>. QED BY <2>1, <2>2, <2>3, NoByteMoves, ReplyBytes
<1>5. CASE Replied
  BY <1>5, ReplyBytes DEF Replied
<1>6. CASE \E c \in Conns : Relay(c) \/ Watcher(c)
  <2>. PICK c \in Conns : Relay(c) \/ Watcher(c)
    BY <1>6
  <2>1. CASE RelayEOF(c) \/ RelayReadFailed(c) \/ RelayWriteFailed(c)
    BY <2>1, ReturnBytes DEF RelayEOF, RelayReadFailed, RelayWriteFailed
  <2>2. CASE Watcher(c)
    BY <2>2, NoByteMoves DEF Watcher
  <2>. QED BY <2>1, <2>2, ReadBytes, WriteBytes DEF Relay
<1>7. CASE Monitor \/ Tick \/ ParentCancel \/ UNCHANGED vars
  BY <1>7, NoByteMoves
  DEF Monitor, MonitorStops, MonitorActivity, MonitorIdle, MonitorCloses, UnchangedByMonitor,
      Tick, ParentCancel, UnchangedByPeers, vars
<1>8. CASE \E c \in Conns : PeerSends(c) \/ PeerEnds(c) \/ PeerResets(c) \/ PeerStalls(c)
  <2>. PICK c \in Conns : PeerSends(c) \/ PeerEnds(c) \/ PeerResets(c) \/ PeerStalls(c)
    BY <1>8
  <2>1. CASE PeerEnds(c) \/ PeerResets(c) \/ PeerStalls(c)
    BY <2>1, NoByteMoves DEF PeerEnds, PeerResets, PeerStalls, UnchangedByPeers
  <2>. QED BY <2>1, SendBytes
<1>. QED
  BY <1>1, <1>2, <1>3, <1>4, <1>5, <1>6, <1>7, <1>8, NegotiatedBytes, BufferedBytes
  DEF Next, Handler

\* Both streams arrive in order and whole from their first byte on: what writeBuffered
\* forwards and what the relays copy after it join without a gap or a repetition, and
\* no byte of the remote end comes before the reply.
THEOREM StreamsArriveInOrder == Spec => []StreamsInOrder
<1>1. Types /\ BytesInv => StreamsInOrder
  <2>. SUFFICES ASSUME Types, BytesInv PROVE StreamsInOrder
    OBVIOUS
  <2>1. \A i \in DOMAIN out["remote"] : out["remote"][i] = i
    <3>1. DOMAIN out["remote"] = 1..Len(out["remote"])
      BY Lengths, LenProperties DEF Conns
    <3>2. Run(out["remote"], 0)
      BY DEF BytesInv, Written
    <3>. QED BY <3>1, <3>2 DEF Run
  <2>2. Run(out["client"], -1) => \A i \in DOMAIN out["client"] : out["client"][i] = i - 1
    <3>1. DOMAIN out["client"] = 1..Len(out["client"])
      BY Lengths, LenProperties DEF Conns
    <3>. QED BY <3>1 DEF Run
  <2>. QED BY <2>1, <2>2 DEF BytesInv, Written, StreamsInOrder
<1>. QED
  BY <1>1, TypesInit, TypesStep, ControlInit, ControlStep, BytesInit, BytesStep, PTL DEF Spec

-----------------------------------------------------------------------------
(* Clean ends *)

\* No relay has ended.
LEMMA CleanInit == Init => CleanEnds
<1>. SUFFICES ASSUME Init PROVE CleanEnds
  OBVIOUS
<1>1. DOMAIN errc = {}
  BY EmptySeq DEF Init
<1>. QED BY <1>1 DEF Init, CleanEnds, NoResult, Result

\* What a relay that has ended passed on stays as it is: only the relay itself
\* writes to its destination, and its peer has ended.
LEMMA CompleteStays ==
  ASSUME Types, Control, BytesInv, [Next]_vars, NEW c \in Conns, rpc[c] = "end", Complete(c)
  PROVE  Complete(c)'
<1>. USE DEF UnchangedByHandler, handlerVars, ctxVars, connVars, relayVars, idleVars, peerVars
<1>0. /\ hpc \notin Early
      /\ end \in [Conns -> {"no", "eof", "reset"}] /\ sent \in [Conns -> 0..MaxSend]
      /\ end[c] # "no"
  BY DEF Control, Phases, Early, Types, PeerType, Complete
<1>1. ASSUME UNCHANGED out, sent'[c] = sent[c], end'[c] # "no"
      PROVE  Complete(c)'
  BY <1>1 DEF Complete, Passed
<1>2. CASE Negotiated \/ NegotiateFailed \/ Handler
  <2>1. UNCHANGED <<out, sent, end>>
    BY <1>0, <1>2
    DEF Handler, Negotiated, NegotiateFailed, Dialed, DialFailed, Replied, ReplyFailed,
        BufferedWritten, BufferedFailed, StartRelay, FirstResult, CloseBoth, SecondResult,
        Return, Early
  <2>. QED BY <1>0, <1>1, <2>1
<1>3. CASE \E d \in Conns : Relay(d) \/ Watcher(d)
  <2>. PICK d \in Conns : Relay(d) \/ Watcher(d)
    BY <1>3
  <2>1. CASE RelayWrite(d)
    <3>1. PICK k \in 1..Len(buf[d]) : Takes(Other(d), buf[d], k)
      BY <2>1 DEF RelayWrite
    <3>2. /\ k \in 0..Len(buf[d]) /\ buf[d] \in Seq(Bytes) /\ Other(d) \in Conns
      BY Lengths
    <3>3. \A b \in Conns : b # Other(d) => out'[b] = out[b]
      BY <3>1, <3>2, TakesMore
    <3>4. d # c
      BY <2>1 DEF RelayWrite
    <3>5. out'[Other(c)] = out[Other(c)]
      BY <3>3, <3>4 DEF Other, Conns
    <3>6. UNCHANGED <<sent, end>>
      BY <2>1 DEF RelayWrite
    <3>. QED BY <3>5, <3>6 DEF Complete, Passed, Other, Conns
  <2>2. CASE RelayRead(d) \/ RelayEOF(d) \/ RelayReadFailed(d) \/ RelayWriteFailed(d) \/ Watcher(d)
    <3>1. UNCHANGED <<out, sent, end>>
      BY <2>2 DEF RelayRead, RelayEOF, RelayReadFailed, RelayWriteFailed, RelayReturns, Watcher
    <3>. QED BY <1>0, <1>1, <3>1
  <2>. QED BY <2>1, <2>2 DEF Relay
<1>4. CASE Monitor \/ Tick \/ ParentCancel \/ UNCHANGED vars
  <2>1. UNCHANGED <<out, sent, end>>
    BY <1>4
    DEF Monitor, MonitorStops, MonitorActivity, MonitorIdle, MonitorCloses, UnchangedByMonitor,
        Tick, ParentCancel, UnchangedByPeers, vars
  <2>. QED BY <1>0, <1>1, <2>1
<1>5. CASE \E d \in Conns : PeerSends(d) \/ PeerEnds(d) \/ PeerResets(d) \/ PeerStalls(d)
  <2>1. UNCHANGED out /\ sent'[c] = sent[c] /\ end'[c] # "no"
    BY <1>0, <1>5 DEF PeerSends, PeerEnds, PeerResets, PeerStalls, UnchangedByPeers
  <2>. QED BY <1>1, <2>1
<1>. QED BY <1>2, <1>3, <1>4, <1>5 DEF Next

\* A relay that reads the end of its peer's stream has passed on all of it.
LEMMA EOFCompletes ==
  ASSUME Types, Control, BytesInv, NEW c \in Conns, RelayEOF(c)
  PROVE  Complete(c)
<1>1. /\ rpc[c] = "read" /\ in[c] = <<>> /\ end[c] = "eof" /\ buf[c] = <<>> /\ buffered = <<>>
      /\ hpc \in {"relaying"} \cup Ending /\ Len(<<>>) = 0
  BY RelayAtWork DEF RelayEOF, AtEOF, Control, Holding
<1>2. Passed(c) + 0 + 0 + 0 = sent[c]
  BY <1>1 DEF BytesInv, Flow, Behind
<1>3. out["client"] # <<>>
  BY <1>1 DEF BytesInv, Written
<1>4. Passed(c) \in Int
  BY Lengths DEF Passed, Conns
<1>. QED BY <1>1, <1>2, <1>3, <1>4 DEF Complete

\* Every step keeps clean ends complete: a result enters errc, is taken from it, or stays.
LEMMA CleanStep == Types /\ Control /\ BytesInv /\ CleanEnds /\ [Next]_vars => CleanEnds'
<1>. SUFFICES ASSUME Types, Control, BytesInv, CleanEnds, [Next]_vars PROVE CleanEnds'
  OBVIOUS
<1>. USE DEF UnchangedByHandler, handlerVars, ctxVars, connVars, relayVars, idleVars, peerVars
<1>1. /\ errc \in Seq(Results) /\ DOMAIN errc = 1..Len(errc) /\ Len(errc) \in Nat
      /\ \A i \in DOMAIN errc : errc[i].from \in Conns /\ rpc[errc[i].from] = "end"
  BY AtMostTwo DEF Control, OneResultEach
<1>2. \A c \in Conns : rpc[c] = "end" /\ Complete(c) => Complete(c)'
  BY CompleteStays
<1>3. /\ \A i \in DOMAIN errc : \A c \in Conns :
           errc[i].err = "nil" /\ c = errc[i].from => Complete(c)'
      /\ \A c \in Conns : result.err = "nil" /\ c = result.from => Complete(c)'
  BY <1>1, <1>2 DEF CleanEnds, Control, OneResultEach
<1>4. ASSUME \A i \in DOMAIN errc' : \A c \in Conns :
               errc'[i].err = "nil" /\ c = errc'[i].from => Complete(c)',
             \A c \in Conns : result'.err = "nil" /\ c = result'.from => Complete(c)'
      PROVE  CleanEnds'
  <2>1. Types'
    BY TypesStep
  <2>2. /\ \A i \in DOMAIN errc' : errc'[i] \in Results
        /\ result' \in Results \cup {NoResult}
    <3>1. errc' \in Seq(Results) /\ result' \in Results \cup {NoResult}
      BY <2>1 DEF Types, HandlerType
    <3>. QED BY <3>1, ElementOfSeq, LenProperties
  <2>3. /\ \A i \in DOMAIN errc' : errc'[i].from \in Conns
        /\ result'.err = "nil" => result'.from \in Conns
    BY <2>2 DEF Results, NoResult, Result
  <2>. QED BY <1>4, <2>3 DEF CleanEnds, Complete, Passed
<1>5. CASE UNCHANGED <<errc, result>>
  BY <1>3, <1>4, <1>5
<1>6. CASE FirstResult \/ SecondResult
  <2>1. errc # <<>> /\ errc' = Tail(errc) /\ result' \in {result, Head(errc)}
    BY <1>6 DEF FirstResult, SecondResult
  <2>2. /\ Head(errc) = errc[1] /\ 1 \in DOMAIN errc
        /\ \A i \in DOMAIN errc' : i + 1 \in DOMAIN errc /\ errc'[i] = errc[i + 1]
    BY <1>1, <2>1, TailOf
  <2>. QED BY <1>3, <1>4, <2>1, <2>2
<1>7. ASSUME NEW c \in Conns, NEW e \in {"nil", "error"}, RelayReturns(c, e),
             e = "nil" => Complete(c)
      PROVE  CleanEnds'
  <2>1. errc' = Append(errc, Result(c, e)) /\ UNCHANGED <<result, out, sent, end>>
    BY <1>7 DEF RelayReturns
  <2>2. Result(c, e) \in Results /\ Result(c, e).from = c /\ Result(c, e).err = e
    BY DEF Result, Results
  <2>3. /\ DOMAIN errc' = 1..Len(errc) + 1 /\ errc'[Len(errc) + 1] = Result(c, e)
        /\ \A i \in 1..Len(errc) : errc'[i] = errc[i]
    BY <1>1, <2>1, <2>2, AppendOf
  <2>4. \A i \in DOMAIN errc' : i \in DOMAIN errc \/ i = Len(errc) + 1
    BY <1>1, <2>3
  <2>5. e = "nil" => Complete(c)'
    BY <1>7, <2>1 DEF Complete, Passed
  <2>6. \A i \in DOMAIN errc' : \A d \in Conns :
          errc'[i].err = "nil" /\ d = errc'[i].from => Complete(d)'
    <3>. SUFFICES ASSUME NEW i \in DOMAIN errc', NEW d \in Conns,
                         errc'[i].err = "nil", d = errc'[i].from
                  PROVE  Complete(d)'
      OBVIOUS
    <3>1. CASE i \in DOMAIN errc
      BY <1>1, <1>3, <2>3, <3>1
    <3>2. CASE i = Len(errc) + 1
      BY <2>2, <2>3, <2>5, <3>2
    <3>. QED BY <2>4, <3>1, <3>2
  <2>. QED BY <1>3, <1>4, <2>1, <2>6
<1>8. CASE Negotiated \/ NegotiateFailed \/ Handler
  <2>1. FirstResult \/ SecondResult \/ UNCHANGED <<errc, result>>
    BY <1>8
    DEF Handler, Negotiated, NegotiateFailed, Dialed, DialFailed, Replied, ReplyFailed,
        BufferedWritten, BufferedFailed, StartRelay, CloseBoth, Return
  <2>. QED BY <1>5, <1>6, <2>1
<1>9. CASE \E c \in Conns : Relay(c) \/ Watcher(c)
  <2>. PICK c \in Conns : Relay(c) \/ Watcher(c)
    BY <1>9
  <2>1. CASE RelayEOF(c)
    BY <1>7, <2>1, EOFCompletes DEF RelayEOF
  <2>2. CASE RelayReadFailed(c) \/ RelayWriteFailed(c)
    BY <1>7, <2>2 DEF RelayReadFailed, RelayWriteFailed
  <2>3. CASE RelayRead(c) \/ RelayWrite(c) \/ Watcher(c)
    BY <1>5, <2>3 DEF RelayRead, RelayWrite, Watcher
  <2>. QED BY <2>1, <2>2, <2>3 DEF Relay
<1>10. CASE \/ Monitor \/ Tick \/ ParentCancel \/ UNCHANGED vars
            \/ \E c \in Conns : PeerSends(c) \/ PeerEnds(c) \/ PeerResets(c) \/ PeerStalls(c)
  BY <1>5, <1>10
  DEF Monitor, MonitorStops, MonitorActivity, MonitorIdle, MonitorCloses, UnchangedByMonitor,
      Tick, ParentCancel, PeerSends, PeerEnds, PeerResets, PeerStalls, UnchangedByPeers, vars
<1>. QED BY <1>8, <1>9, <1>10 DEF Next

\* proxy returns nil only for a relay that met the end of its peer's stream and had
\* written all of it to the other side, its reply and buffered bytes included.
THEOREM CleanEndsAreComplete == Spec => []CleanEndIsComplete
<1>1. Types /\ CleanEnds => CleanEndIsComplete
  <2>. SUFFICES ASSUME Types, CleanEnds, result.err = "nil"
                PROVE  Len(out[Other(result.from)])
                         = sent[result.from] + (IF result.from = "remote" THEN 1 ELSE 0)
    BY DEF CleanEndIsComplete
  <2>1. result.from \in Conns /\ Complete(result.from)
    BY DEF Types, HandlerType, Results, NoResult, Result, CleanEnds
  <2>2. \A c \in Conns : Len(out[c]) \in Nat /\ sent[c] \in Nat
    BY Lengths
  <2>3. CASE result.from = "client"
    <3>1. Len(out["remote"]) = sent["client"] /\ sent["client"] \in Nat
      BY <2>1, <2>2, <2>3 DEF Complete, Passed
    <3>. QED BY <2>3, <3>1 DEF Other
  <2>4. CASE result.from = "remote"
    <3>1. Len(out["client"]) - 1 = sent["remote"] /\ Len(out["client"]) \in Nat
      BY <2>1, <2>2, <2>4 DEF Complete, Passed, Conns
    <3>. QED BY <2>2, <2>4, <3>1 DEF Other, Conns
  <2>. QED BY <2>1, <2>3, <2>4 DEF Conns
<1>. QED
  BY <1>1, TypesInit, TypesStep, ControlInit, ControlStep, BytesInit, BytesStep, CleanInit,
     CleanStep, PTL DEF Spec
=============================================================================
