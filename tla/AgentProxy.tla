----------------------------- MODULE AgentProxy -----------------------------
(***************************************************************************)
(* socksagent/agent.go: one proxied connection of the local agent, from    *)
(* the accepted client to the return of its handler.                       *)
(*                                                                         *)
(* Six goroutines: the handler (proxy), two relays, the watcher of each    *)
(* relay, and monitorIdle.  A relay and its watcher are named by the       *)
(* connection the relay reads.  Negotiation of SOCKS5 or HTTP CONNECT is   *)
(* one step that may leave bytes in the request's bufio.Reader.            *)
(*                                                                         *)
(* Connections.  A peer sends, ends its stream, resets, or stops reading   *)
(* for good, after which a Write to it blocks until the connection is      *)
(* closed here.  The client's is a TCP connection; the remote one is a     *)
(* WSConn, of which a Read may hand over what it holds in spite of a       *)
(* deadline or Close, and of which a Write is all or nothing.              *)
(*                                                                         *)
(* Byte i of a peer's stream is the number i.                              *)
(***************************************************************************)
EXTENDS Integers, Sequences

CONSTANTS
  IdleTimeout,   \* ticks of cfg.IdleTimeout; 0 when it is disabled
  MayEnd,        \* the peers that may end their stream or reset
  MayStall,      \* the peers that may stop reading
  MaxSend,       \* bound: bytes a peer sends
  MaxBuffered    \* bound: bytes left behind the request; 0 for SOCKS5

Conns == {"client", "remote"}
Other(c) == IF c = "client" THEN "remote" ELSE "client"

ASSUME ProxyAssumption ==
  /\ IdleTimeout \in Nat /\ MayEnd \subseteq Conns /\ MayStall \subseteq Conns
  /\ MaxSend \in Nat /\ MaxBuffered \in Nat

VARIABLES
  hpc, buffered, errc, result,   \* proxy, its bufio.Reader, errc and what it returns
  parentDone, stopped,           \* parent, and the cancel function of relayCtx
  open, expired,                 \* per connection: not closed here, read deadline passed
  rpc, buf,                      \* relay
  wpc,                           \* the watcher of a relay
  mpc, left, activity,           \* monitorIdle: where it is, its timer, the channel
  sent, in, end, stalled, out,   \* the peers
  quiet                          \* ticks since the last notifyActivity, up to IdleTimeout

handlerVars == <<hpc, buffered, errc, result>>
ctxVars     == <<parentDone, stopped>>
connVars    == <<open, expired>>
relayVars   == <<rpc, buf>>
idleVars    == <<mpc, left, activity, quiet>>
peerVars    == <<sent, in, end, stalled, out>>
vars == <<handlerVars, ctxVars, connVars, relayVars, wpc, idleVars, peerVars>>

Refusal == -1   \* a failure reply in the client's stream
Granted == 0    \* the success reply

Result(c, e) == [from |-> c, err |-> e]
NoResult == Result("none", "none")
Results  == [from : Conns, err : {"nil", "error"}]

CtxDone == parentDone \/ stopped
AllClosed == [c \in Conns |-> FALSE]

Init ==
  /\ hpc = "negotiate" /\ buffered = <<>> /\ errc = <<>> /\ result = NoResult
  /\ parentDone = FALSE /\ stopped = FALSE
  /\ open = [c \in Conns |-> c = "client"] /\ expired = [c \in Conns |-> FALSE]
  /\ rpc = [c \in Conns |-> "off"] /\ buf = [c \in Conns |-> <<>>]
  /\ wpc = [c \in Conns |-> "off"]
  /\ mpc = "off" /\ left = IdleTimeout /\ activity = FALSE /\ quiet = 0
  /\ sent = [c \in Conns |-> 0] /\ in = [c \in Conns |-> <<>>]
  /\ end = [c \in Conns |-> "no"] /\ stalled = {} /\ out = [c \in Conns |-> <<>>]

-----------------------------------------------------------------------------
(* The connections, as Read and Write see them. *)

\* A Read of c returns data, io.EOF or an error.
Hears(c) == c = "remote" \/ (open[c] /\ ~expired[c])
Readable(c) == in[c] # <<>> /\ end[c] # "reset" /\ Hears(c)
AtEOF(c) == in[c] = <<>> /\ end[c] = "eof" /\ Hears(c)
Unreadable(c) == ~open[c] \/ expired[c] \/ end[c] = "reset"

\* A Write to c fails: closed here, reset, or a WebSocket its peer has closed.
Unwritable(c) ==
  ~open[c] \/ end[c] = "reset" \/ (c = "remote" /\ end[c] = "eof")

\* A Write of the bytes s to c makes progress by the first k of them.
Takes(c, s, k) ==
  /\ open[c] /\ end[c] # "reset" /\ c \notin stalled
  /\ k \in IF c = "remote" THEN {Len(s)} ELSE 1..Len(s)
  /\ out' = [out EXCEPT ![c] = @ \o SubSeq(s, 1, k)]

NotifyActivity == activity' = (IdleTimeout > 0) /\ quiet' = 0

-----------------------------------------------------------------------------
(* The handler *)

UnchangedByHandler == <<parentDone, expired, buf, left, quiet>>

\* Every return runs the deferred Close of what is open, and the deferred stop.
Return ==
  /\ hpc' = "done" /\ open' = AllClosed
  /\ UNCHANGED <<UnchangedByHandler, rpc, wpc, mpc, activity, sent, in, end, stalled>>

Negotiated ==
  /\ hpc = "negotiate" /\ hpc' = "dial"
  /\ \E k \in 0..MaxBuffered :
       /\ k <= Len(in["client"]) /\ (k > 0 => Readable("client"))
       /\ buffered' = SubSeq(in["client"], 1, k)
       /\ in' = [in EXCEPT !["client"] = SubSeq(@, k + 1, Len(@))]
  /\ UNCHANGED <<UnchangedByHandler, errc, result, stopped, open, rpc, wpc, mpc, activity,
                 sent, end, stalled, out>>

NegotiateFailed ==
  /\ hpc = "negotiate" /\ Return
  /\ UNCHANGED <<buffered, errc, result, stopped, out>>

Dialed ==
  /\ hpc = "dial" /\ hpc' = "reply"
  /\ open' = [open EXCEPT !["remote"] = TRUE]
  /\ UNCHANGED <<UnchangedByHandler, buffered, errc, result, stopped, rpc, wpc, mpc,
                 activity, peerVars>>

\* Dial's error, dialCtx done among them, is told to the client if it still listens.
DialFailed ==
  /\ hpc = "dial" /\ Return
  /\ out' = [out EXCEPT !["client"] =
               IF end["client"] = "reset" THEN @ ELSE Append(@, Refusal)]
  /\ UNCHANGED <<buffered, errc, result, stopped>>

Replied ==
  /\ hpc = "reply" /\ hpc' = "buffered"
  /\ end["client"] # "reset"
  /\ out' = [out EXCEPT !["client"] = Append(@, Granted)]
  /\ UNCHANGED <<UnchangedByHandler, buffered, errc, result, stopped, open, rpc, wpc, mpc,
                 activity, sent, in, end, stalled>>

ReplyFailed ==
  /\ hpc = "reply" /\ end["client"] = "reset" /\ Return
  /\ UNCHANGED <<buffered, errc, result, stopped, out>>

\* writeBuffered and the notifyActivity after it; nothing watches ctx or the
\* idle time yet.
BufferedWritten ==
  /\ hpc = "buffered" /\ buffered # <<>> /\ buffered' = <<>>
  /\ Takes("remote", buffered, Len(buffered))
  /\ NotifyActivity
  /\ UNCHANGED <<hpc, errc, result, ctxVars, connVars, relayVars, wpc, mpc, left,
                 sent, in, end, stalled>>

BufferedFailed ==
  /\ hpc = "buffered" /\ buffered # <<>> /\ Unwritable("remote") /\ Return
  /\ UNCHANGED <<buffered, errc, result, stopped, out>>

\* Mutant: the bufio.Reader's bytes are not forwarded.
StartRelayUnbuffered ==
  /\ hpc = "buffered" /\ hpc' = "relaying"
  /\ rpc' = [c \in Conns |-> "read"] /\ wpc' = [c \in Conns |-> "wait"]
  /\ mpc' = (IF IdleTimeout > 0 THEN "run" ELSE "off")
  /\ UNCHANGED <<UnchangedByHandler, buffered, errc, result, stopped, open, activity, peerVars>>

\* The go statements; the monitor's timer starts with its full time.
StartRelay ==
  /\ hpc = "buffered" /\ buffered = <<>> /\ hpc' = "relaying"
  /\ rpc' = [c \in Conns |-> "read"] /\ wpc' = [c \in Conns |-> "wait"]
  /\ mpc' = (IF IdleTimeout > 0 THEN "run" ELSE "off")
  /\ UNCHANGED <<UnchangedByHandler, buffered, errc, result, stopped, open, activity, peerVars>>

\* err = <-errc, stop()
FirstResult ==
  /\ hpc = "relaying" /\ errc # <<>> /\ hpc' = "closing"
  /\ result' = Head(errc) /\ errc' = Tail(errc) /\ stopped' = TRUE
  /\ UNCHANGED <<UnchangedByHandler, buffered, open, rpc, wpc, mpc, activity, peerVars>>

\* Mutant: only the destination of the ended relay is closed.
CloseBothOneSide ==
  /\ hpc = "closing" /\ hpc' = "waiting"
  /\ open' = [open EXCEPT ![Other(result.from)] = FALSE]
  /\ UNCHANGED <<UnchangedByHandler, buffered, errc, result, stopped, rpc, wpc, mpc,
                 activity, peerVars>>

CloseBoth ==
  /\ hpc = "closing" /\ hpc' = "waiting" /\ open' = AllClosed
  /\ UNCHANGED <<UnchangedByHandler, buffered, errc, result, stopped, rpc, wpc, mpc,
                 activity, peerVars>>

\* Mutant: proxy returns without waiting for the other relay.
SecondResultUnawaited ==
  /\ hpc = "waiting" /\ Return
  /\ UNCHANGED <<buffered, errc, result, stopped, out>>

SecondResult ==
  /\ hpc = "waiting" /\ errc # <<>> /\ errc' = Tail(errc) /\ Return
  /\ UNCHANGED <<buffered, result, stopped, out>>

Handler ==
  \/ Dialed \/ DialFailed \/ Replied \/ ReplyFailed
  \/ BufferedWritten \/ BufferedFailed \/ StartRelay
  \/ FirstResult \/ CloseBoth \/ SecondResult

-----------------------------------------------------------------------------
(* relay(relayCtx, Other(c), c, activity) and its watcher *)

\* The relay returns: the deferred close(done), then errc <- e.
RelayReturns(c, e) ==
  /\ rpc' = [rpc EXCEPT ![c] = "end"] /\ buf' = [buf EXCEPT ![c] = <<>>]
  /\ errc' = Append(errc, Result(c, e))
  /\ UNCHANGED <<hpc, buffered, result, ctxVars, connVars, wpc, idleVars, peerVars>>

RelayRead(c) ==
  /\ rpc[c] = "read" /\ Readable(c) /\ rpc' = [rpc EXCEPT ![c] = "write"]
  /\ \E n \in 1..Len(in[c]) :
       /\ buf' = [buf EXCEPT ![c] = SubSeq(in[c], 1, n)]
       /\ in' = [in EXCEPT ![c] = SubSeq(@, n + 1, Len(@))]
  /\ UNCHANGED <<handlerVars, ctxVars, connVars, wpc, idleVars, sent, end, stalled, out>>

RelayEOF(c) == rpc[c] = "read" /\ AtEOF(c) /\ RelayReturns(c, "nil")

\* Mutant: a relay that is told to stop ends without a result.
RelayReadFailedUnreported(c) ==
  /\ rpc[c] = "read" /\ Unreadable(c)
  /\ rpc' = [rpc EXCEPT ![c] = "end"]
  /\ errc' = IF CtxDone THEN errc ELSE Append(errc, Result(c, "error"))
  /\ UNCHANGED <<hpc, buffered, result, ctxVars, connVars, buf, wpc, idleVars, peerVars>>

RelayReadFailed(c) == rpc[c] = "read" /\ Unreadable(c) /\ RelayReturns(c, "error")

\* writeAll: the activity is told when the last byte of the buffer is written.
RelayWrite(c) ==
  /\ rpc[c] = "write"
  /\ \E k \in 1..Len(buf[c]) :
       /\ Takes(Other(c), buf[c], k)
       /\ buf' = [buf EXCEPT ![c] = SubSeq(@, k + 1, Len(@))]
       /\ IF k = Len(buf[c])
            THEN rpc' = [rpc EXCEPT ![c] = "read"] /\ NotifyActivity
            ELSE UNCHANGED <<rpc, activity, quiet>>
  /\ UNCHANGED <<handlerVars, ctxVars, connVars, wpc, mpc, left, sent, in, end, stalled>>

\* Mutant: the relay ends without an error when its destination fails.
RelayWriteFailedQuietly(c) ==
  rpc[c] = "write" /\ Unwritable(Other(c)) /\ RelayReturns(c, "nil")

RelayWriteFailed(c) ==
  rpc[c] = "write" /\ Unwritable(Other(c)) /\ RelayReturns(c, "error")

Relay(c) ==
  \/ RelayRead(c) \/ RelayEOF(c) \/ RelayReadFailed(c)
  \/ RelayWrite(c) \/ RelayWriteFailed(c)

\* Mutant: the watcher leaves the read deadline alone.
WatcherWakesOnly(c) ==
  /\ wpc[c] = "wait" /\ (CtxDone \/ rpc[c] = "end") /\ wpc' = [wpc EXCEPT ![c] = "end"]
  /\ UNCHANGED <<handlerVars, ctxVars, connVars, relayVars, idleVars, peerVars>>

Watcher(c) ==
  /\ wpc[c] = "wait" /\ wpc' = [wpc EXCEPT ![c] = "end"]
  /\ \/ CtxDone /\ expired' = [expired EXCEPT ![c] = TRUE]
     \/ rpc[c] = "end" /\ UNCHANGED expired
  /\ UNCHANGED <<handlerVars, ctxVars, open, relayVars, idleVars, peerVars>>

-----------------------------------------------------------------------------
(* monitorIdle *)

UnchangedByMonitor == <<handlerVars, parentDone, expired, relayVars, wpc, peerVars, quiet>>

MonitorStops ==
  /\ mpc = "run" /\ CtxDone /\ mpc' = "end"
  /\ UNCHANGED <<UnchangedByMonitor, stopped, open, left, activity>>

\* Mutant: the timer is not restarted.
MonitorActivityIgnored ==
  /\ mpc = "run" /\ activity /\ activity' = FALSE
  /\ UNCHANGED <<UnchangedByMonitor, stopped, open, mpc, left>>

\* Stop, drain and Reset: a timer that has fired meanwhile is forgotten.
MonitorActivity ==
  /\ mpc = "run" /\ activity /\ activity' = FALSE /\ left' = IdleTimeout
  /\ UNCHANGED <<UnchangedByMonitor, stopped, open, mpc>>

\* onIdle: stop() ...
MonitorIdle ==
  /\ mpc = "run" /\ left = 0 /\ mpc' = "closing" /\ stopped' = TRUE
  /\ UNCHANGED <<UnchangedByMonitor, open, left, activity>>

\* Mutant: onIdle calls stop() only.
MonitorClosesNothing ==
  /\ mpc = "closing" /\ mpc' = "end"
  /\ UNCHANGED <<UnchangedByMonitor, stopped, open, left, activity>>

\* ... and closeBoth().
MonitorCloses ==
  /\ mpc = "closing" /\ mpc' = "end" /\ open' = AllClosed
  /\ UNCHANGED <<UnchangedByMonitor, stopped, left, activity>>

Monitor == MonitorStops \/ MonitorActivity \/ MonitorIdle \/ MonitorCloses

Tick ==
  /\ mpc = "run" /\ left > 0 /\ left' = left - 1
  /\ quiet' = (IF quiet < IdleTimeout THEN quiet + 1 ELSE quiet)
  /\ UNCHANGED <<handlerVars, ctxVars, connVars, relayVars, wpc, mpc, activity, peerVars>>

-----------------------------------------------------------------------------
(* The caller's context and the two peers *)

UnchangedByPeers == <<handlerVars, stopped, connVars, relayVars, wpc, idleVars, out>>

ParentCancel ==
  /\ hpc # "done" /\ ~parentDone /\ parentDone' = TRUE
  /\ UNCHANGED <<UnchangedByPeers, sent, in, end, stalled>>

PeerSends(c) ==
  /\ open[c] /\ end[c] = "no" /\ sent[c] < MaxSend
  /\ sent' = [sent EXCEPT ![c] = @ + 1]
  /\ in' = [in EXCEPT ![c] = Append(@, sent[c] + 1)]
  /\ UNCHANGED <<UnchangedByPeers, parentDone, end, stalled>>

PeerEnds(c) ==
  /\ c \in MayEnd /\ open[c] /\ end[c] = "no" /\ end' = [end EXCEPT ![c] = "eof"]
  /\ UNCHANGED <<UnchangedByPeers, parentDone, sent, in, stalled>>

PeerResets(c) ==
  /\ c \in MayEnd /\ open[c] /\ end[c] # "reset" /\ end' = [end EXCEPT ![c] = "reset"]
  /\ UNCHANGED <<UnchangedByPeers, parentDone, sent, in, stalled>>

PeerStalls(c) ==
  /\ open[c] /\ c \in MayStall \ stalled /\ stalled' = stalled \cup {c}
  /\ UNCHANGED <<UnchangedByPeers, parentDone, sent, in, end>>

-----------------------------------------------------------------------------
Next ==
  \/ Negotiated \/ NegotiateFailed \/ Handler
  \/ \E c \in Conns : Relay(c) \/ Watcher(c)
  \/ Monitor \/ Tick \/ ParentCancel
  \/ \E c \in Conns : PeerSends(c) \/ PeerEnds(c) \/ PeerResets(c) \/ PeerStalls(c)

Spec == Init /\ [][Next]_vars

\* Go schedules what can run and the clock advances.  DialTimeout ends Dial.
\* Nothing makes a client finish its request, or a peer send, end or read.
FairSpec ==
  /\ Spec /\ WF_vars(Handler) /\ WF_vars(Monitor) /\ WF_vars(Tick)
  /\ \A c \in Conns : WF_vars(Relay(c)) /\ WF_vars(Watcher(c))
-----------------------------------------------------------------------------
(* Properties *)

Bytes == 1..MaxSend

HandlerType ==
  /\ hpc \in {"negotiate", "dial", "reply", "buffered", "relaying", "closing",
              "waiting", "done"}
  /\ buffered \in Seq(Bytes)
  /\ errc \in Seq(Results) /\ result \in Results \cup {NoResult}
  /\ parentDone \in BOOLEAN /\ stopped \in BOOLEAN

RelayType ==
  /\ open \in [Conns -> BOOLEAN] /\ expired \in [Conns -> BOOLEAN]
  /\ rpc \in [Conns -> {"off", "read", "write", "end"}]
  /\ buf \in [Conns -> Seq(Bytes)] /\ wpc \in [Conns -> {"off", "wait", "end"}]

IdleType ==
  /\ mpc \in {"off", "run", "closing", "end"} /\ left \in 0..IdleTimeout
  /\ activity \in BOOLEAN /\ quiet \in 0..IdleTimeout

PeerType ==
  /\ sent \in [Conns -> 0..MaxSend] /\ in \in [Conns -> Seq(Bytes)]
  /\ end \in [Conns -> {"no", "eof", "reset"}] /\ stalled \subseteq MayStall
  /\ out \in [Conns -> Seq({Refusal, Granted} \cup Bytes)]

Types == HandlerType /\ RelayType /\ IdleType /\ PeerType

\* errc never blocks a relay, and no result is lost: a relay has ended just when
\* proxy has its result or finds it in errc.
ResultsKept ==
  /\ Len(errc) <= 2
  /\ hpc \in {"relaying", "closing", "waiting"} =>
       \A c \in Conns : rpc[c] = "end" <=>
         c = result.from \/ \E i \in DOMAIN errc : errc[i].from = c

\* The variables have their types, and errc keeps the results of both relays.
TypeOK == Types /\ ResultsKept

\* The remote end receives the client's bytes in order from the first one on, the
\* ones read together with the request among them; the client receives the
\* reply, and after a success the remote end's bytes in order from the first.
StreamsInOrder ==
  /\ \A i \in DOMAIN out["remote"] : out["remote"][i] = i
  /\ out["client"] = <<Refusal>> \/ \A i \in DOMAIN out["client"] : out["client"][i] = i - 1

\* A handler that has returned has left nothing behind: both connections closed,
\* both relays ended, and the context of the watchers and the monitor done.
NothingLeftBehind ==
  hpc = "done" =>
    /\ open = AllClosed
    /\ \A c \in Conns : rpc[c] \in {"off", "end"} /\ (wpc[c] = "wait" => CtxDone)
    /\ mpc = "run" => CtxDone

\* proxy returns nil only when one side has ended its stream and everything that
\* side sent was written to the other one.
CleanEndIsComplete ==
  result.err = "nil" =>
    Len(out[Other(result.from)])
      = sent[result.from] + (IF result.from = "remote" THEN 1 ELSE 0)

\* The monitor gives a connection up only when no buffer was forwarded for a whole
\* IdleTimeout, or when one was forwarded at the very moment the timer fired.
IdleCloseHasCause ==
  [][mpc = "run" /\ mpc' = "closing" => quiet = IdleTimeout \/ activity]_vars

\* Once one relay has ended the handler returns, although the other relay may be
\* blocked in a Read of a silent peer or in a Write to a peer that has stopped
\* reading.
RelayEndsTogether ==
  (\E c \in Conns : rpc[c] = "end") ~> hpc = "done" /\ \A c \in Conns : rpc[c] = "end"

\* With an idle timeout a relayed connection ends when nothing moves, also when
\* both peers have stopped reading, unless the caller's context is cancelled.
IdleRelayEnds == hpc = "relaying" ~> hpc = "done" \/ parentDone

\* A cancelled context ends a relayed connection, however silent its peers are, as
\* long as one of them still reads.
CancelEndsRelay ==
  hpc = "relaying" /\ parentDone ~> hpc = "done" \/ stalled = Conns

\* README.md:183: the agent closes idle proxied connections after the idle timeout,
\* here for a request that has been granted.
IdleConnectionCloses == hpc = "buffered" ~> hpc = "done" \/ parentDone
=============================================================================
