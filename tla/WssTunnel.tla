------------------------------ MODULE WssTunnel ------------------------------
(***************************************************************************)
(* worker/src/response/wss-tunnel.ts: the Worker's end of a WSS tunnel,    *)
(* between the client's WebSocket and a TCP socket to the target, from     *)
(* server.accept() in the route handler to the end of runWssTunnel.        *)
(*                                                                         *)
(* The Worker runs on an event loop: an action is one turn of it, from the *)
(* event or resolved promise that starts the turn to the next await.       *)
(*                                                                         *)
(* The client is Client.Dial of sdk/go and its user: it sends nothing      *)
(* before it has read "OK", and may close or vanish at any moment.  The    *)
(* target sends, ends its stream, resets, or stops reading.  Both channels *)
(* of the WebSocket are in order.  An event that is dispatched while no    *)
(* listener is attached is gone.                                           *)
(*                                                                         *)
(* Message i of either direction is the number i.                          *)
(***************************************************************************)
EXTENDS Integers, Sequences

CONSTANTS
  MaxUp,       \* bound: binary messages the client sends
  MaxText,     \* bound: text messages the client sends
  MaxDown      \* bound: chunks the target sends

ASSUME TunnelAssumption ==
  MaxUp \in Nat /\ MaxText \in Nat /\ MaxDown \in Nat

VARIABLES
  cpc, endCode, up, texts, got,   \* the client: where it is, close code read, sent, read
  c2w, w2c,                     \* the WebSocket, each way
  wpc, readyState,              \* runWssTunnel, ws.readyState
  chain, late, written,         \* writeChain
  awaited,                      \* `await writeChain`: the writes it still waits for
  heard,                        \* history: the uploads received before the target's end
  closedBy,                     \* closed, and what called closeBoth first
  halfOpen,                     \* allowHalfOpen: the target's EOF leaves socket.writable open
  sock, writable, t2w, down, targetEnd   \* the socket and the target

clientVars == <<cpc, endCode, up, texts, got>>
chainVars  == <<chain, late, written, awaited, heard>>
targetVars == <<halfOpen, writable, t2w, down, targetEnd>>
vars == <<clientVars, c2w, w2c, wpc, readyState, chainVars, closedBy, sock, targetVars>>

Msg(kind, n) == [kind |-> kind, no |-> n]
Kinds == {"ok", "err", "data", "text", "close", "eof"}
Messages == [kind : Kinds, no : Nat]

Init ==
  /\ cpc = "waiting" /\ endCode = 0 /\ up = 0 /\ texts = 0 /\ got = <<>>
  /\ c2w = <<>> /\ w2c = <<>>
  /\ wpc = "connecting" /\ readyState = "open"
  /\ chain = <<>> /\ late = FALSE /\ written = <<>> /\ awaited = 0 /\ heard = 0
  /\ closedBy = "none"
  /\ halfOpen \in BOOLEAN
  /\ sock = "none" /\ writable = "ok" /\ t2w = <<>> /\ down = 0 /\ targetEnd = "no"

-----------------------------------------------------------------------------
(* What the Worker's turns are made of. *)

\* safeSend
Send(m) == w2c' = IF readyState = "open" THEN Append(w2c, m) ELSE w2c

\* ws.close(code)
CloseWS(code) ==
  IF readyState = "open"
    THEN readyState' = "closing" /\ w2c' = Append(w2c, Msg("close", code))
    ELSE UNCHANGED <<readyState, w2c>>

\* The target's half of closeBoth.  writer.close() lets a write that has been
\* issued finish; the ones still waiting in the chain will be rejected.
CloseSocket(cause) ==
  IF closedBy = "none"
    THEN closedBy' = cause /\ sock' = "closed" /\ late' = (chain # <<>>)
    ELSE UNCHANGED <<closedBy, sock, late>>

\* Mutant: closeBoth leaves the socket to the end of its readable side.
CloseBothWriterOnly(cause) ==
  /\ IF closedBy = "none"
       THEN CloseWS(1000) /\ closedBy' = cause /\ late' = (chain # <<>>) /\ UNCHANGED sock
       ELSE UNCHANGED <<readyState, w2c, closedBy, sock, late>>

CloseBoth(cause) ==
  /\ IF closedBy = "none" THEN CloseWS(1000) ELSE UNCHANGED <<readyState, w2c>>
  /\ CloseSocket(cause)

-----------------------------------------------------------------------------
(* runWssTunnel *)

\* Mutants: OK is sent when the relay has ended; OK is sent and the relay, with
\* its listeners, is started only once the target has spoken.
ConnectedOKLast ==
  /\ wpc = "connecting" /\ wpc' = "relaying" /\ sock' = "open"
  /\ UNCHANGED <<clientVars, c2w, w2c, readyState, chainVars, closedBy, targetVars>>

ConnectedAfterOK ==
  \/ /\ wpc = "connecting" /\ Send(Msg("ok", 0)) /\ w2c = <<>>
     /\ UNCHANGED <<clientVars, c2w, wpc, readyState, chainVars, closedBy, sock, targetVars>>
  \/ /\ wpc = "connecting" /\ w2c # <<>> /\ wpc' = "relaying" /\ sock' = "open"
     /\ UNCHANGED <<clientVars, c2w, w2c, readyState, chainVars, closedBy, targetVars>>

\* socket.opened resolves: the listeners are attached and the first read is
\* started before OK is sent, all in one turn.
Connected ==
  /\ wpc = "connecting" /\ wpc' = "relaying" /\ sock' = "open"
  /\ Send(Msg("ok", 0))
  /\ UNCHANGED <<clientVars, c2w, readyState, chainVars, closedBy, targetVars>>

ConnectFailed ==
  /\ wpc = "connecting" /\ wpc' = "failed"
  /\ IF readyState = "open"
       THEN /\ readyState' = "closing"
            /\ w2c' = w2c \o <<Msg("err", 0), Msg("close", 1011)>>
       ELSE UNCHANGED <<readyState, w2c>>
  /\ UNCHANGED <<clientVars, c2w, chainVars, closedBy, sock, targetVars>>

Listening == wpc \notin {"connecting", "failed"}

\* The WebSocket dispatches the next event of kind k.
Event(k) == c2w # <<>> /\ Head(c2w).kind = k /\ c2w' = Tail(c2w)

\* The handler of a binary message puts its bytes on the chain; messages are
\* dispatched until the client's close, also after we have called ws.close.
BinaryEvent ==
  /\ Event("data")
  /\ chain' = IF Listening THEN Append(chain, Head(c2w).no) ELSE chain
  /\ heard' = IF wpc = "relaying" THEN heard + 1 ELSE heard
  /\ UNCHANGED <<clientVars, w2c, wpc, readyState, late, written, awaited, closedBy,
                 sock, targetVars>>

TextEvent ==
  /\ Event("text")
  /\ IF Listening THEN CloseWS(1002) ELSE UNCHANGED <<readyState, w2c>>
  /\ UNCHANGED <<clientVars, wpc, chainVars, closedBy, sock, targetVars>>

\* Mutant: only the error event calls closeBoth.
CloseEventIgnored ==
  /\ Event("close") /\ readyState' = "closed"
  /\ UNCHANGED <<clientVars, w2c, wpc, chainVars, closedBy, sock, targetVars>>

\* The close event, or the error event of a connection that broke.
CloseEvent ==
  /\ Event("close") /\ readyState' = "closed"
  /\ IF Listening THEN CloseSocket("client") ELSE UNCHANGED <<closedBy, sock, late>>
  /\ UNCHANGED <<clientVars, w2c, wpc, chain, written, awaited, heard, targetVars>>

\* The head of the chain has settled.
Settles ==
  /\ chain # <<>> /\ chain' = Tail(chain)
  /\ awaited' = IF awaited = 0 THEN 0 ELSE awaited - 1
  /\ late' = FALSE

\* writer.write of the head of the chain resolves: the target's TCP took it.
WriteDone ==
  /\ Settles /\ writable = "ok"
  /\ closedBy = "none" \/ late
  /\ written' = Append(written, Head(chain))
  /\ UNCHANGED <<clientVars, c2w, w2c, wpc, readyState, heard, closedBy, sock, targetVars>>

\* Mutant: a failed write is swallowed, so that the chain goes on as if it had succeeded.
WriteFailedSwallowed ==
  /\ Settles
  /\ writable = "broken" \/ closedBy # "none"
  /\ UNCHANGED <<clientVars, c2w, w2c, wpc, readyState, written, heard, closedBy, sock, targetVars>>

\* ... or rejects, which calls closeBoth; the chain goes on with the next write.
WriteFailed ==
  /\ Settles
  /\ writable = "broken" \/ closedBy # "none"
  /\ IF closedBy = "none"
       THEN CloseWS(1000) /\ closedBy' = "write" /\ sock' = "closed"
       ELSE UNCHANGED <<readyState, w2c, closedBy, sock>>
  /\ UNCHANGED <<clientVars, c2w, wpc, written, heard, targetVars>>

ReadChunk ==
  /\ wpc = "relaying" /\ targetEnd # "reset"
  /\ t2w # <<>> /\ Head(t2w).kind = "data" /\ t2w' = Tail(t2w)
  /\ Send(Head(t2w))
  /\ UNCHANGED <<clientVars, c2w, wpc, readyState, chainVars, closedBy, sock,
                 halfOpen, writable, down, targetEnd>>

\* Mutant: socket.closed, not the end of the readable side, ends the loop.
ReadDoneEarly ==
  /\ wpc = "relaying" /\ wpc' = "flushing"
  /\ closedBy # "none" \/ targetEnd = "eof"
  /\ awaited' = Len(chain)
  /\ UNCHANGED <<clientVars, c2w, w2c, readyState, chain, late, written, heard, closedBy,
                 sock, targetVars>>

\* reader.read() is done: the writes queued so far, and no later ones, are awaited.
ReadDone ==
  /\ wpc = "relaying" /\ wpc' = "flushing"
  /\ closedBy # "none" \/ (t2w # <<>> /\ Head(t2w).kind = "eof")
  /\ awaited' = Len(chain)
  /\ UNCHANGED <<clientVars, c2w, w2c, readyState, chain, late, written, heard, closedBy,
                 sock, targetVars>>

\* `await writeChain` ends when these have settled, however they did.
Flushed ==
  /\ wpc = "flushing" /\ wpc' = "done"
  /\ awaited = 0
  /\ CloseBoth("eof")
  /\ UNCHANGED <<clientVars, c2w, chain, written, awaited, heard, targetVars>>

\* Mutant: a failed read ends the relay and closes nothing.
ReadFailedQuietly ==
  /\ wpc = "relaying" /\ wpc' = "done"
  /\ closedBy # "none" \/ targetEnd = "reset"
  /\ UNCHANGED <<clientVars, c2w, w2c, readyState, chainVars, closedBy, sock, targetVars>>

\* reader.read() rejects: the target reset, or the socket was closed under it.
ReadFailed ==
  /\ wpc = "relaying" /\ wpc' = "done"
  /\ closedBy # "none" \/ targetEnd = "reset"
  /\ CloseBoth("read")
  /\ UNCHANGED <<clientVars, c2w, chain, written, awaited, heard, targetVars>>

-----------------------------------------------------------------------------
(* The client *)

UnchangedByClient == <<wpc, readyState, chainVars, closedBy, sock, targetVars>>

ClientSends ==
  /\ cpc = "open" /\ up < MaxUp
  /\ up' = up + 1 /\ c2w' = Append(c2w, Msg("data", up + 1))
  /\ UNCHANGED <<UnchangedByClient, cpc, endCode, texts, got, w2c>>

\* A client of another make: the SDK sends binary messages only.
ClientSendsText ==
  /\ cpc = "open" /\ texts < MaxText
  /\ texts' = texts + 1 /\ c2w' = Append(c2w, Msg("text", 0))
  /\ UNCHANGED <<UnchangedByClient, cpc, endCode, up, got, w2c>>

\* Close, or Dial's context is cancelled while it waits for OK.
ClientCloses ==
  /\ cpc \in {"waiting", "open"} /\ cpc' = "closed"
  /\ c2w' = Append(c2w, Msg("close", 0))
  /\ UNCHANGED <<UnchangedByClient, endCode, up, texts, got, w2c>>

\* The connection breaks: what was under way is lost.
ClientVanishes ==
  /\ cpc \in {"waiting", "open"} /\ cpc' = "closed"
  /\ \E n \in 0..Len(c2w) : c2w' = Append(SubSeq(c2w, 1, n), Msg("close", 0))
  /\ w2c' = <<>>
  /\ UNCHANGED <<UnchangedByClient, endCode, up, texts, got>>

\* The first message decides Dial: OK opens the connection, all else closes it.
DialReads ==
  /\ cpc = "waiting" /\ w2c # <<>> /\ w2c' = Tail(w2c)
  /\ IF Head(w2c).kind = "ok"
       THEN cpc' = "open" /\ UNCHANGED <<c2w, endCode>>
       ELSE /\ cpc' = "closed" /\ c2w' = Append(c2w, Msg("close", 0))
            /\ endCode' = IF Head(w2c).kind = "close" THEN Head(w2c).no ELSE endCode
  /\ UNCHANGED <<UnchangedByClient, up, texts, got>>

ClientReads ==
  /\ cpc = "open" /\ w2c # <<>> /\ w2c' = Tail(w2c)
  /\ IF Head(w2c).kind = "close"
       THEN /\ cpc' = "closed" /\ endCode' = Head(w2c).no
            /\ c2w' = Append(c2w, Msg("close", 0))
            /\ UNCHANGED got
       ELSE got' = Append(got, Head(w2c).no) /\ UNCHANGED <<cpc, endCode, c2w>>
  /\ UNCHANGED <<UnchangedByClient, up, texts>>

-----------------------------------------------------------------------------
(* The target *)

UnchangedByTarget == <<clientVars, c2w, w2c, wpc, readyState, chainVars, closedBy, halfOpen, sock>>

TargetSends ==
  /\ sock = "open" /\ targetEnd = "no" /\ down < MaxDown
  /\ down' = down + 1 /\ t2w' = Append(t2w, Msg("data", down + 1))
  /\ UNCHANGED <<UnchangedByTarget, writable, targetEnd>>

TargetEnds ==
  /\ sock = "open" /\ targetEnd = "no" /\ targetEnd' = "eof"
  /\ t2w' = Append(t2w, Msg("eof", 0))
  /\ UNCHANGED <<UnchangedByTarget, writable, down>>

\* Without allowHalfOpen the runtime closes socket.writable once the EOF is read, which
\* rejects a write that the target does not take. connectTarget asks for allowHalfOpen
\* when the tunnel's target speaks TLS.
WritableCloses ==
  /\ targetEnd = "eof" /\ ~halfOpen /\ wpc \in {"flushing", "done"}
  /\ writable = "ok" /\ writable' = "broken"
  /\ UNCHANGED <<UnchangedByTarget, t2w, down, targetEnd>>

TargetResets ==
  /\ sock = "open" /\ targetEnd # "reset" /\ targetEnd' = "reset"
  /\ writable' = "broken"
  /\ UNCHANGED <<UnchangedByTarget, t2w, down>>

-----------------------------------------------------------------------------
Dispatch == BinaryEvent \/ TextEvent \/ CloseEvent
Relay == ReadChunk \/ ReadDone \/ Flushed \/ ReadFailed

Next ==
  \/ Connected \/ ConnectFailed \/ Dispatch \/ Relay \/ WriteDone \/ WriteFailed
  \/ ClientSends \/ ClientSendsText \/ ClientCloses \/ ClientVanishes
  \/ DialReads \/ ClientReads
  \/ TargetSends \/ TargetEnds \/ WritableCloses \/ TargetResets

Spec == Init /\ [][Next]_vars

\* connect() succeeds or fails in the end, and the event loop runs what is ready.
\* The network delivers.  Nothing makes the target send, end or read.
FairSpec ==
  /\ Spec
  /\ WF_vars(Connected \/ ConnectFailed)
  /\ WF_vars(Dispatch) /\ WF_vars(Relay) /\ WF_vars(WriteFailed)
  /\ WF_vars(WritableCloses)
  /\ WF_vars(DialReads \/ ClientReads)
-----------------------------------------------------------------------------
(* Properties *)

\* The variables have their types, and closeBoth closes both: once it has run the
\* socket is closed and nothing more goes to the client.
TypeOK ==
  /\ cpc \in {"waiting", "open", "closed"} /\ endCode \in {0, 1000, 1002, 1011}
  /\ up \in 0..MaxUp /\ texts \in 0..MaxText /\ got \in Seq(1..MaxDown)
  /\ c2w \in Seq(Messages) /\ w2c \in Seq(Messages) /\ t2w \in Seq(Messages)
  /\ wpc \in {"connecting", "relaying", "flushing", "done", "failed"}
  /\ readyState \in {"open", "closing", "closed"}
  /\ chain \in Seq(1..MaxUp) /\ written \in Seq(1..MaxUp) /\ late \in BOOLEAN
  /\ awaited \in 0..MaxUp /\ heard \in Nat
  /\ closedBy \in {"none", "client", "write", "read", "eof"}
  /\ halfOpen \in BOOLEAN
  /\ sock \in {"none", "open", "closed"} /\ writable \in {"ok", "broken"}
  /\ down \in 0..MaxDown /\ targetEnd \in {"no", "eof", "reset"}
  /\ closedBy # "none" => sock = "closed" /\ readyState # "open"

\* What reaches the target is what the client sent, in order and from the first
\* message on, as long as the client waits for OK: no listener is attached late.
UploadsAreAPrefix == \A i \in DOMAIN written : written[i] = i

\* Dial never takes target data, or anything but OK, ERR or a close, for the answer.
AnswerComesFirst ==
  cpc = "waiting" /\ w2c # <<>> => Head(w2c).kind \in {"ok", "err", "close"}

\* A tunnel that the target's end closes has lost no upload: each message received
\* before that end was read is written, although writes may fail, and messages come,
\* while the others are awaited.
FlushedBeforeClose == closedBy = "eof" => Len(written) >= heard

\* A client that reads the normal close caused by the target's end has read
\* everything the target sent, in order.
CleanEndIsComplete == endCode = 1000 /\ closedBy = "eof" => got = [i \in 1..down |-> i]

\* A close of the client that reaches a tunnel with its relay up closes the target's
\* socket, also when the target neither reads nor ends.
ClientEndClosesTarget ==
  cpc = "closed" /\ Listening /\ readyState # "closed" ~> sock = "closed"

\* A target that ends or resets closes the client's side, whether or not it still
\* reads; except that with allowHalfOpen an upload it never takes is awaited for ever.
TargetEndClosesClient ==
  targetEnd # "no" ~>
    \/ cpc = "closed"
    \/ [](halfOpen /\ targetEnd = "eof" /\ wpc = "flushing" /\ awaited > 0)

\* docs/protocol.md:248: closing either side closes both sides.
ClosingEitherClosesBoth == cpc = "closed" ~> [](sock # "open")
=============================================================================
