------------------------------- MODULE WSConn -------------------------------
(***************************************************************************)
(* sdk/go/wsconn.go: a net.Conn over one WebSocket.                        *)
(*                                                                         *)
(* Several goroutines may call Read, Write, Close and Set*Deadline at any  *)
(* moment; readLoop is a goroutine of the connection itself.  Every step   *)
(* between two accesses to state another goroutine can change is an action *)
(* of its own, so all their interleavings are behaviours.                  *)
(*                                                                         *)
(* Go channels.  A goroutine that reaches a select picks any ready case    *)
(* and parks when none is ready; a parked goroutine is released by the     *)
(* operation that makes one of its cases ready, and is then committed to   *)
(* that case.  The hand-over on the unbuffered channel `messages` needs    *)
(* one parked side and one arriving side.                                  *)
(*                                                                         *)
(* Data.  Byte i of the peer's stream is the number i.  A WebSocket        *)
(* message is the prefix of the unread stream that ws.Read returns, its    *)
(* length chosen when it is read: message boundaries are the peer's choice *)
(* and nothing but ws.Read looks at them.  What a Write sends is one       *)
(* message named by its writer and the number of the call.                 *)
(***************************************************************************)
EXTENDS Integers, Sequences, FiniteSets

CONSTANTS
  Readers,    \* goroutines that call Read
  Writers,    \* goroutines that call Write
  MaxBytes,   \* bound: bytes the peer sends
  MaxMsg,     \* bound: bytes in one WebSocket message
  MaxEmpty,   \* bound: empty messages the peer sends
  MaxBuf,     \* bound: len(p) of a Read
  MaxTime,    \* bound: last instant of the clock
  MaxCalls    \* bound: Write calls of one writer

ASSUME ConstantsAssumption ==
  /\ MaxBytes \in Nat /\ MaxMsg \in Nat /\ MaxEmpty \in Nat
  /\ MaxBuf \in Nat \ {0} /\ MaxTime \in Nat /\ MaxCalls \in Nat

VARIABLES
  ctxDone, wsOpen, closer,             \* c.ctx, the socket, the body of closeOnce
  now, readDeadline, writeDeadline,
  rpc, arm, pending, lastRead, failed, delivered,   \* Read
  lpc, held, loopErr, readErr,                      \* readLoop
  wpc, warm, writeLock, out, calls, wres,           \* Write
  sent, inbound, empties, peerEnd                   \* the peer, as ws.Read sees it

ctlVars   == <<ctxDone, wsOpen, closer>>
timeVars  == <<now, readDeadline, writeDeadline>>
readVars  == <<rpc, arm, pending, lastRead, failed, delivered>>
loopVars  == <<lpc, held, loopErr, readErr>>
writeVars == <<wpc, warm, writeLock, out, calls, wres>>
peerVars  == <<sent, inbound, empties, peerEnd>>
vars == <<ctlVars, timeVars, readVars, loopVars, writeVars, peerVars>>

-----------------------------------------------------------------------------
NoDeadline == -1                       \* the zero time.Time
Deadlines  == {NoDeadline} \cup 0..MaxTime
Errors     == {"eof", "closed", "other"}

\* deadlineExpired, and a timer armed for d that is ready to fire.
Due(d) == d # NoDeadline /\ now >= d

\* deadlineSnapshot: the deadline, and whether its `changed` channel has been
\* closed since it was taken.
Snapshot(d) == [dl |-> d, stale |-> FALSE]
Snapshots  == [dl : Deadlines, stale : BOOLEAN]
Unarmed == Snapshot(NoDeadline)         \* the locals of a call outside its select

\* A goroutine parked in a select is released into one of its cases.
Released(pc, P, case) == [p \in P |-> IF pc[p] = "parked" THEN case ELSE pc[p]]

ReadInside == {"top", "expired", "snap", "select", "parked",
               "ended", "timedout", "cancelled"}    \* holds readMu
ReadPC  == {"idle", "lock"} \cup ReadInside
WriteWaiting == {"try", "expired", "snap", "select", "parked",
                 "timedout", "cancelled"}           \* in acquireWriteLock
WriteHolding == {"holding", "writing"}              \* between acquire and release
WritePC == {"idle"} \cup WriteWaiting \cup WriteHolding
LoopPC  == {"read", "offer", "parked", "badtype", "cancelling", "fail", "done"}
Outcomes == Errors \cup {"none", "data", "timeout"}

Init ==
  /\ ctxDone = FALSE /\ wsOpen = TRUE /\ closer = "idle"
  /\ now = 0 /\ readDeadline = NoDeadline /\ writeDeadline = NoDeadline
  /\ rpc = [r \in Readers |-> "idle"] /\ arm = Unarmed
  /\ pending = <<>> /\ lastRead = "none" /\ failed = FALSE /\ delivered = <<>>
  /\ lpc = "read" /\ held = <<>> /\ loopErr = "none" /\ readErr = "none"
  /\ wpc = [w \in Writers |-> "idle"]
  /\ warm = [w \in Writers |-> Unarmed]
  /\ writeLock = TRUE /\ out = <<>>
  /\ calls = [w \in Writers |-> 0] /\ wres = [w \in Writers |-> "none"]
  /\ sent = <<>> /\ inbound = <<>> /\ empties = 0 /\ peerEnd = "open"

-----------------------------------------------------------------------------
(* Read *)

UnchangedByRead  == <<ctlVars, timeVars, writeVars, peerVars>>
UnchangedByWrite == <<ctlVars, timeVars, readVars, loopVars, peerVars>>
UnchangedByLoop  == <<timeVars, peerVars, arm, lastRead, failed, delivered>>

GoRead(r, pc) == rpc' = [rpc EXCEPT ![r] = pc]

ReadMove(r, from, to) ==
  /\ rpc[r] = from /\ GoRead(r, to)
  /\ arm' = IF from = "select" /\ to # "parked" THEN Unarmed ELSE arm
  /\ UNCHANGED <<UnchangedByRead, loopVars, pending, lastRead, failed, delivered>>

\* A return of Read: the outcome is recorded and readMu released.
ReadReturns(r, from, outcome) ==
  /\ rpc[r] = from /\ GoRead(r, "idle")
  /\ lastRead' = outcome
  /\ failed' = (failed \/ outcome \in Errors)
  /\ arm' = Unarmed
  /\ UNCHANGED <<UnchangedByRead, loopVars>>

ReadError(r, from, outcome) ==
  ReadReturns(r, from, outcome) /\ UNCHANGED <<pending, delivered>>

ReadCall(r) == ReadMove(r, "idle", "lock")

ReadLock(r) ==
  (\A q \in Readers : rpc[q] \notin ReadInside) /\ ReadMove(r, "lock", "top")

\* Mutant: a Read keeps only what fits its buffer of a message.
ReadPendingDropsRest(r) ==
  /\ pending # <<>> /\ pending' = <<>>
  /\ delivered' = Append(delivered, Head(pending))
  /\ ReadReturns(r, "top", "data")

\* Bytes left over from an earlier message come first, then a final error.
ReadPending(r) ==
  /\ pending # <<>>
  /\ \E n \in 1..MaxBuf :
       /\ n <= Len(pending)
       /\ delivered' = delivered \o SubSeq(pending, 1, n)
       /\ pending' = SubSeq(pending, n + 1, Len(pending))
  /\ ReadReturns(r, "top", "data")

\* Mutant: the final error is reported before the bytes left over.
ReadErrBeforePending(r) ==
  IF readErr # "none" THEN ReadError(r, "top", readErr)
                      ELSE pending = <<>> /\ ReadMove(r, "top", "expired")

ReadCurrentErr(r) ==
  /\ pending = <<>>
  /\ IF readErr # "none" THEN ReadError(r, "top", readErr)
                         ELSE ReadMove(r, "top", "expired")

ReadExpired(r) ==
  IF Due(readDeadline) THEN ReadError(r, "expired", "timeout")
                       ELSE ReadMove(r, "expired", "snap")

ReadSnapshot(r) ==
  /\ rpc[r] = "snap" /\ GoRead(r, "select")
  /\ arm' = Snapshot(readDeadline)
  /\ UNCHANGED <<UnchangedByRead, loopVars, pending, lastRead, failed, delivered>>

\* The message the loop holds becomes c.pending of the reader that took it.
\* An empty one leaves c.pending empty, which is the `continue` of Read.
HandOver(r, from) ==
  /\ rpc[r] = from /\ GoRead(r, "top")
  /\ pending' = held /\ held' = <<>> /\ lpc' = "read" /\ arm' = Unarmed
  /\ UNCHANGED <<UnchangedByRead, lastRead, failed, delivered, loopErr, readErr>>

\* The cases of the select that a message or the end of the stream makes ready.
ReadEvent(r) ==
  \/ lpc = "parked"   /\ HandOver(r, "select")
  \/ readErr # "none" /\ ReadMove(r, "select", "ended")

\* Mutant: a plain receive from c.messages instead of the select.
ReadPlainReceive(r) ==
  IF lpc = "parked" THEN HandOver(r, "select")
                    ELSE ReadMove(r, "select", "parked")

\* The select: any ready case, or parking when none is ready.  A timer whose
\* instant has come may not have fired yet.
ReadSelect(r) ==
  \/ ReadEvent(r)
  \/ Due(arm.dl)      /\ ReadMove(r, "select", "timedout")
  \/ arm.stale        /\ ReadMove(r, "select", "top")
  \/ ctxDone          /\ ReadMove(r, "select", "cancelled")
  \/ /\ lpc # "parked" /\ readErr = "none" /\ ~arm.stale /\ ~ctxDone
     /\ ReadMove(r, "select", "parked")

ReadTimer(r) == Due(arm.dl) /\ ReadMove(r, "parked", "timedout")

ReadWoken(r) ==
  \/ ReadError(r, "ended", readErr)
  \/ ReadError(r, "timedout", "timeout")
  \/ ReadError(r, "cancelled", "closed")

-----------------------------------------------------------------------------
(* readLoop *)

LoopMove(from, to) ==
  /\ lpc = from /\ lpc' = to
  /\ UNCHANGED <<timeVars, readVars, writeVars>>

\* ws.Read returns a message.  Cancelling the context does not stop a message
\* that has already arrived from being returned.
LoopMessage ==
  /\ LoopMove("read", "offer")
  /\ \E n \in 0..MaxMsg :
       /\ n <= Len(inbound)
       /\ n = 0 => empties < MaxEmpty
       /\ empties' = IF n = 0 THEN empties + 1 ELSE empties
       /\ held' = SubSeq(inbound, 1, n)
       /\ inbound' = SubSeq(inbound, n + 1, Len(inbound))
  /\ UNCHANGED <<ctlVars, loopErr, readErr, sent, peerEnd>>

\* ws.Read fails; normalizeWSError turns a normal close into io.EOF and a
\* cancelled context into net.ErrClosed.  After a cancel the peer's answer to
\* our close frame may be what ws.Read reports.
LoopReadErr ==
  /\ LoopMove("read", "fail")
  /\ \/ loopErr' = "eof" /\ peerEnd = "closed" /\ inbound = <<>>
     \/ loopErr' = "other" /\ peerEnd = "reset"
     \/ loopErr' \in Errors /\ ctxDone
  /\ UNCHANGED <<ctlVars, peerVars, held, readErr>>

\* A message that is not binary: ws.Close(1003), then cancel, then the error.
LoopText ==
  /\ peerEnd = "text" /\ inbound = <<>>
  /\ LoopMove("read", "badtype")
  /\ UNCHANGED <<ctlVars, peerVars, held, loopErr, readErr>>

LoopCloseWS ==
  /\ LoopMove("badtype", "cancelling")
  /\ wsOpen' = FALSE
  /\ UNCHANGED <<ctxDone, closer, peerVars, held, loopErr, readErr>>

\* The cancel function of c.ctx: every parked Read and Write is released.
CancelCallers ==
  /\ ctxDone' = TRUE
  /\ rpc' = Released(rpc, Readers, "cancelled")
  /\ wpc' = Released(wpc, Writers, "cancelled")
  /\ UNCHANGED <<UnchangedByLoop, wsOpen, pending, held, readErr,
                 warm, writeLock, out, calls, wres>>

\* Mutant: readLoop ends without naming the error.
LoopCancelNoError ==
  /\ lpc = "cancelling" /\ lpc' = "fail" /\ UNCHANGED loopErr
  /\ CancelCallers /\ UNCHANGED closer

LoopCancel ==
  /\ lpc = "cancelling" /\ lpc' = "fail" /\ loopErr' = "other"
  /\ CancelCallers /\ UNCHANGED closer

\* Mutant: a plain send on c.messages instead of the select.
LoopPlainSend ==
  \/ lpc = "offer" /\ \E r \in Readers : HandOver(r, "parked")
  \/ /\ \A r \in Readers : rpc[r] # "parked"
     /\ LoopMove("offer", "parked")
     /\ UNCHANGED <<ctlVars, peerVars, held, loopErr, readErr>>

\* The select that hands the message to a Read.
LoopOffer ==
  \/ lpc = "offer" /\ \E r \in Readers : HandOver(r, "parked")
  \/ /\ ctxDone /\ LoopMove("offer", "fail") /\ loopErr' = "closed"
     /\ UNCHANGED <<ctlVars, peerVars, held, readErr>>
  \/ /\ ~ctxDone /\ \A r \in Readers : rpc[r] # "parked"
     /\ LoopMove("offer", "parked")
     /\ UNCHANGED <<ctlVars, peerVars, held, loopErr, readErr>>

\* Mutant: the error is recorded and readDone stays open.
LoopFailSilently ==
  /\ LoopMove("fail", "done")
  /\ readErr' = loopErr
  /\ UNCHANGED <<ctlVars, peerVars, held, loopErr>>

\* setReadErr: the error is recorded and readDone closed.
LoopFail ==
  /\ lpc = "fail" /\ lpc' = "done"
  /\ readErr' = loopErr
  /\ rpc' = Released(rpc, Readers, "ended")
  /\ UNCHANGED <<UnchangedByLoop, ctlVars, writeVars, pending, held, loopErr>>

-----------------------------------------------------------------------------
(* Close and the deadlines *)

\* The body of closeOnce: cancel, then the closing handshake of ws.Close.
CloseCancel ==
  /\ closer = "idle" /\ closer' = "closing"
  /\ CancelCallers
  /\ IF lpc = "parked" THEN lpc' = "fail" /\ loopErr' = "closed"
                       ELSE UNCHANGED <<lpc, loopErr>>

CloseWS ==
  /\ closer = "closing" /\ closer' = "closed"
  /\ wsOpen' = FALSE
  /\ UNCHANGED <<ctxDone, timeVars, readVars, loopVars, writeVars, peerVars>>

\* Mutants: the change is signalled to the calls parked now and to no other.
SetReadWakesParked(t) ==
  /\ readDeadline' = t /\ rpc' = Released(rpc, Readers, "top") /\ UNCHANGED arm

SetWriteWakesParked(t) ==
  /\ writeDeadline' = t /\ wpc' = Released(wpc, Writers, "try") /\ UNCHANGED warm

\* Setting a deadline closes the old `changed` channel, which releases a parked
\* call into its loop and is seen by one that has not reached its select.
SetRead(t) ==
  /\ readDeadline' = t
  /\ rpc' = Released(rpc, Readers, "top")
  /\ arm' = IF \E r \in Readers : rpc[r] = "select"
               THEN [arm EXCEPT !.stale = TRUE] ELSE Unarmed

SetWrite(t) ==
  /\ writeDeadline' = t
  /\ wpc' = Released(wpc, Writers, "try")
  /\ warm' = [w \in Writers |-> IF wpc[w] = "select"
                 THEN [warm[w] EXCEPT !.stale = TRUE] ELSE Unarmed]

\* Callers set the deadline of a direction they use.
SetDeadline(t) ==
  /\ \/ Readers # {} /\ SetRead(t) /\ UNCHANGED <<writeDeadline, wpc, warm>>
     \/ Writers # {} /\ SetWrite(t) /\ UNCHANGED <<readDeadline, rpc, arm>>
     \/ Readers # {} /\ Writers # {} /\ SetRead(t) /\ SetWrite(t)
  /\ UNCHANGED <<ctlVars, now, loopVars, peerVars, pending, lastRead, failed,
                 delivered, writeLock, out, calls, wres>>

Tick ==
  /\ now < MaxTime /\ now' = now + 1
  /\ UNCHANGED <<ctlVars, readDeadline, writeDeadline, readVars, loopVars,
                 writeVars, peerVars>>

-----------------------------------------------------------------------------
(* Write *)

GoWrite(w, pc) == wpc' = [wpc EXCEPT ![w] = pc]

WriteMove(w, from, to) ==
  /\ wpc[w] = from /\ GoWrite(w, to)
  /\ warm' = IF to = "parked" THEN warm ELSE [warm EXCEPT ![w] = Unarmed]
  /\ UNCHANGED <<UnchangedByWrite, writeLock, out, calls, wres>>

\* A return of Write that never held the lock.
WriteGivesUp(w, from, outcome) ==
  /\ wpc[w] = from /\ GoWrite(w, "idle")
  /\ wres' = [wres EXCEPT ![w] = outcome]
  /\ warm' = [warm EXCEPT ![w] = Unarmed]
  /\ UNCHANGED <<UnchangedByWrite, writeLock, out, calls>>

WriteCall(w) ==
  /\ wpc[w] = "idle" /\ GoWrite(w, "try")
  /\ calls[w] < MaxCalls /\ calls' = [calls EXCEPT ![w] = @ + 1]
  /\ wres' = [wres EXCEPT ![w] = "none"]
  /\ UNCHANGED <<UnchangedByWrite, warm, writeLock, out>>

WriteTry(w) ==
  IF ctxDone THEN WriteGivesUp(w, "try", "closed")
             ELSE WriteMove(w, "try", "expired")

WriteExpired(w) ==
  IF Due(writeDeadline) THEN WriteGivesUp(w, "expired", "timeout")
                        ELSE WriteMove(w, "expired", "snap")

WriteSnapshot(w) ==
  /\ wpc[w] = "snap" /\ GoWrite(w, "select")
  /\ warm' = [warm EXCEPT ![w] = Snapshot(writeDeadline)]
  /\ UNCHANGED <<UnchangedByWrite, writeLock, out, calls, wres>>

WriteLocks(w) ==
  /\ wpc[w] = "select" /\ GoWrite(w, "holding")
  /\ writeLock /\ writeLock' = FALSE
  /\ warm' = [warm EXCEPT ![w] = Unarmed]
  /\ UNCHANGED <<UnchangedByWrite, out, calls, wres>>

WriteSelect(w) ==
  \/ WriteLocks(w)
  \/ Due(warm[w].dl) /\ WriteMove(w, "select", "timedout")
  \/ warm[w].stale   /\ WriteMove(w, "select", "try")
  \/ ctxDone         /\ WriteMove(w, "select", "cancelled")
  \/ /\ ~writeLock /\ ~warm[w].stale /\ ~ctxDone
     /\ WriteMove(w, "select", "parked")

WriteTimer(w) == Due(warm[w].dl) /\ WriteMove(w, "parked", "timedout")

WriteWoken(w) ==
  \/ WriteGivesUp(w, "timedout", "timeout")
  \/ WriteGivesUp(w, "cancelled", "closed")

\* releaseWriteLock on the way out: the token goes to a parked Write if there
\* is one, else back into the channel.
ReleaseAndReturn(w, from, outcome) ==
  /\ wpc[w] = from
  /\ wres' = [wres EXCEPT ![w] = outcome]
  /\ \/ \E v \in Writers :
          /\ wpc[v] = "parked"
          /\ wpc' = [wpc EXCEPT ![w] = "idle", ![v] = "holding"]
          /\ warm' = [warm EXCEPT ![v] = Unarmed]
          /\ UNCHANGED writeLock
     \/ /\ \A v \in Writers : wpc[v] # "parked"
        /\ GoWrite(w, "idle") /\ writeLock' = TRUE
        /\ UNCHANGED warm
  /\ UNCHANGED <<UnchangedByWrite, calls>>

\* Mutant: the time-out after the lock was taken keeps the lock.
WriteBeginKeepsLock(w) ==
  IF Due(writeDeadline) THEN WriteGivesUp(w, "holding", "timeout")
                        ELSE WriteMove(w, "holding", "writing")

WriteBegin(w) ==
  IF Due(writeDeadline)
    THEN ReleaseAndReturn(w, "holding", "timeout") /\ UNCHANGED out
    ELSE WriteMove(w, "holding", "writing")

\* ws.Write sends the message, or fails because the context was cancelled or the
\* connection is gone; the message may have left before the failure.
WriteSent(w) ==
  /\ wsOpen
  /\ ReleaseAndReturn(w, "writing", "data")
  /\ out' = Append(out, <<w, calls[w]>>)

\* Mutant: ws.Write runs under the write deadline.
WriteFailedByDeadline(w) ==
  /\ ctxDone \/ ~wsOpen \/ peerEnd # "open" \/ Due(writeDeadline)
  /\ ReleaseAndReturn(w, "writing", IF ctxDone THEN "closed" ELSE "timeout")
  /\ out' \in {out, Append(out, <<w, calls[w]>>)}

WriteFailed(w) ==
  /\ ctxDone \/ ~wsOpen \/ peerEnd # "open"
  /\ ReleaseAndReturn(w, "writing", IF ctxDone THEN "closed" ELSE "other")
  /\ out' \in {out, Append(out, <<w, calls[w]>>)}

-----------------------------------------------------------------------------
(* The peer: bytes, then at most one way of ending. *)

PeerSend ==
  /\ peerEnd = "open" /\ Len(sent) < MaxBytes
  /\ sent' = Append(sent, Len(sent) + 1)
  /\ inbound' = Append(inbound, Len(sent) + 1)
  /\ UNCHANGED <<ctlVars, timeVars, readVars, loopVars, writeVars, empties, peerEnd>>

PeerEnds ==
  /\ peerEnd = "open" /\ peerEnd' \in {"closed", "text", "reset"}
  /\ UNCHANGED <<ctlVars, timeVars, readVars, loopVars, writeVars,
                 sent, inbound, empties>>

-----------------------------------------------------------------------------
ReaderStep(r) ==
  \/ ReadPending(r) \/ ReadCurrentErr(r) \/ ReadExpired(r) \/ ReadSnapshot(r)
  \/ ReadSelect(r) \/ ReadTimer(r) \/ ReadWoken(r)

LoopStep ==
  \/ LoopMessage \/ LoopReadErr \/ LoopText \/ LoopCloseWS \/ LoopCancel
  \/ LoopOffer \/ LoopFail

WriterStep(w) ==
  \/ WriteTry(w) \/ WriteExpired(w) \/ WriteSnapshot(w) \/ WriteSelect(w)
  \/ WriteTimer(w) \/ WriteWoken(w) \/ WriteBegin(w) \/ WriteFailed(w)

Next ==
  \/ \E r \in Readers : ReadCall(r) \/ ReadLock(r) \/ ReaderStep(r)
  \/ LoopStep
  \/ \E w \in Writers : WriteCall(w) \/ WriterStep(w) \/ WriteSent(w)
  \/ CloseCancel \/ CloseWS
  \/ \E t \in Deadlines : SetDeadline(t)
  \/ Tick \/ PeerSend \/ PeerEnds

Spec == Init /\ [][Next]_vars

\* A runnable goroutine runs, timers fire and ws.Read returns what has arrived.
\* readMu hands itself to a waiter it has kept waiting (sync.Mutex's starvation
\* mode).  A select picks among ready cases at random, so a case that is ready
\* again and again is picked in the end.  Nothing makes ws.Write end while the peer does not read.
FairSpec ==
  /\ Spec
  /\ \A r \in Readers :
       WF_vars(ReaderStep(r)) /\ SF_vars(ReadLock(r)) /\ SF_vars(ReadEvent(r))
  /\ WF_vars(LoopStep) /\ WF_vars(CloseWS)
  /\ \A w \in Writers : WF_vars(WriterStep(w))
-----------------------------------------------------------------------------
(* Properties *)

ControlType ==
  /\ ctxDone \in BOOLEAN /\ wsOpen \in BOOLEAN
  /\ closer \in {"idle", "closing", "closed"}
  /\ now \in 0..MaxTime
  /\ readDeadline \in Deadlines /\ writeDeadline \in Deadlines

ReadType ==
  /\ rpc \in [Readers -> ReadPC]
  /\ arm \in Snapshots
  /\ pending \in Seq(Nat) /\ delivered \in Seq(Nat)
  /\ lastRead \in Outcomes /\ failed \in BOOLEAN

LoopType ==
  /\ lpc \in LoopPC /\ held \in Seq(Nat)
  /\ loopErr \in Errors \cup {"none"} /\ readErr \in Errors \cup {"none"}
  /\ lpc \in {"fail", "done"} => loopErr # "none"
  /\ lpc = "done" => readErr # "none"
  /\ \A r \in Readers : rpc[r] = "ended" => readErr # "none"

WriteType ==
  /\ wpc \in [Writers -> WritePC]
  /\ warm \in [Writers -> Snapshots]
  /\ writeLock \in BOOLEAN
  /\ out \in Seq(Writers \X Nat)
  /\ calls \in [Writers -> Nat] /\ wres \in [Writers -> Outcomes]

PeerType ==
  /\ sent \in Seq(Nat) /\ inbound \in Seq(Nat)
  /\ empties \in 0..MaxEmpty
  /\ peerEnd \in {"open", "closed", "text", "reset"}

\* The variables have their types; in particular setReadErr is always given an
\* error and a Read released by readDone finds it, so that the io.EOF that Read
\* falls back to is never used.
TypeOK == ControlType /\ ReadType /\ LoopType /\ WriteType /\ PeerType

\* What callers have read, what is left of the last message, what the loop
\* holds and what has not been read from the socket make up the peer's stream,
\* in order: no timeout, deadline change or concurrent Read loses, repeats or
\* reorders a byte.
StreamIntact == delivered \o pending \o held \o inbound = sent

\* Before the connection is closed locally, a Read that reports io.EOF has come
\* after every byte of the peer.
EofComplete == lastRead = "eof" /\ ~ctxDone => delivered = sent

\* A call parked in its select waits for the deadline now in force: the change
\* of a deadline while the call takes its snapshot or parks is never missed.
ParkedOnCurrentDeadline ==
  /\ \A r \in Readers : rpc[r] = "parked" => arm.dl = readDeadline
  /\ \A w \in Writers : wpc[w] = "parked" => warm[w].dl = writeDeadline

\* Nothing is parked beside what would release it: a message, the end of the
\* stream, a cancelled context or the write token.
NoMissedWakeup ==
  /\ \A r \in Readers : rpc[r] = "parked" =>
       ~ctxDone /\ readErr = "none" /\ lpc # "parked"
  /\ lpc = "parked" => ~ctxDone
  /\ \A w \in Writers : wpc[w] = "parked" => ~ctxDone /\ ~writeLock

\* The write token exists once: in the channel, or with the one Write that is
\* between acquireWriteLock and releaseWriteLock.
OneWriteToken ==
  /\ \A v, w \in Writers :
       wpc[v] \in WriteHolding /\ wpc[w] \in WriteHolding => v = w
  /\ writeLock <=> \A w \in Writers : wpc[w] \notin WriteHolding

\* A Write that timed out has sent nothing, so it can be retried; one that
\* succeeded has sent its message exactly once.
TimedOutWriteUnsent ==
  \A w \in Writers :
    LET copies == {i \in DOMAIN out : out[i] = <<w, calls[w]>>}
    IN  /\ wres[w] = "timeout" => copies = {}
        /\ wres[w] = "data" => Cardinality(copies) = 1

\* What makes these invariants inductive: readMu is exclusive; a reader past the
\* top of its loop has found c.pending empty and readLoop holds no message when it
\* calls ws.Read; a snapshot whose channel is still open is current.
OneReaderInside ==
  \A q, r \in Readers : rpc[q] \in ReadInside /\ rpc[r] \in ReadInside => q = r

Drained ==
  /\ \A r \in Readers : rpc[r] \in ReadInside \ {"top"} => pending = <<>>
  /\ lpc = "read" => held = <<>>

ArmedOnCurrentDeadline ==
  /\ \A r \in Readers : rpc[r] = "select" /\ ~arm.stale => arm.dl = readDeadline
  /\ \A w \in Writers : wpc[w] = "select" /\ ~warm[w].stale => warm[w].dl = writeDeadline

\* The read side promises what ByteStream promises.
Stream == INSTANCE ByteStream WITH outcome <- lastRead, closed <- ctxDone
ImplementsByteStream == Stream!Spec

\* After Close (or a protocol error) every pending Read returns, with no help of
\* the peer or of a deadline.
CloseReleasesReaders ==
  \A r \in Readers : ctxDone /\ rpc[r] # "idle" ~> rpc[r] = "idle"

\* A call waiting past its deadline returns unless the deadline is moved, also
\* while another Write is stuck in ws.Write.
DeadlineReleasesCallers ==
  /\ \A r \in Readers :
       rpc[r] # "idle" /\ Due(readDeadline) ~> rpc[r] = "idle" \/ ~Due(readDeadline)
  /\ \A w \in Writers :
       wpc[w] \in WriteWaiting /\ Due(writeDeadline)
         ~> wpc[w] \notin WriteWaiting \/ ~Due(writeDeadline)

\* Once the peer has ended the stream, every Read returns.
PeerEndReleasesReaders ==
  \A r \in Readers : peerEnd # "open" /\ rpc[r] # "idle" ~> rpc[r] = "idle"
=============================================================================
