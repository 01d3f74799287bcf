------------------------ MODULE WSConnStreamProofs --------------------------
(***************************************************************************)
(* Theorems about WSConn that speak of results and of histories: what a    *)
(* Read that reports the end promises, that the read side implements       *)
(* ByteStream, and what a Write that returned has sent.                    *)
(***************************************************************************)
EXTENDS WSConnProofs, FiniteSetTheorems

-----------------------------------------------------------------------------
(* The end of the stream *)

\* readLoop names io.EOF, with the context alive, only when the peer has closed
\* and nothing is left between the socket and c.pending.
EofAtEnd ==
  loopErr = "eof" /\ ~ctxDone =>
    lpc \in {"fail", "done"} /\ held = <<>> /\ inbound = <<>> /\ peerEnd = "closed"

\* setReadErr is the last thing readLoop does, and what it records is its error.
ErrRecorded == readErr # "none" => lpc = "done" /\ readErr = loopErr

\* A Read woken by the context finds it cancelled.
CancelledInside == \A r \in Readers : rpc[r] = "cancelled" => ctxDone

\* After a Read has failed nothing is left in c.pending, and nothing can get
\* there: readLoop is done or the context is cancelled.
NothingAfterFailure == failed => pending = <<>> /\ (readErr # "none" \/ ctxDone)

EofKept == lastRead = "eof" /\ ~ctxDone => readErr = "eof" /\ pending = <<>>

EndInv == EofAtEnd /\ ErrRecorded /\ CancelledInside /\ NothingAfterFailure /\ EofKept

ReadInv == TypeOK /\ StreamInv /\ WakeInv /\ EndInv

\* Nothing has been read and the loop has not ended.
LEMMA EndInit == Init => EndInv
BY DEF Init, EndInv, EofAtEnd, ErrRecorded, CancelledInside, NothingAfterFailure, EofKept

\* Steps that touch neither the end nor the bytes before it.
LEMMA EndUntouched ==
  ASSUME EndInv,
         UNCHANGED <<lpc, held, inbound, peerEnd, loopErr, readErr, ctxDone,
                     pending, failed, lastRead>>,
         \A r \in Readers : rpc'[r] = "cancelled" => rpc[r] = "cancelled" \/ ctxDone
  PROVE  EndInv'
BY DEF EndInv, EofAtEnd, ErrRecorded, CancelledInside, NothingAfterFailure, EofKept

\* A Read that goes from one place to another hands nothing over.
LEMMA MoveKeepsEnd ==
  ASSUME TypeOK, EndInv, NEW r \in Readers, NEW from, NEW to, ReadMove(r, from, to),
         to = "cancelled" => ctxDone
  PROVE  EndInv'
<1>. rpc \in [Readers -> ReadPC]
  BY DEF TypeOK, ReadType
<1>1. \A q \in Readers : rpc'[q] = "cancelled" => rpc[q] = "cancelled" \/ ctxDone
  BY DEF ReadMove, GoRead
<1>. QED
  BY <1>1, EndUntouched
  DEF ReadMove, UnchangedByRead, ctlVars, loopVars, peerVars

\* A Read returns an outcome that the end of the stream, the context or the clock
\* accounts for.
LEMMA ErrorKeepsEnd ==
  ASSUME TypeOK, EndInv, NEW r \in Readers, NEW from, NEW outcome,
         ReadError(r, from, outcome),
         outcome \in Errors => pending = <<>> /\ (readErr # "none" \/ ctxDone),
         outcome = "eof" => readErr = "eof"
  PROVE  EndInv'
<1>. USE DEF EndInv, ReadError, ReadReturns, UnchangedByRead, ctlVars, loopVars, peerVars
<1>1. EofAtEnd' /\ ErrRecorded'
  BY DEF EofAtEnd, ErrRecorded
<1>2. CancelledInside'
  BY DEF GoRead, CancelledInside, TypeOK, ReadType
<1>3. NothingAfterFailure' /\ EofKept'
  BY DEF NothingAfterFailure, EofKept, Errors
<1>. QED BY <1>1, <1>2, <1>3

\* A message is handed over only while the context is alive and readLoop runs.
LEMMA HandOverKeepsEnd ==
  ASSUME TypeOK, WakeInv, EndInv, NEW r \in Readers, NEW from \in {"select", "parked"},
         HandOver(r, from), from = "select" => lpc = "parked", from = "parked" => lpc = "offer"
  PROVE  EndInv'
<1>1. ~ctxDone /\ lpc \in {"parked", "offer"}
  BY DEF HandOver, WakeInv, NoMissedWakeup
<1>2. readErr = "none" /\ loopErr # "eof" /\ ~failed /\ lastRead # "eof"
  BY <1>1 DEF EndInv, EofAtEnd, ErrRecorded, NothingAfterFailure, EofKept
<1>3. UNCHANGED <<ctxDone, loopErr, readErr, failed, lastRead>>
  BY DEF HandOver, UnchangedByRead, ctlVars
<1>4. CancelledInside'
  BY <1>1 DEF HandOver, GoRead, EndInv, CancelledInside, TypeOK, ReadType
<1>. QED
  BY <1>2, <1>3, <1>4
  DEF EndInv, EofAtEnd, ErrRecorded, NothingAfterFailure, EofKept

\* What a Read returns, and when.
LEMMA ReaderKeepsEnd ==
  ASSUME ReadInv, NEW r \in Readers, ReadCall(r) \/ ReadLock(r) \/ ReaderStep(r)
  PROVE  EndInv'
<1>. TypeOK /\ StreamInv /\ WakeInv /\ EndInv
  BY DEF ReadInv
<1>1. CASE ReadCall(r) \/ ReadLock(r) \/ ReadTimer(r)
  BY <1>1, MoveKeepsEnd DEF ReadCall, ReadLock, ReadTimer
<1>2. CASE ReadPending(r)
  <2>1. ~failed /\ lastRead' = "data" /\ ~failed' /\ GoRead(r, "idle")
        /\ UNCHANGED <<lpc, held, inbound, peerEnd, loopErr, readErr, ctxDone>>
    BY <1>2
    DEF ReadPending, ReadReturns, EndInv, NothingAfterFailure, Errors, UnchangedByRead,
        ctlVars, loopVars, peerVars
  <2>. QED
    BY <2>1
    DEF EndInv, EofAtEnd, ErrRecorded, CancelledInside, NothingAfterFailure, EofKept,
        GoRead, TypeOK, ReadType
<1>3. CASE ReadCurrentErr(r)
  BY <1>3, MoveKeepsEnd, ErrorKeepsEnd DEF ReadCurrentErr
<1>4. CASE ReadExpired(r)
  BY <1>4, MoveKeepsEnd, ErrorKeepsEnd DEF ReadExpired, Errors
<1>5. CASE ReadSnapshot(r)
  <2>1. \A q \in Readers : rpc'[q] = "cancelled" => rpc[q] = "cancelled"
    BY <1>5 DEF ReadSnapshot, GoRead, TypeOK, ReadType
  <2>. QED
    BY <1>5, <2>1, EndUntouched DEF ReadSnapshot, UnchangedByRead, ctlVars, loopVars, peerVars
<1>6. CASE ReadSelect(r)
  <2>1. CASE lpc = "parked" /\ HandOver(r, "select")
    BY <2>1, HandOverKeepsEnd
  <2>2. CASE \E to : ReadMove(r, "select", to) /\ (to = "cancelled" => ctxDone)
    BY <2>2, MoveKeepsEnd
  <2>. QED BY <1>6, <2>1, <2>2 DEF ReadSelect, ReadEvent
<1>7. CASE ReadWoken(r)
  <2>1. rpc[r] \in {"ended", "timedout", "cancelled"} => pending = <<>>
    BY DEF StreamInv, Drained, ReadInside
  <2>2. CASE ReadError(r, "ended", readErr)
    <3>1. rpc[r] = "ended" /\ readErr # "none"
      BY <2>2 DEF ReadError, ReadReturns, TypeOK, LoopType
    <3>. QED BY <2>1, <2>2, <3>1, ErrorKeepsEnd
  <2>3. CASE ReadError(r, "timedout", "timeout")
    BY <2>3, ErrorKeepsEnd DEF Errors
  <2>4. CASE ReadError(r, "cancelled", "closed")
    <3>1. rpc[r] = "cancelled" /\ ctxDone
      BY <2>4 DEF ReadError, ReadReturns, EndInv, CancelledInside
    <3>. QED BY <2>1, <2>4, <3>1, ErrorKeepsEnd
  <2>. QED BY <1>7, <2>2, <2>3, <2>4 DEF ReadWoken
<1>. QED BY <1>1, <1>2, <1>3, <1>4, <1>5, <1>6, <1>7 DEF ReaderStep

\* readLoop records its error when it ends, and offers nothing after it.
LEMMA LoopKeepsEnd ==
  ASSUME ReadInv, LoopStep
  PROVE  EndInv'
<1>. TypeOK /\ StreamInv /\ WakeInv /\ EndInv
  BY DEF ReadInv
<1>. USE DEF EndInv, EofAtEnd, ErrRecorded, CancelledInside, NothingAfterFailure, EofKept
<1>. USE DEF LoopMove, ctlVars, readVars, peerVars
<1>1. CASE LoopMessage \/ LoopText \/ LoopCloseWS
  BY <1>1 DEF LoopMessage, LoopText, LoopCloseWS
<1>2. CASE LoopReadErr
  <2>1. held = <<>> /\ readErr = "none"
    BY <1>2 DEF LoopReadErr, StreamInv, Drained
  <2>. QED BY <1>2, <2>1 DEF LoopReadErr
<1>3. CASE LoopCancel
  BY <1>3 DEF LoopCancel, CancelCallers, UnchangedByLoop
<1>4. CASE LoopOffer
  <2>1. CASE lpc = "offer" /\ \E r \in Readers : HandOver(r, "parked")
    BY <2>1, HandOverKeepsEnd
  <2>2. CASE /\ ctxDone /\ LoopMove("offer", "fail") /\ loopErr' = "closed"
             /\ UNCHANGED <<ctlVars, peerVars, held, readErr>>
    BY <2>2
  <2>3. CASE LoopMove("offer", "parked") /\ UNCHANGED <<ctlVars, peerVars, held, loopErr, readErr>>
    BY <2>3
  <2>. QED BY <1>4, <2>1, <2>2, <2>3 DEF LoopOffer
<1>5. CASE LoopFail
  <2>1. readErr = "none" /\ loopErr # "none"
    BY <1>5 DEF LoopFail, TypeOK, LoopType
  <2>2. \A r \in Readers : rpc'[r] = "cancelled" => rpc[r] = "cancelled"
    BY <1>5 DEF LoopFail, Released
  <2>. QED BY <1>5, <2>1, <2>2 DEF LoopFail, UnchangedByLoop
<1>. QED BY <1>1, <1>2, <1>3, <1>4, <1>5 DEF LoopStep

\* Every step keeps what is known about the end of the stream.
LEMMA EndStep == ReadInv /\ [Next]_vars => EndInv'
<1>. SUFFICES ASSUME ReadInv, [Next]_vars PROVE EndInv'
  OBVIOUS
<1>. TypeOK /\ EndInv
  BY DEF ReadInv
<1>1. CASE \E r \in Readers : ReadCall(r) \/ ReadLock(r) \/ ReaderStep(r)
  BY <1>1, ReaderKeepsEnd
<1>2. CASE LoopStep
  BY <1>2, LoopKeepsEnd
<1>3. CASE \E w \in Writers : WriteCall(w) \/ WriterStep(w) \/ WriteSent(w)
  BY <1>3, EndUntouched
  DEF WriteCall, WriterStep, WriteSent, WriteTry, WriteExpired, WriteSnapshot, WriteSelect,
      WriteLocks, WriteTimer, WriteWoken, WriteBegin, WriteFailed, WriteMove, WriteGivesUp,
      ReleaseAndReturn, UnchangedByWrite, ctlVars, readVars, loopVars, peerVars
<1>4. CASE CloseCancel
  BY <1>4
  DEF CloseCancel, CancelCallers, UnchangedByLoop, peerVars, EndInv, EofAtEnd, ErrRecorded,
      CancelledInside, NothingAfterFailure, EofKept
<1>5. CASE \E t \in Deadlines : SetDeadline(t)
  <2>1. \A r \in Readers : rpc'[r] = "cancelled" => rpc[r] = "cancelled"
    BY <1>5 DEF SetDeadline, SetRead, Released
  <2>. QED BY <1>5, <2>1, EndUntouched DEF SetDeadline, ctlVars, loopVars, peerVars
<1>6. CASE CloseWS \/ Tick \/ UNCHANGED vars
  BY <1>6, EndUntouched DEF CloseWS, Tick, vars, ctlVars, timeVars, readVars, loopVars, peerVars
<1>7. CASE PeerSend \/ PeerEnds
  BY <1>7
  DEF PeerSend, PeerEnds, ctlVars, readVars, loopVars, EndInv, EofAtEnd, ErrRecorded,
      CancelledInside, NothingAfterFailure, EofKept
<1>. QED BY <1>1, <1>2, <1>3, <1>4, <1>5, <1>6, <1>7 DEF Next

\* The invariant of the read side.
LEMMA ReadInvInductive == (Init => ReadInv) /\ (ReadInv /\ [Next]_vars => ReadInv')
BY TypeInit, StreamInit, WakeInit, EndInit, TypeStep, StreamStep, WakeStep, EndStep DEF ReadInv

\* When nothing is left on the way, everything the peer sent has been returned.
LEMMA NothingLeft ==
  ASSUME TypeOK, StreamIntact, pending = <<>>, held = <<>>, inbound = <<>>
  PROVE  delivered = sent
<1>1. delivered \in Seq(Nat)
  BY DEF TypeOK, ReadType
<1>2. delivered \o <<>> = delivered
  BY <1>1, ConcatEmptySeq
<1>. QED BY <1>2 DEF StreamIntact

\* An end that was reported stands behind all data.
LEMMA EndGivesEofComplete == ReadInv => EofComplete
<1>. SUFFICES ASSUME ReadInv, lastRead = "eof", ~ctxDone PROVE delivered = sent
  BY DEF EofComplete
<1>1. pending = <<>> /\ held = <<>> /\ inbound = <<>>
  BY DEF ReadInv, EndInv, EofKept, ErrRecorded, EofAtEnd
<1>. QED BY <1>1, NothingLeft DEF ReadInv, StreamInv

\* Unless the connection was closed on this side, a Read that reports io.EOF has
\* come after every byte of the peer: no message is still held, buffered or
\* unread.
THEOREM EofIsTheEnd == Spec => []EofComplete
BY ReadInvInductive, EndGivesEofComplete, PTL DEF Spec

-----------------------------------------------------------------------------
(* The read side implements ByteStream *)

\* A prefix of a concatenation.
LEMMA PrefixOfConcat ==
  ASSUME NEW S, NEW x \in Seq(S), NEW y \in Seq(S)
  PROVE  /\ SubSeq(x \o y, 1, Len(x)) = x
         /\ Len(x) \in Nat /\ Len(y) \in Nat /\ Len(x \o y) = Len(x) + Len(y)
<1>1. /\ x \o y \in Seq(S) /\ Len(x \o y) = Len(x) + Len(y)
      /\ Len(x) \in Nat /\ Len(y) \in Nat
      /\ \A i \in 1..Len(x) : (x \o y)[i] = x[i]
  BY ConcatProperties, LenProperties
<1>. DEFINE p == SubSeq(x \o y, 1, Len(x))
<1>2. \A i \in 1..Len(x) : (x \o y)[i] \in S
  BY <1>1, ElementOfSeq
<1>3. p \in Seq(S) /\ Len(p) = Len(x) /\ \A i \in 1..Len(x) : p[i] = (x \o y)[i]
  BY <1>1, <1>2, SubSeqProperties
<1>4. \A i \in 1..Len(x) : p[i] = x[i]
  BY <1>1, <1>3
<1>. HIDE DEF p
<1>5. p = x
  BY <1>3, <1>4, SeqEqual
<1>. QED BY <1>1, <1>5 DEF p

\* ReadPending returns the next bytes of the peer's stream, and no Read has failed.
LEMMA DeliverImplements ==
  ASSUME ReadInv, NEW r \in Readers, ReadPending(r), (TypeOK /\ StreamIntact)'
  PROVE  Stream!Deliver
<1>1. PICK n \in 1..MaxBuf :
        n <= Len(pending) /\ delivered' = delivered \o SubSeq(pending, 1, n)
  BY DEF ReadPending
<1>2. n \in Nat \ {0} /\ pending \in Seq(Nat) /\ delivered \in Seq(Nat)
  BY ConstantsAssumption DEF ReadInv, TypeOK, ReadType
<1>3. Len(delivered') = Len(delivered) + n /\ Len(delivered) \in Nat
  <2>1. SubSeq(pending, 1, n) \in Seq(Nat) /\ Len(SubSeq(pending, 1, n)) = n
    <3>1. \A i \in 1..n : pending[i] \in Nat
      BY <1>1, <1>2, ElementOfSeq, LenProperties
    <3>2. 1 \in Int /\ n \in Int
      BY <1>2
    <3>. QED BY <1>2, <3>1, <3>2, SubSeqProperties
  <2>. QED BY <1>1, <1>2, <2>1, ConcatProperties, LenProperties
<1>4. ~failed /\ lastRead' = "data" /\ UNCHANGED <<sent, ctxDone, failed>>
  BY DEF ReadPending, ReadReturns, ReadInv, EndInv, NothingAfterFailure, Errors, UnchangedByRead,
         ctlVars, peerVars, TypeOK, ReadType
<1>. DEFINE rest == (pending' \o held') \o inbound'
<1>5. rest \in Seq(Nat) /\ delivered' \in Seq(Nat) /\ sent' = delivered' \o rest
  <2>1. /\ delivered' \in Seq(Nat) /\ pending' \in Seq(Nat)
        /\ held' \in Seq(Nat) /\ inbound' \in Seq(Nat)
    BY DEF TypeOK, ReadType, LoopType, PeerType
  <2>2. pending' \o held' \in Seq(Nat)
    BY <2>1, ConcatProperties
  <2>3. \A a, b, c \in Seq(Nat) : (a \o b) \o c = a \o (b \o c)
    BY ConcatAssociative
  <2>4. sent' = ((delivered' \o pending') \o held') \o inbound'
    BY DEF StreamIntact
  <2>5. (delivered' \o pending') \o held' = delivered' \o (pending' \o held')
    BY <2>1, <2>3
  <2>6. (delivered' \o (pending' \o held')) \o inbound' = delivered' \o rest
    BY <2>1, <2>2, <2>3
  <2>7. rest \in Seq(Nat)
    BY <2>1, <2>2, ConcatProperties
  <2>. QED BY <2>1, <2>4, <2>5, <2>6, <2>7
<1>. HIDE DEF rest
<1>6. /\ SubSeq(sent', 1, Len(delivered')) = delivered'
      /\ Len(delivered') <= Len(sent') /\ Len(sent') \in Nat
  BY <1>5, PrefixOfConcat
<1>7. Len(delivered') \in Len(delivered) + 1 .. Len(sent)
  BY <1>2, <1>3, <1>4, <1>6
<1>8. delivered' = SubSeq(sent, 1, Len(delivered'))
  BY <1>4, <1>6
<1>9. \E m \in Len(delivered) + 1 .. Len(sent) : delivered' = SubSeq(sent, 1, m)
  BY <1>7, <1>8
<1>. QED BY <1>4, <1>9 DEF Stream!Deliver

\* A Read that returns an error is a Timeout or a Fail of the stream; the new
\* state's EofComplete is the condition on io.EOF.
LEMMA ErrorImplements ==
  ASSUME ReadInv, NEW r \in Readers, NEW from, NEW outcome \in Errors \cup {"timeout"},
         ReadError(r, from, outcome), EofComplete'
  PROVE  Stream!Timeout \/ Stream!Fail
<1>1. /\ UNCHANGED <<sent, delivered, ctxDone>> /\ lastRead' = outcome
      /\ failed' = (failed \/ outcome \in Errors)
  BY DEF ReadError, ReadReturns, UnchangedByRead, ctlVars, peerVars
<1>2. failed \in BOOLEAN
  BY DEF ReadInv, TypeOK, ReadType
<1>3. CASE outcome = "timeout"
  BY <1>1, <1>2, <1>3 DEF Errors, Stream!Timeout
<1>4. CASE outcome \in Errors
  BY <1>1, <1>2, <1>4 DEF Errors, EofComplete, Stream!Fail
<1>. QED BY <1>3, <1>4

\* A Read's step is a step of the byte stream or a stutter.
LEMMA ReaderImplements ==
  ASSUME ReadInv, NEW r \in Readers, ReadCall(r) \/ ReadLock(r) \/ ReaderStep(r),
         (TypeOK /\ StreamIntact /\ EofComplete)'
  PROVE  [Stream!Next]_(Stream!vars)
<1>. USE DEF Stream!vars
<1>1. ASSUME NEW from, NEW to, ReadMove(r, from, to)
      PROVE  UNCHANGED Stream!vars
  BY <1>1 DEF ReadMove, UnchangedByRead, ctlVars, peerVars
<1>2. ASSUME NEW from, NEW outcome \in Errors \cup {"timeout"}, ReadError(r, from, outcome)
      PROVE  Stream!Next
  BY <1>2, ErrorImplements DEF Stream!Next
<1>3. CASE ReadCall(r) \/ ReadLock(r) \/ ReadTimer(r)
  BY <1>1, <1>3 DEF ReadCall, ReadLock, ReadTimer
<1>4. CASE ReadPending(r)
  BY <1>4, DeliverImplements DEF Stream!Next
<1>5. CASE ReadCurrentErr(r) \/ ReadExpired(r)
  <2>1. readErr # "none" => readErr \in Errors
    BY DEF ReadInv, TypeOK, LoopType
  <2>. QED BY <1>1, <1>2, <1>5, <2>1 DEF ReadCurrentErr, ReadExpired
<1>6. CASE ReadSnapshot(r)
  BY <1>6 DEF ReadSnapshot, UnchangedByRead, ctlVars, peerVars
<1>7. CASE ReadSelect(r)
  BY <1>1, <1>7 DEF ReadSelect, ReadEvent, HandOver, UnchangedByRead, ctlVars, peerVars
<1>8. CASE ReadWoken(r)
  <2>1. rpc[r] = "ended" => readErr \in Errors
    BY DEF ReadInv, TypeOK, LoopType
  <2>2. CASE ReadError(r, "ended", readErr)
    BY <1>2, <2>1, <2>2 DEF ReadError, ReadReturns
  <2>3. CASE ReadError(r, "timedout", "timeout") \/ ReadError(r, "cancelled", "closed")
    BY <1>2, <2>3 DEF Errors
  <2>. QED BY <1>8, <2>2, <2>3 DEF ReadWoken
<1>. QED BY <1>3, <1>4, <1>5, <1>6, <1>7, <1>8 DEF ReaderStep

\* A new connection is a new byte stream.
LEMMA StreamInitImplements == Init => Stream!Init
BY DEF Init, Stream!Init

\* Every step is a step of the byte stream or a stutter.
LEMMA StreamStepImplements ==
  ReadInv /\ [Next]_vars /\ ReadInv' /\ EofComplete' => [Stream!Next]_(Stream!vars)
<1>. SUFFICES ASSUME ReadInv, [Next]_vars, ReadInv', EofComplete'
              PROVE  [Stream!Next]_(Stream!vars)
  OBVIOUS
<1>. USE DEF Stream!vars
<1>1. CASE \E r \in Readers : ReadCall(r) \/ ReadLock(r) \/ ReaderStep(r)
  BY <1>1, ReaderImplements DEF ReadInv, StreamInv
<1>2. CASE PeerSend
  BY <1>2 DEF PeerSend, Stream!Next, Stream!Send, ctlVars, readVars
<1>3. CASE CloseCancel \/ LoopCancel
  BY <1>3
  DEF CloseCancel, LoopCancel, CancelCallers, UnchangedByLoop, peerVars, Stream!Next, Stream!Close
<1>4. CASE LoopStep
  BY <1>3, <1>4
  DEF LoopStep, LoopMessage, LoopReadErr, LoopText, LoopCloseWS, LoopOffer, LoopFail, LoopMove,
      HandOver, UnchangedByRead, UnchangedByLoop, ctlVars, readVars, peerVars
<1>5. CASE \E w \in Writers : WriteCall(w) \/ WriterStep(w) \/ WriteSent(w)
  BY <1>5
  DEF WriteCall, WriterStep, WriteSent, WriteTry, WriteExpired, WriteSnapshot, WriteSelect,
      WriteLocks, WriteTimer, WriteWoken, WriteBegin, WriteFailed, WriteMove, WriteGivesUp,
      ReleaseAndReturn, UnchangedByWrite, ctlVars, readVars, peerVars
<1>6. CASE CloseWS \/ Tick \/ PeerEnds \/ \E t \in Deadlines : SetDeadline(t)
  BY <1>6 DEF CloseWS, Tick, PeerEnds, SetDeadline, ctlVars, readVars, peerVars
<1>7. CASE UNCHANGED vars
  BY <1>7 DEF vars, ctlVars, readVars, peerVars
<1>. QED BY <1>1, <1>2, <1>3, <1>4, <1>5, <1>6, <1>7 DEF Next

\* The read side of the connection, with its goroutines, channels and deadlines,
\* is a byte stream: in order, unharmed by time-outs, silent after its end.
THEOREM ReadSideImplementsByteStream == Spec => ImplementsByteStream
<1>1. Spec => [](ReadInv /\ EofComplete)
  BY ReadInvInductive, EndGivesEofComplete, PTL DEF Spec
<1>2. ReadInv /\ [Next]_vars /\ (ReadInv /\ EofComplete)' => [Stream!Next]_(Stream!vars)
  BY StreamStepImplements
<1>. QED BY <1>1, <1>2, StreamInitImplements, PTL DEF Spec, ImplementsByteStream, Stream!Spec

-----------------------------------------------------------------------------
(* Writes *)

\* No message carries the number of a call that was not made.
CallsNumbered == \A w \in Writers : \A i \in DOMAIN out : out[i][1] = w => out[i][2] <= calls[w]

\* A Write under way has sent nothing and has no result yet.
UnderWayUnsent ==
  \A w \in Writers : wpc[w] # "idle" =>
    wres[w] = "none" /\ \A i \in DOMAIN out : out[i] # <<w, calls[w]>>

WriteInv == CallsNumbered /\ UnderWayUnsent /\ TimedOutWriteUnsent

\* Nothing has been written.
LEMMA WriteInit == Init => WriteInv
<1>. SUFFICES ASSUME Init PROVE WriteInv
  OBVIOUS
<1>1. DOMAIN out = {}
  BY EmptySeq DEF Init
<1>. QED BY <1>1 DEF Init, WriteInv, CallsNumbered, UnderWayUnsent, TimedOutWriteUnsent

\* The messages sent, by index.
LEMMA OutType ==
  ASSUME TypeOK
  PROVE  /\ out \in Seq(Writers \X Nat) /\ Len(out) \in Nat /\ DOMAIN out = 1..Len(out)
         /\ \A i \in 1..Len(out) : out[i] \in Writers \X Nat
         /\ wpc \in [Writers -> WritePC] /\ calls \in [Writers -> Nat]
         /\ wres \in [Writers -> Outcomes]
<1>1. out \in Seq(Writers \X Nat)
  BY DEF TypeOK, WriteType
<1>. QED BY <1>1, LenProperties, ElementOfSeq DEF TypeOK, WriteType

\* Steps that send nothing and start no call: a result is recorded only by a
\* Write that gives up, and it is not "data".
LEMMA NothingSent ==
  ASSUME TypeOK, WriteInv, UNCHANGED <<out, calls>>,
         \A w \in Writers :
           \/ wres'[w] = wres[w] /\ (wpc'[w] # "idle" => wpc[w] # "idle")
           \/ wpc[w] # "idle" /\ wpc'[w] = "idle" /\ wres'[w] # "data"
  PROVE  WriteInv'
<1>1. CallsNumbered' /\ UnderWayUnsent'
  BY DEF WriteInv, CallsNumbered, UnderWayUnsent
<1>2. TimedOutWriteUnsent'
  <2>. SUFFICES ASSUME NEW w \in Writers
                PROVE  LET copies == {i \in DOMAIN out : out[i] = <<w, calls[w]>>}
                       IN  /\ wres'[w] = "timeout" => copies = {}
                           /\ wres'[w] = "data" => Cardinality(copies) = 1
    BY DEF TimedOutWriteUnsent
  <2>1. CASE wres'[w] = wres[w]
    BY <2>1 DEF WriteInv, TimedOutWriteUnsent
  <2>2. CASE wpc[w] # "idle" /\ wres'[w] # "data"
    BY <2>2 DEF WriteInv, UnderWayUnsent
  <2>. QED BY <2>1, <2>2
<1>. QED BY <1>1, <1>2 DEF WriteInv

\* A new call: its number is on no message.
LEMMA CallKeepsWrites ==
  ASSUME TypeOK, WriteInv, NEW w \in Writers, WriteCall(w)
  PROVE  WriteInv'
<1>1. /\ UNCHANGED out /\ wpc' = [wpc EXCEPT ![w] = "try"]
      /\ calls' = [calls EXCEPT ![w] = @ + 1] /\ wres' = [wres EXCEPT ![w] = "none"]
  BY DEF WriteCall, GoWrite
<1>2. \A i \in DOMAIN out : out[i] # <<w, calls[w] + 1>>
  <2>. SUFFICES ASSUME NEW i \in DOMAIN out, out[i] = <<w, calls[w] + 1>> PROVE FALSE
    OBVIOUS
  <2>1. out[i][2] <= calls[w] /\ out[i][2] = calls[w] + 1
    BY DEF WriteInv, CallsNumbered
  <2>. QED BY <2>1, OutType
<1>3. CallsNumbered'
  <2>. SUFFICES ASSUME NEW v \in Writers, NEW i \in DOMAIN out, out[i][1] = v
                PROVE  out[i][2] <= calls'[v]
    BY <1>1 DEF CallsNumbered
  <2>1. out[i][2] <= calls[v] /\ out[i][2] \in Nat
    BY OutType DEF WriteInv, CallsNumbered
  <2>2. calls'[v] \in {calls[v], calls[v] + 1} /\ calls[v] \in Nat
    BY <1>1, OutType
  <2>. QED BY <2>1, <2>2
<1>4. UnderWayUnsent'
  BY <1>1, <1>2, OutType DEF WriteInv, UnderWayUnsent
<1>5. TimedOutWriteUnsent'
  BY <1>1, OutType DEF WriteInv, TimedOutWriteUnsent
<1>. QED BY <1>3, <1>4, <1>5 DEF WriteInv

\* A Write that held the lock returns, its message sent or not: only then may the
\* result be a time-out or a success.
LEMMA ReleaseKeepsWrites ==
  ASSUME TypeOK, WriteInv, NEW w \in Writers, NEW from \in WriteHolding,
         NEW outcome, ReleaseAndReturn(w, from, outcome),
         out' \in {out, Append(out, <<w, calls[w]>>)},
         outcome = "timeout" => out' = out,
         outcome = "data" => out' = Append(out, <<w, calls[w]>>)
  PROVE  WriteInv'
<1>. DEFINE m == <<w, calls[w]>>
<1>1. /\ wpc[w] # "idle" /\ wpc'[w] = "idle" /\ UNCHANGED calls
      /\ wres' = [wres EXCEPT ![w] = outcome]
      /\ \A v \in Writers : wpc'[v] # "idle" => wpc[v] # "idle"
  BY OutType DEF ReleaseAndReturn, GoWrite, WriteHolding
<1>2. \A i \in 1..Len(out) : out[i] # m
  BY <1>1, OutType DEF WriteInv, UnderWayUnsent
<1>3. CASE out' = out
  <2>1. outcome # "data"
    <3>1. m \in Writers \X Nat /\ out \in Seq(Writers \X Nat) /\ Len(out) \in Nat
      BY OutType
    <3>2. Len(Append(out, m)) = Len(out) + 1
      BY <3>1, AppendProperties
    <3>. QED BY <1>3, <3>1, <3>2
  <2>. QED BY <1>1, <1>3, <2>1, NothingSent, OutType
<1>4. CASE out' = Append(out, m) /\ outcome # "timeout"
  <2>. DEFINE k == Len(out) + 1
  <2>1. /\ DOMAIN out' = 1..k /\ out'[k] = m /\ k \in Nat
        /\ \A i \in 1..Len(out) : out'[i] = out[i]
    <3>1. m \in Writers \X Nat /\ out \in Seq(Writers \X Nat) /\ Len(out) \in Nat
      BY OutType
    <3>. HIDE DEF m
    <3>2. /\ Append(out, m) \in Seq(Writers \X Nat) /\ Len(Append(out, m)) = k
          /\ Append(out, m)[k] = m /\ \A i \in 1..Len(out) : Append(out, m)[i] = out[i]
      BY <3>1, AppendProperties
    <3>3. DOMAIN Append(out, m) = 1..k
      BY <3>2, LenProperties
    <3>. QED BY <1>4, <3>1, <3>2, <3>3
  <2>2. \A i \in 1..k : i \in 1..Len(out) \/ i = k
    BY OutType
  <2>3. \A v \in Writers, i \in 1..k, n \in Nat :
          v # w => (out'[i] = <<v, n>> <=> i \in 1..Len(out) /\ out[i] = <<v, n>>)
    BY <2>1, <2>2, OutType
  <2>4. CallsNumbered'
    <3>1. m[1] = w /\ m[2] = calls[w] /\ calls[w] \in Nat
      BY OutType
    <3>. HIDE DEF m
    <3>. SUFFICES ASSUME NEW v \in Writers, NEW i \in 1..k, out'[i][1] = v
                  PROVE  out'[i][2] <= calls[v]
      BY <1>1, <2>1 DEF CallsNumbered
    <3>2. CASE i = k
      BY <2>1, <3>1, <3>2
    <3>3. CASE i \in 1..Len(out)
      BY <2>1, <3>3, OutType DEF WriteInv, CallsNumbered
    <3>. QED BY <2>2, <3>2, <3>3
  <2>5. UnderWayUnsent'
    <3>. SUFFICES ASSUME NEW v \in Writers, wpc'[v] # "idle"
                  PROVE  wres'[v] = "none" /\ \A i \in 1..k : out'[i] # <<v, calls[v]>>
      BY <1>1, <2>1 DEF UnderWayUnsent
    <3>1. v # w /\ wpc[v] # "idle" /\ wres'[v] = wres[v] /\ calls[v] \in Nat
      BY <1>1, OutType
    <3>. QED BY <2>3, <3>1, OutType DEF WriteInv, UnderWayUnsent
  <2>6. TimedOutWriteUnsent'
    <3>. SUFFICES ASSUME NEW v \in Writers
                  PROVE  LET copies == {i \in 1..k : out'[i] = <<v, calls[v]>>}
                         IN  /\ wres'[v] = "timeout" => copies = {}
                             /\ wres'[v] = "data" => Cardinality(copies) = 1
      BY <1>1, <2>1 DEF TimedOutWriteUnsent
    <3>1. CASE v = w
      <4>1. {i \in 1..k : out'[i] = m} = {k}
        BY <1>2, <2>1, <2>2
      <4>2. wres'[v] # "timeout" /\ Cardinality({k}) = 1
        BY <1>1, <1>4, <3>1, FS_Singleton, OutType
      <4>. QED BY <3>1, <4>1, <4>2
    <3>2. CASE v # w
      <4>1. {i \in 1..k : out'[i] = <<v, calls[v]>>} = {i \in DOMAIN out : out[i] = <<v, calls[v]>>}
        <5>1. calls[v] \in Nat /\ DOMAIN out = 1..Len(out) /\ 1..Len(out) \subseteq 1..k
          BY OutType
        <5>. QED BY <2>3, <3>2, <5>1
      <4>2. wres'[v] = wres[v]
        BY <1>1, <3>2, OutType
      <4>. QED BY <4>1, <4>2 DEF WriteInv, TimedOutWriteUnsent
    <3>. QED BY <3>1, <3>2
  <2>. QED BY <2>4, <2>5, <2>6 DEF WriteInv
<1>. QED BY <1>3, <1>4

\* Every step keeps calls numbered and those under way unsent.
LEMMA WriteStep == TypeOK /\ WriteInv /\ [Next]_vars => WriteInv'
<1>. SUFFICES ASSUME TypeOK, WriteInv, [Next]_vars PROVE WriteInv'
  OBVIOUS
<1>. wpc \in [Writers -> WritePC] /\ wres \in [Writers -> Outcomes]
  BY OutType
<1>1. CASE UNCHANGED writeVars
  BY <1>1, NothingSent DEF writeVars
<1>2. ASSUME NEW case \in {"cancelled", "try"}, wpc' = Released(wpc, Writers, case),
             UNCHANGED <<out, calls, wres>>
      PROVE  WriteInv'
  BY <1>2, NothingSent DEF Released
<1>3. CASE \E w \in Writers : WriteCall(w) \/ WriterStep(w) \/ WriteSent(w)
  <2>. SUFFICES ASSUME NEW w \in Writers, WriteCall(w) \/ WriterStep(w) \/ WriteSent(w)
                PROVE  WriteInv'
    BY <1>3
  <2>1. ASSUME NEW from, NEW to, WriteMove(w, from, to), from # "idle"
        PROVE  WriteInv'
    BY <2>1, NothingSent DEF WriteMove, GoWrite
  <2>2. ASSUME NEW from, NEW outcome, WriteGivesUp(w, from, outcome),
               from # "idle", outcome # "data"
        PROVE  WriteInv'
    BY <2>2, NothingSent DEF WriteGivesUp, GoWrite
  <2>3. CASE WriteCall(w)
    BY <2>3, CallKeepsWrites
  <2>4. CASE WriteTry(w) \/ WriteExpired(w) \/ WriteTimer(w) \/ WriteWoken(w)
    BY <2>1, <2>2, <2>4 DEF WriteTry, WriteExpired, WriteTimer, WriteWoken
  <2>5. CASE WriteSnapshot(w) \/ WriteLocks(w)
    BY <2>5, NothingSent DEF WriteSnapshot, WriteLocks, GoWrite
  <2>6. CASE WriteSelect(w)
    BY <2>1, <2>5, <2>6 DEF WriteSelect
  <2>7. CASE WriteBegin(w)
    BY <2>1, <2>7, ReleaseKeepsWrites DEF WriteBegin, WriteHolding
  <2>8. CASE WriteFailed(w) \/ WriteSent(w)
    BY <2>8, ReleaseKeepsWrites DEF WriteFailed, WriteSent, WriteHolding
  <2>. QED BY <2>3, <2>4, <2>5, <2>6, <2>7, <2>8 DEF WriterStep
<1>4. CASE CloseCancel \/ LoopCancel
  BY <1>2, <1>4 DEF CloseCancel, LoopCancel, CancelCallers
<1>5. CASE \E t \in Deadlines : SetDeadline(t)
  <2>1. UNCHANGED <<out, calls, wres>> /\ (UNCHANGED wpc \/ wpc' = Released(wpc, Writers, "try"))
    BY <1>5 DEF SetDeadline, SetWrite
  <2>. QED BY <1>2, <2>1, NothingSent
<1>6. CASE \E r \in Readers : ReadCall(r) \/ ReadLock(r) \/ ReaderStep(r)
  BY <1>1, <1>6
  DEF ReadCall, ReadLock, ReaderStep, ReadPending, ReadCurrentErr, ReadExpired, ReadSnapshot,
      ReadSelect, ReadEvent, ReadTimer, ReadWoken, ReadMove, ReadReturns, ReadError, HandOver,
      UnchangedByRead
<1>7. CASE LoopMessage \/ LoopReadErr \/ LoopText \/ LoopCloseWS \/ LoopOffer \/ LoopFail
  BY <1>1, <1>7
  DEF LoopMessage, LoopReadErr, LoopText, LoopCloseWS, LoopOffer, LoopFail, LoopMove, HandOver,
      UnchangedByRead, UnchangedByLoop
<1>8. CASE CloseWS \/ Tick \/ PeerSend \/ PeerEnds \/ UNCHANGED vars
  BY <1>1, <1>8 DEF CloseWS, Tick, PeerSend, PeerEnds, vars
<1>. QED BY <1>3, <1>4, <1>5, <1>6, <1>7, <1>8 DEF Next, LoopStep

\* A caller may retry a Write that timed out: none of its bytes has left.  One
\* that succeeded has sent its message once, however the lock was passed on.
THEOREM TimedOutWriteSentNothing == Spec => []TimedOutWriteUnsent
<1>1. TypeOK /\ WriteInv /\ [Next]_vars => (TypeOK /\ WriteInv)'
  BY TypeStep, WriteStep
<1>2. WriteInv => TimedOutWriteUnsent
  BY DEF WriteInv
<1>. QED BY TypeInit, WriteInit, <1>1, <1>2, PTL DEF Spec
=============================================================================
