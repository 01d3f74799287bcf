---------------------------- MODULE WSConnProofs ----------------------------
(***************************************************************************)
(* Theorems about WSConn for all values of its constants: types, and the   *)
(* safety invariants of the read and of the write side.                    *)
(***************************************************************************)
EXTENDS WSConn, TLAPS, SequenceTheorems

\* A sequence is its first part and its rest.
LEMMA SplitSeq ==
  ASSUME NEW S, NEW s \in Seq(S), NEW n \in Nat, n <= Len(s)
  PROVE  /\ SubSeq(s, 1, n) \in Seq(S)
         /\ SubSeq(s, n + 1, Len(s)) \in Seq(S)
         /\ SubSeq(s, 1, n) \o SubSeq(s, n + 1, Len(s)) = s
<1>1. Len(s) \in Nat /\ \A i \in 1..Len(s) : s[i] \in S
  BY ElementOfSeq, LenProperties
<1>2. SubSeq(s, 1, n) \in Seq(S)
  BY <1>1, SubSeqProperties
<1>3. SubSeq(s, n + 1, Len(s)) \in Seq(S)
  <2>1. \A i \in n + 1 .. Len(s) : s[i] \in S
    BY <1>1
  <2>2. n + 1 \in Int /\ Len(s) \in Int
    BY <1>1
  <2>. QED BY <2>1, <2>2, SubSeqProperties
<1>4. SubSeq(s, 1, n) \o SubSeq(s, n + 1, Len(s)) = SubSeq(s, 1, Len(s))
  <2>1. 1 \in 1 .. Len(s) + 1 /\ n \in 1 - 1 .. Len(s) /\ Len(s) \in n .. Len(s)
    BY <1>1
  <2>. QED BY <2>1, ConcatAdjacentSubSeq
<1>. QED BY <1>1, <1>2, <1>3, <1>4, SubSeqFull

LEMMA SplitBehind ==
  ASSUME NEW S, NEW x \in Seq(S), NEW s \in Seq(S), NEW n \in Nat, n <= Len(s)
  PROVE  (x \o SubSeq(s, 1, n)) \o SubSeq(s, n + 1, Len(s)) = x \o s
<1>1. ASSUME NEW a \in Seq(S), NEW b \in Seq(S)
      PROVE  (x \o a) \o b = x \o (a \o b)
  BY ConcatAssociative
<1>2. /\ SubSeq(s, 1, n) \in Seq(S) /\ SubSeq(s, n + 1, Len(s)) \in Seq(S)
      /\ SubSeq(s, 1, n) \o SubSeq(s, n + 1, Len(s)) = s
  BY SplitSeq
<1>3. (x \o SubSeq(s, 1, n)) \o SubSeq(s, n + 1, Len(s))
        = x \o (SubSeq(s, 1, n) \o SubSeq(s, n + 1, Len(s)))
  BY <1>1, <1>2
<1>. QED BY <1>2, <1>3

LEMMA AppendBehind ==
  ASSUME NEW S, NEW x \in Seq(S), NEW s \in Seq(S), NEW e \in S
  PROVE  x \o Append(s, e) = Append(x \o s, e)
<1>1. <<e>> \in Seq(S) /\ x \o s \in Seq(S)
  BY ConcatProperties
<1>2. Append(s, e) = s \o <<e>> /\ Append(x \o s, e) = (x \o s) \o <<e>>
  BY <1>1, AppendIsConcat
<1>3. (x \o s) \o <<e>> = x \o (s \o <<e>>)
  BY <1>1, ConcatAssociative
<1>. QED BY <1>2, <1>3

-----------------------------------------------------------------------------
(* Types *)

LEMMA SnapshotTypes ==
  Unarmed \in Snapshots /\ \A d \in Deadlines : Snapshot(d) \in Snapshots
BY DEF Unarmed, Snapshot, Snapshots, Deadlines

LEMMA ReadMoveTypes ==
  ASSUME TypeOK, NEW r \in Readers, NEW from, NEW to \in ReadPC,
         ReadMove(r, from, to), to = "ended" => readErr # "none"
  PROVE  TypeOK'
<1>. USE DEF ReadMove, GoRead, UnchangedByRead, ctlVars, timeVars, loopVars, writeVars, peerVars
<1>1. ControlType' /\ WriteType' /\ PeerType'
  BY DEF TypeOK, ControlType, WriteType, PeerType
<1>2. ReadType'
  BY DEF TypeOK, ControlType, ReadType, Unarmed, Snapshot, Snapshots, Deadlines
<1>3. LoopType'
  BY DEF TypeOK, ReadType, LoopType
<1>. QED BY <1>1, <1>2, <1>3 DEF TypeOK

LEMMA ReadReturnsTypes ==
  ASSUME TypeOK, NEW r \in Readers, NEW from, NEW outcome \in Outcomes,
         ReadReturns(r, from, outcome),
         pending' \in Seq(Nat), delivered' \in Seq(Nat)
  PROVE  TypeOK'
<1>. USE DEF ReadReturns, GoRead, UnchangedByRead, ctlVars, timeVars, loopVars, writeVars, peerVars
<1>1. ControlType' /\ WriteType' /\ PeerType'
  BY DEF TypeOK, ControlType, WriteType, PeerType
<1>2. ReadType'
  BY DEF TypeOK, ControlType, ReadType, Unarmed, Snapshot, Snapshots, Deadlines, ReadPC
<1>3. LoopType'
  BY DEF TypeOK, ReadType, LoopType
<1>. QED BY <1>1, <1>2, <1>3 DEF TypeOK

LEMMA HandOverTypes ==
  ASSUME TypeOK, NEW r \in Readers, NEW from, HandOver(r, from)
  PROVE  TypeOK'
<1>. USE DEF HandOver, GoRead, UnchangedByRead, ctlVars, timeVars, writeVars, peerVars
<1>1. ControlType' /\ WriteType' /\ PeerType'
  BY DEF TypeOK, ControlType, WriteType, PeerType
<1>2. ReadType'
  BY DEF TypeOK, ReadType, LoopType, Unarmed, Snapshot, Snapshots, Deadlines, ReadPC, ReadInside
<1>3. LoopType'
  BY DEF TypeOK, ReadType, LoopType, LoopPC
<1>. QED BY <1>1, <1>2, <1>3 DEF TypeOK

LEMMA ReaderTypes ==
  ASSUME TypeOK, NEW r \in Readers, ReadCall(r) \/ ReadLock(r) \/ ReaderStep(r)
  PROVE  TypeOK'
<1>. USE DEF ReadPC, ReadInside
<1>1. CASE ReadCall(r) \/ ReadLock(r)
  BY <1>1, ReadMoveTypes DEF ReadCall, ReadLock
<1>2. CASE ReadPending(r)
  <2>1. PICK n \in 1..MaxBuf :
          /\ n <= Len(pending)
          /\ delivered' = delivered \o SubSeq(pending, 1, n)
          /\ pending' = SubSeq(pending, n + 1, Len(pending))
    BY <1>2 DEF ReadPending
  <2>2. n \in Nat /\ pending \in Seq(Nat) /\ delivered \in Seq(Nat)
    BY ConstantsAssumption DEF TypeOK, ReadType
  <2>3. /\ SubSeq(pending, 1, n) \in Seq(Nat)
        /\ SubSeq(pending, n + 1, Len(pending)) \in Seq(Nat)
    BY <2>1, <2>2, SplitSeq
  <2>4. pending' \in Seq(Nat) /\ delivered' \in Seq(Nat)
    BY <2>1, <2>2, <2>3
  <2>. QED BY <1>2, <2>4, ReadReturnsTypes DEF ReadPending, Outcomes
<1>3. CASE ReadCurrentErr(r)
  <2>1. CASE readErr # "none"
    <3>1. readErr \in Outcomes BY DEF TypeOK, LoopType, Outcomes
    <3>2. pending' \in Seq(Nat) /\ delivered' \in Seq(Nat)
      BY <1>3, <2>1 DEF ReadCurrentErr, ReadError, TypeOK, ReadType
    <3>. QED BY <1>3, <2>1, <3>1, <3>2, ReadReturnsTypes DEF ReadCurrentErr, ReadError
  <2>2. CASE readErr = "none"
    BY <1>3, <2>2, ReadMoveTypes DEF ReadCurrentErr
  <2>. QED BY <2>1, <2>2
<1>4. CASE ReadExpired(r)
  <2>1. CASE Due(readDeadline)
    <3>1. pending' \in Seq(Nat) /\ delivered' \in Seq(Nat)
      BY <1>4, <2>1 DEF ReadExpired, ReadError, TypeOK, ReadType
    <3>. QED BY <1>4, <2>1, <3>1, ReadReturnsTypes DEF ReadExpired, ReadError, Outcomes
  <2>2. CASE ~Due(readDeadline)
    BY <1>4, <2>2, ReadMoveTypes DEF ReadExpired
  <2>. QED BY <2>1, <2>2
<1>5. CASE ReadSnapshot(r)
  <2>. USE <1>5 DEF ReadSnapshot, GoRead, UnchangedByRead, ctlVars, timeVars, loopVars, writeVars, peerVars
  <2>1. ControlType' /\ WriteType' /\ PeerType'
    BY DEF TypeOK, ControlType, WriteType, PeerType
  <2>2. ReadType'
    BY DEF TypeOK, ControlType, ReadType, Snapshot, Snapshots
  <2>3. LoopType'
    BY DEF TypeOK, ReadType, LoopType
  <2>. QED BY <2>1, <2>2, <2>3 DEF TypeOK
<1>6. CASE ReadSelect(r)
  <2>1. CASE \E from : HandOver(r, from)
    BY <2>1, HandOverTypes
  <2>2. CASE \E from, to \in ReadPC :
               ReadMove(r, from, to) /\ (to = "ended" => readErr # "none")
    BY <2>2, ReadMoveTypes
  <2>. QED BY <1>6, <2>1, <2>2 DEF ReadSelect, ReadEvent
<1>7. CASE ReadTimer(r)
  BY <1>7, ReadMoveTypes DEF ReadTimer
<1>8. CASE ReadWoken(r)
  <2>1. pending' \in Seq(Nat) /\ delivered' \in Seq(Nat)
    BY <1>8 DEF ReadWoken, ReadError, TypeOK, ReadType
  <2>2. PICK outcome, from : outcome \in Outcomes /\ ReadReturns(r, from, outcome)
    BY <1>8 DEF ReadWoken, ReadError, TypeOK, LoopType, Outcomes, Errors
  <2>. QED BY <2>1, <2>2, ReadReturnsTypes
<1>. QED
  BY <1>1, <1>2, <1>3, <1>4, <1>5, <1>6, <1>7, <1>8 DEF ReaderStep

LEMMA CancelTypes ==
  ASSUME TypeOK, CancelCallers, closer' \in {"idle", "closing", "closed"},
         lpc' \in LoopPC, loopErr' \in Errors \cup {"none"},
         lpc' = "fail" => loopErr' # "none", lpc' = "done" => lpc = "done" /\ loopErr' = loopErr
  PROVE  TypeOK'
<1>. USE DEF CancelCallers, Released, UnchangedByLoop, timeVars, peerVars
<1>1. ControlType' /\ PeerType'
  BY DEF TypeOK, ControlType, PeerType
<1>2. ReadType'
  BY DEF TypeOK, ReadType, ReadPC, ReadInside
<1>3. WriteType'
  BY DEF TypeOK, WriteType, WritePC, WriteWaiting, WriteHolding
<1>4. LoopType'
  BY DEF TypeOK, ReadType, LoopType
<1>. QED BY <1>1, <1>2, <1>3, <1>4 DEF TypeOK

LEMMA LoopTypes ==
  ASSUME TypeOK, LoopStep
  PROVE  TypeOK'
<1>. USE DEF TypeOK, LoopMove, ctlVars, timeVars, readVars, writeVars, peerVars
<1>1. CASE LoopMessage
  <2>1. PICK n \in 0..MaxMsg :
          /\ n <= Len(inbound)
          /\ n = 0 => empties < MaxEmpty
          /\ empties' = IF n = 0 THEN empties + 1 ELSE empties
          /\ held' = SubSeq(inbound, 1, n)
          /\ inbound' = SubSeq(inbound, n + 1, Len(inbound))
    BY <1>1 DEF LoopMessage
  <2>2. held' \in Seq(Nat) /\ inbound' \in Seq(Nat)
    <3>1. inbound \in Seq(Nat)
      BY DEF PeerType
    <3>2. n \in 0..Len(inbound)
      BY <2>1, <3>1, ConstantsAssumption
    <3>3. /\ SubSeq(inbound, 1, n) \in Seq(Nat)
          /\ SubSeq(inbound, n + 1, Len(inbound)) \in Seq(Nat)
      BY <3>1, <3>2, SplitSeq
    <3>. QED BY <2>1, <3>3
  <2>3. empties' \in 0..MaxEmpty
    BY <2>1, ConstantsAssumption DEF PeerType
  <2>. QED
    BY <1>1, <2>2, <2>3
    DEF LoopMessage, ControlType, ReadType, LoopType, WriteType, PeerType, LoopPC
<1>2. CASE LoopReadErr \/ LoopText \/ LoopCloseWS
  <2>1. ControlType' /\ ReadType' /\ WriteType' /\ PeerType'
    BY <1>2 DEF LoopReadErr, LoopText, LoopCloseWS, ControlType, ReadType,
                WriteType, PeerType
  <2>2. lpc' \in {"fail", "badtype", "cancelling"} /\ UNCHANGED <<rpc, held, readErr>>
    BY <1>2 DEF LoopReadErr, LoopText, LoopCloseWS
  <2>3. loopErr' \in Errors \/ (UNCHANGED loopErr /\ lpc' # "fail")
    BY <1>2 DEF LoopReadErr, LoopText, LoopCloseWS, Errors
  <2>4. LoopType'
    BY <2>2, <2>3 DEF LoopType, LoopPC, Errors
  <2>. QED BY <2>1, <2>4
<1>3. CASE LoopCancel
  BY <1>3, CancelTypes DEF LoopCancel, LoopPC, Errors, ControlType
<1>4. CASE LoopOffer
  <2>1. CASE \E r \in Readers : HandOver(r, "parked")
    BY <2>1, HandOverTypes
  <2>2. CASE LoopMove("offer", "fail") /\ loopErr' = "closed"
             /\ UNCHANGED <<ctlVars, peerVars, held, readErr>>
    BY <2>2 DEF Errors, ControlType, ReadType, LoopType, WriteType, PeerType, LoopPC
  <2>3. CASE LoopMove("offer", "parked")
             /\ UNCHANGED <<ctlVars, peerVars, held, loopErr, readErr>>
    BY <2>3 DEF ControlType, ReadType, LoopType, WriteType, PeerType, LoopPC
  <2>. QED BY <1>4, <2>1, <2>2, <2>3 DEF LoopOffer
<1>5. CASE LoopFail
  <2>. USE <1>5 DEF LoopFail, Released, UnchangedByLoop
  <2>1. ControlType' /\ WriteType' /\ PeerType'
    BY DEF ControlType, WriteType, PeerType
  <2>2. ReadType'
    BY DEF ReadType, ReadPC, ReadInside
  <2>3. LoopType'
    BY DEF ReadType, LoopType, LoopPC
  <2>. QED BY <2>1, <2>2, <2>3
<1>. QED BY <1>1, <1>2, <1>3, <1>4, <1>5 DEF LoopStep

LEMMA DeadlineTypes ==
  ASSUME TypeOK, NEW t \in Deadlines, SetDeadline(t)
  PROVE  TypeOK'
<1>. USE DEF TypeOK, SetDeadline, SetRead, SetWrite, Released, ctlVars, loopVars, peerVars
<1>. USE DEF Snapshots, Snapshot, Unarmed, Deadlines
<1>1. ControlType' /\ PeerType'
  BY DEF ControlType, PeerType
<1>2. ReadType' /\ LoopType'
  <2>1. CASE SetRead(t)
    <3>1. rpc' \in [Readers -> ReadPC] /\ arm' \in Snapshots
      BY <2>1 DEF ReadType, ReadPC, ReadInside
    <3>2. \A r \in Readers : rpc'[r] = "ended" => rpc[r] = "ended"
      BY <2>1 DEF ReadType
    <3>. QED BY <3>1, <3>2 DEF ReadType, LoopType
  <2>2. CASE UNCHANGED <<readDeadline, rpc, arm>>
    BY <2>2 DEF ReadType, LoopType
  <2>. QED BY <2>1, <2>2
<1>3. WriteType'
  <2>1. CASE SetWrite(t)
    <3>1. wpc' \in [Writers -> WritePC]
      BY <2>1 DEF WriteType, WritePC, WriteWaiting, WriteHolding
    <3>2. warm' \in [Writers -> Snapshots]
      BY <2>1 DEF WriteType
    <3>. QED BY <3>1, <3>2 DEF WriteType
  <2>2. CASE UNCHANGED <<writeDeadline, wpc, warm>>
    BY <2>2 DEF WriteType
  <2>. QED BY <2>1, <2>2
<1>. QED BY <1>1, <1>2, <1>3

LEMMA WriteMoveTypes ==
  ASSUME TypeOK, NEW w \in Writers, NEW from, NEW to \in WritePC,
         WriteMove(w, from, to)
  PROVE  TypeOK'
<1>. USE DEF WriteMove, GoWrite, UnchangedByWrite, ctlVars, timeVars, readVars, loopVars, peerVars
<1>1. ControlType' /\ ReadType' /\ LoopType' /\ PeerType'
  BY DEF TypeOK, ControlType, ReadType, LoopType, PeerType
<1>2. WriteType'
  BY DEF TypeOK, WriteType, Unarmed, Snapshot, Snapshots, Deadlines
<1>. QED BY <1>1, <1>2 DEF TypeOK

LEMMA WriteGivesUpTypes ==
  ASSUME TypeOK, NEW w \in Writers, NEW from, NEW outcome \in Outcomes,
         WriteGivesUp(w, from, outcome)
  PROVE  TypeOK'
<1>. USE DEF WriteGivesUp, GoWrite, UnchangedByWrite, ctlVars, timeVars, readVars, loopVars, peerVars
<1>1. ControlType' /\ ReadType' /\ LoopType' /\ PeerType'
  BY DEF TypeOK, ControlType, ReadType, LoopType, PeerType
<1>2. WriteType'
  BY DEF TypeOK, WriteType, Unarmed, Snapshot, Snapshots, Deadlines, WritePC
<1>. QED BY <1>1, <1>2 DEF TypeOK

LEMMA ReleaseTypes ==
  ASSUME TypeOK, NEW w \in Writers, NEW from, NEW outcome \in Outcomes,
         ReleaseAndReturn(w, from, outcome), out' \in Seq(Writers \X Nat)
  PROVE  TypeOK'
<1>. USE DEF ReleaseAndReturn, GoWrite, UnchangedByWrite, ctlVars, timeVars, readVars, loopVars, peerVars
<1>1. ControlType' /\ ReadType' /\ LoopType' /\ PeerType'
  BY DEF TypeOK, ControlType, ReadType, LoopType, PeerType
<1>2. WriteType'
  <2>1. CASE \E v \in Writers :
               /\ wpc' = [wpc EXCEPT ![w] = "idle", ![v] = "holding"]
               /\ warm' = [warm EXCEPT ![v] = Unarmed]
               /\ UNCHANGED writeLock
    <3>. wpc \in [Writers -> WritePC] /\ warm \in [Writers -> Snapshots]
      BY DEF TypeOK, WriteType
    <3>. {"idle", "holding"} \subseteq WritePC
      BY DEF WritePC, WriteHolding
    <3>1. wpc' \in [Writers -> WritePC] /\ warm' \in [Writers -> Snapshots]
      BY <2>1, SnapshotTypes
    <3>2. calls' \in [Writers -> Nat] /\ wres' \in [Writers -> Outcomes]
      BY DEF TypeOK, WriteType
    <3>. QED BY <2>1, <3>1, <3>2 DEF TypeOK, WriteType
  <2>2. CASE GoWrite(w, "idle") /\ writeLock' = TRUE /\ UNCHANGED warm
    BY <2>2 DEF TypeOK, WriteType, WritePC
  <2>. QED BY <2>1, <2>2
<1>. QED BY <1>1, <1>2 DEF TypeOK

LEMMA WriterTypes ==
  ASSUME TypeOK, NEW w \in Writers, WriteCall(w) \/ WriterStep(w) \/ WriteSent(w)
  PROVE  TypeOK'
<1>. USE DEF WritePC, WriteWaiting, WriteHolding
<1>1. CASE WriteCall(w) \/ WriteSnapshot(w) \/ WriteLocks(w)
  <2>. USE DEF WriteCall, WriteSnapshot, WriteLocks, GoWrite, UnchangedByWrite, ctlVars,
               timeVars, readVars, loopVars, peerVars
  <2>1. ControlType' /\ ReadType' /\ LoopType' /\ PeerType'
    BY <1>1 DEF TypeOK, ControlType, ReadType, LoopType, PeerType
  <2>2. wpc' \in [Writers -> WritePC] /\ warm' \in [Writers -> Snapshots]
    BY <1>1, SnapshotTypes DEF TypeOK, ControlType, WriteType
  <2>3. UNCHANGED <<calls, wres>>
        \/ (calls' = [calls EXCEPT ![w] = @ + 1] /\ wres' = [wres EXCEPT ![w] = "none"])
    BY <1>1
  <2>4. calls' \in [Writers -> Nat] /\ wres' \in [Writers -> Outcomes]
    <3>1. calls \in [Writers -> Nat] /\ wres \in [Writers -> Outcomes]
      BY DEF TypeOK, WriteType
    <3>2. "none" \in Outcomes /\ calls[w] + 1 \in Nat
      BY <3>1 DEF Outcomes
    <3>. QED BY <2>3, <3>1, <3>2
  <2>5. writeLock' \in BOOLEAN /\ UNCHANGED out
    BY <1>1 DEF TypeOK, WriteType
  <2>6. WriteType'
    BY <2>2, <2>4, <2>5 DEF TypeOK, WriteType
  <2>. QED BY <2>1, <2>6 DEF TypeOK
<1>2. CASE WriteTry(w) \/ WriteExpired(w) \/ WriteSelect(w) \/ WriteTimer(w) \/ WriteWoken(w)
  <2>1. ASSUME NEW from, NEW to \in WritePC, WriteMove(w, from, to)
        PROVE  TypeOK'
    BY <2>1, WriteMoveTypes
  <2>2. ASSUME NEW from, NEW outcome \in {"timeout", "closed"}, WriteGivesUp(w, from, outcome)
        PROVE  TypeOK'
    BY <2>2, WriteGivesUpTypes DEF Outcomes, Errors
  <2>3. CASE WriteTry(w)
    BY <2>1, <2>2, <2>3 DEF WriteTry
  <2>4. CASE WriteExpired(w)
    BY <2>1, <2>2, <2>4 DEF WriteExpired
  <2>5. CASE WriteSelect(w)
    BY <1>1, <2>1, <2>5 DEF WriteSelect
  <2>6. CASE WriteTimer(w) \/ WriteWoken(w)
    BY <2>1, <2>2, <2>6 DEF WriteTimer, WriteWoken
  <2>. QED BY <1>2, <2>3, <2>4, <2>5, <2>6
<1>3. CASE WriteBegin(w) \/ WriteFailed(w) \/ WriteSent(w)
  <2>1. out' \in {out, Append(out, <<w, calls[w]>>)}
    BY <1>3 DEF WriteBegin, WriteFailed, WriteSent, WriteMove
  <2>2. out \in Seq(Writers \X Nat) /\ <<w, calls[w]>> \in Writers \X Nat
    BY DEF TypeOK, WriteType
  <2>3. out' \in Seq(Writers \X Nat)
    BY <2>1, <2>2, AppendProperties
  <2>4. ASSUME NEW from, NEW outcome \in {"timeout", "closed", "other", "data"},
               ReleaseAndReturn(w, from, outcome)
        PROVE  TypeOK'
    BY <2>3, <2>4, ReleaseTypes DEF Outcomes, Errors
  <2>5. CASE WriteBegin(w)
    BY <2>4, <2>5, WriteMoveTypes DEF WriteBegin
  <2>6. CASE WriteFailed(w) \/ WriteSent(w)
    BY <2>4, <2>6 DEF WriteFailed, WriteSent
  <2>. QED BY <1>3, <2>5, <2>6
<1>. QED BY <1>1, <1>2, <1>3 DEF WriterStep

\* Init has the types.
LEMMA TypeInit == Init => TypeOK
<1>. SUFFICES ASSUME Init PROVE TypeOK
  OBVIOUS
<1>. USE ConstantsAssumption, SnapshotTypes DEF Init
<1>1. ControlType
  <2>1. now \in 0..MaxTime /\ readDeadline \in Deadlines /\ writeDeadline \in Deadlines
    BY DEF Deadlines
  <2>. QED BY <2>1 DEF ControlType
<1>2. ReadType
  <2>1. rpc \in [Readers -> ReadPC]
    BY DEF ReadPC
  <2>2. pending \in Seq(Nat) /\ delivered \in Seq(Nat)
    BY EmptySeq
  <2>. QED BY <2>1, <2>2 DEF ReadType, Outcomes
<1>3. LoopType BY DEF LoopType, LoopPC
<1>4. WriteType BY DEF WriteType, WritePC, Outcomes
<1>5. PeerType BY DEF PeerType
<1>. QED BY <1>1, <1>2, <1>3, <1>4, <1>5 DEF TypeOK

\* Every step keeps the types.
LEMMA TypeStep == TypeOK /\ [Next]_vars => TypeOK'
<1>. SUFFICES ASSUME TypeOK, [Next]_vars PROVE TypeOK'
  OBVIOUS
<1>1. CASE \E r \in Readers : ReadCall(r) \/ ReadLock(r) \/ ReaderStep(r)
  BY <1>1, ReaderTypes
<1>2. CASE LoopStep
  BY <1>2, LoopTypes
<1>3. CASE \E w \in Writers : WriteCall(w) \/ WriterStep(w) \/ WriteSent(w)
  BY <1>3, WriterTypes
<1>4. CASE CloseCancel
  BY <1>4, CancelTypes DEF CloseCancel, TypeOK, LoopType, LoopPC, Errors
<1>5. CASE \E t \in Deadlines : SetDeadline(t)
  BY <1>5, DeadlineTypes
<1>6. CASE CloseWS \/ Tick \/ PeerEnds \/ UNCHANGED vars
  <2>. USE DEF CloseWS, Tick, PeerEnds, vars, ctlVars, timeVars, readVars, loopVars,
               writeVars, peerVars
  <2>1. ControlType'
    <3>1. now' \in 0..MaxTime
      BY <1>6, ConstantsAssumption DEF TypeOK, ControlType
    <3>2. UNCHANGED <<ctxDone, readDeadline, writeDeadline>>
      BY <1>6
    <3>3. wsOpen' \in BOOLEAN /\ closer' \in {"idle", "closing", "closed"}
      BY <1>6 DEF TypeOK, ControlType
    <3>. QED BY <3>1, <3>2, <3>3 DEF TypeOK, ControlType
  <2>2. ReadType' /\ LoopType' /\ WriteType'
    BY <1>6 DEF TypeOK, ReadType, LoopType, WriteType
  <2>3. PeerType'
    BY <1>6 DEF TypeOK, PeerType
  <2>. QED BY <2>1, <2>2, <2>3 DEF TypeOK
<1>7. CASE PeerSend
  <2>1. sent' \in Seq(Nat) /\ inbound' \in Seq(Nat)
    BY <1>7, AppendProperties, LenProperties DEF PeerSend, TypeOK, PeerType
  <2>. QED
    BY <1>7, <2>1
    DEF PeerSend, ctlVars, timeVars, readVars, loopVars, writeVars,
        TypeOK, ControlType, ReadType, LoopType, WriteType, PeerType
<1>. QED BY <1>1, <1>2, <1>3, <1>4, <1>5, <1>6, <1>7 DEF Next

\* Every variable keeps its type, and a Read that readDone releases always finds
\* an error there.
THEOREM Typing == Spec => []TypeOK
BY TypeInit, TypeStep, PTL DEF Spec

-----------------------------------------------------------------------------
(* The write side *)

\* Nobody holds the token.
LEMMA WriteSideInit == Init => OneWriteToken
BY DEF Init, OneWriteToken, WriteHolding

\* Steps that never touch the lock and move no Write in or out of holding it.
LEMMA TokenUntouched ==
  ASSUME OneWriteToken, UNCHANGED writeLock,
         \A w \in Writers : wpc'[w] \in WriteHolding <=> wpc[w] \in WriteHolding
  PROVE  OneWriteToken'
BY DEF OneWriteToken

\* Every action leaves the token, takes it when it is free, or gives it back.
LEMMA TokenStep == TypeOK /\ OneWriteToken /\ [Next]_vars => OneWriteToken'
<1>. SUFFICES ASSUME TypeOK, OneWriteToken, [Next]_vars PROVE OneWriteToken'
  OBVIOUS
<1>. wpc \in [Writers -> WritePC]
  BY DEF TypeOK, WriteType
<1>1. CASE UNCHANGED writeVars
  BY <1>1, TokenUntouched DEF writeVars
<1>2. CASE UNCHANGED writeLock /\ \E case \in {"cancelled", "try"} : wpc' = Released(wpc, Writers, case)
  BY <1>2, TokenUntouched DEF Released, WriteHolding
<1>3. ASSUME NEW w \in Writers, WriteCall(w) \/ WriteSnapshot(w)
      PROVE  OneWriteToken'
  BY <1>3, TokenUntouched DEF WriteCall, WriteSnapshot, GoWrite, WriteHolding
<1>4. ASSUME NEW w \in Writers, NEW from, NEW to, WriteMove(w, from, to),
             from \in WriteHolding <=> to \in WriteHolding
      PROVE  OneWriteToken'
  BY <1>4, TokenUntouched DEF WriteMove, GoWrite
<1>5. ASSUME NEW w \in Writers, NEW from \in WriteWaiting, NEW outcome,
             WriteGivesUp(w, from, outcome)
      PROVE  OneWriteToken'
  BY <1>5, TokenUntouched DEF WriteGivesUp, GoWrite, WriteWaiting, WriteHolding
<1>6. ASSUME NEW w \in Writers, WriteLocks(w)
      PROVE  OneWriteToken'
  BY <1>6 DEF WriteLocks, GoWrite, OneWriteToken, WriteHolding
<1>7. ASSUME NEW w \in Writers, NEW from \in WriteHolding, NEW outcome,
             ReleaseAndReturn(w, from, outcome)
      PROVE  OneWriteToken'
  <2>1. ~writeLock /\ \A v \in Writers \ {w} : wpc[v] \notin WriteHolding
    BY <1>7 DEF ReleaseAndReturn, OneWriteToken
  <2>2. CASE GoWrite(w, "idle") /\ writeLock' = TRUE
    BY <2>1, <2>2 DEF GoWrite, OneWriteToken, WriteHolding
  <2>3. ASSUME NEW v \in Writers, wpc[v] = "parked", UNCHANGED writeLock,
               wpc' = [wpc EXCEPT ![w] = "idle", ![v] = "holding"]
        PROVE  OneWriteToken'
    <3>1. v # w
      BY <1>7, <2>3 DEF ReleaseAndReturn, WriteHolding
    <3>2. \A u \in Writers : wpc'[u] \in WriteHolding <=> u = v
      BY <2>1, <2>3, <3>1 DEF WriteHolding
    <3>. QED BY <2>1, <2>3, <3>2 DEF OneWriteToken
  <2>. QED BY <1>7, <2>2, <2>3 DEF ReleaseAndReturn
<1>8. CASE \E r \in Readers : ReadCall(r) \/ ReadLock(r) \/ ReaderStep(r)
  BY <1>1, <1>8
  DEF ReadCall, ReadLock, ReaderStep, ReadPending, ReadCurrentErr, ReadExpired,
      ReadSnapshot, ReadSelect, ReadEvent, ReadTimer, ReadWoken, ReadMove, ReadError,
      ReadReturns, HandOver, UnchangedByRead
<1>9. CASE LoopStep \/ CloseCancel
  BY <1>1, <1>2, <1>9
  DEF LoopStep, LoopMessage, LoopReadErr, LoopText, LoopCloseWS, LoopCancel, LoopOffer,
      LoopFail, LoopMove, HandOver, CancelCallers, CloseCancel, UnchangedByRead
<1>10. CASE \E w \in Writers : WriteCall(w) \/ WriterStep(w) \/ WriteSent(w)
  <2>. SUFFICES ASSUME NEW w \in Writers, WriteCall(w) \/ WriterStep(w) \/ WriteSent(w)
                PROVE  OneWriteToken'
    BY <1>10
  <2>. USE DEF WriteWaiting, WriteHolding
  <2>1. CASE WriteCall(w) \/ WriteSnapshot(w)
    BY <1>3, <2>1
  <2>2. CASE WriteTry(w) \/ WriteExpired(w) \/ WriteTimer(w) \/ WriteWoken(w)
    BY <1>4, <1>5, <2>2 DEF WriteTry, WriteExpired, WriteTimer, WriteWoken
  <2>3. CASE WriteSelect(w)
    BY <1>4, <1>6, <2>3 DEF WriteSelect
  <2>4. CASE WriteBegin(w)
    BY <1>4, <1>7, <2>4 DEF WriteBegin
  <2>5. CASE WriteFailed(w) \/ WriteSent(w)
    BY <1>7, <2>5 DEF WriteFailed, WriteSent
  <2>. QED BY <2>1, <2>2, <2>3, <2>4, <2>5 DEF WriterStep
<1>11. CASE \E t \in Deadlines : SetDeadline(t)
  <2>1. UNCHANGED <<writeLock, wpc>> \/ (UNCHANGED writeLock /\ wpc' = Released(wpc, Writers, "try"))
    BY <1>11 DEF SetDeadline, SetWrite
  <2>. QED BY <1>2, <2>1, TokenUntouched
<1>12. CASE CloseWS \/ Tick \/ PeerSend \/ PeerEnds \/ UNCHANGED vars
  BY <1>1, <1>12 DEF CloseWS, Tick, PeerSend, PeerEnds, vars
<1>. QED BY <1>8, <1>9, <1>10, <1>11, <1>12 DEF Next

\* The write token is never lost and never doubled, for any number of writers.
THEOREM WriteExclusion == Spec => []OneWriteToken
<1>1. TypeOK /\ OneWriteToken /\ [Next]_vars => (TypeOK /\ OneWriteToken)'
  BY TypeStep, TokenStep
<1>. QED BY TypeInit, WriteSideInit, <1>1, PTL DEF Spec

-----------------------------------------------------------------------------
(* The read side *)

\* readMu has one holder.
LEMMA ReadMuStep == TypeOK /\ OneReaderInside /\ [Next]_vars => OneReaderInside'
<1>. SUFFICES ASSUME TypeOK, OneReaderInside, [Next]_vars PROVE OneReaderInside'
  OBVIOUS
<1>. rpc \in [Readers -> ReadPC]
  BY DEF TypeOK, ReadType
<1>1. ASSUME \A r \in Readers : rpc'[r] \in ReadInside => rpc[r] \in ReadInside
      PROVE  OneReaderInside'
  BY <1>1 DEF OneReaderInside
<1>2. ASSUME NEW r \in Readers, NEW to, GoRead(r, to),
             to \in ReadInside => rpc[r] \in ReadInside
      PROVE  OneReaderInside'
  BY <1>1, <1>2 DEF GoRead
<1>3. CASE UNCHANGED rpc \/ \E case : rpc' = Released(rpc, Readers, case)
  BY <1>1, <1>3 DEF Released, ReadInside
<1>4. CASE \E r \in Readers : ReadLock(r)
  BY <1>4 DEF ReadLock, ReadMove, GoRead, OneReaderInside
<1>5. CASE \E r \in Readers : ReadCall(r) \/ ReaderStep(r)
  <2>. SUFFICES ASSUME NEW r \in Readers, ReadCall(r) \/ ReaderStep(r)
                PROVE  OneReaderInside'
    BY <1>5
  <2>1. \E to : GoRead(r, to) /\ (to \in ReadInside => rpc[r] \in ReadInside)
    BY DEF ReadCall, ReaderStep, ReadPending, ReadCurrentErr, ReadExpired, ReadSnapshot,
           ReadSelect, ReadEvent, ReadTimer, ReadWoken, ReadMove, ReadError, ReadReturns,
           HandOver, ReadInside
  <2>. QED BY <1>2, <2>1
<1>6. CASE LoopStep \/ CloseCancel \/ CloseWS
  <2>1. CASE \E r \in Readers : HandOver(r, "parked")
    BY <1>2, <2>1 DEF HandOver, ReadInside
  <2>. QED
    BY <1>3, <1>6, <2>1
    DEF LoopStep, LoopMessage, LoopReadErr, LoopText, LoopCloseWS, LoopCancel, LoopOffer,
        LoopFail, LoopMove, CancelCallers, CloseCancel, CloseWS, readVars
<1>7. CASE \E w \in Writers : WriteCall(w) \/ WriterStep(w) \/ WriteSent(w)
  BY <1>3, <1>7
  DEF WriteCall, WriterStep, WriteSent, WriteTry, WriteExpired, WriteSnapshot, WriteSelect,
      WriteLocks, WriteTimer, WriteWoken, WriteBegin, WriteFailed, WriteMove, WriteGivesUp,
      ReleaseAndReturn, UnchangedByWrite, readVars
<1>8. CASE \E t \in Deadlines : SetDeadline(t)
  BY <1>3, <1>8 DEF SetDeadline, SetRead
<1>9. CASE Tick \/ PeerSend \/ PeerEnds \/ UNCHANGED vars
  BY <1>3, <1>9 DEF Tick, PeerSend, PeerEnds, vars, readVars
<1>. QED BY <1>4, <1>5, <1>6, <1>7, <1>8, <1>9 DEF Next

StreamInv == OneReaderInside /\ Drained /\ StreamIntact

\* Nothing is under way.
LEMMA StreamInit == Init => StreamInv
BY ConcatEmptySeq, EmptySeq DEF Init, StreamInv, OneReaderInside, Drained, StreamIntact, ReadInside

\* The four steps that move bytes.
LEMMA DeliverKeepsStream ==
  ASSUME TypeOK, StreamInv, NEW r \in Readers, ReadPending(r)
  PROVE  Drained' /\ StreamIntact'
<1>1. PICK n \in 1..MaxBuf :
        /\ n <= Len(pending)
        /\ delivered' = delivered \o SubSeq(pending, 1, n)
        /\ pending' = SubSeq(pending, n + 1, Len(pending))
  BY DEF ReadPending
<1>2. n \in Nat /\ pending \in Seq(Nat) /\ delivered \in Seq(Nat)
  BY ConstantsAssumption DEF TypeOK, ReadType
<1>3. delivered' \o pending' = delivered \o pending
  BY <1>1, <1>2, SplitBehind
<1>4. UNCHANGED <<held, inbound, sent, lpc>>
  BY DEF ReadPending, ReadReturns, UnchangedByRead, loopVars, peerVars
<1>5. \A q \in Readers : rpc'[q] \notin ReadInside
  BY DEF ReadPending, ReadReturns, GoRead, StreamInv, OneReaderInside, ReadInside,
         TypeOK, ReadType
<1>. QED BY <1>3, <1>4, <1>5 DEF StreamInv, StreamIntact, Drained

LEMMA HandOverKeepsStream ==
  ASSUME TypeOK, StreamInv, NEW r \in Readers, NEW from \in {"select", "parked"},
         HandOver(r, from)
  PROVE  Drained' /\ StreamIntact'
<1>1. pending = <<>>
  BY DEF HandOver, StreamInv, Drained, ReadInside
<1>2. UNCHANGED <<delivered, inbound, sent>> /\ pending' = held /\ held' = <<>>
  BY DEF HandOver, UnchangedByRead, peerVars
<1>3. (delivered \o <<>>) \o held = (delivered \o held) \o <<>>
  BY ConcatEmptySeq, ConcatProperties DEF TypeOK, ReadType, LoopType
<1>4. \A q \in Readers : rpc'[q] \notin ReadInside \ {"top"}
  BY DEF HandOver, GoRead, StreamInv, OneReaderInside, ReadInside, TypeOK, ReadType
<1>. QED BY <1>1, <1>2, <1>3, <1>4 DEF StreamInv, StreamIntact, Drained

LEMMA MessageKeepsStream ==
  ASSUME TypeOK, StreamInv, LoopMessage
  PROVE  Drained' /\ StreamIntact'
<1>1. PICK n \in 0..MaxMsg :
        /\ n <= Len(inbound)
        /\ held' = SubSeq(inbound, 1, n)
        /\ inbound' = SubSeq(inbound, n + 1, Len(inbound))
  BY DEF LoopMessage
<1>2. UNCHANGED <<rpc, delivered, pending, sent>> /\ lpc' = "offer" /\ held = <<>>
  BY DEF LoopMessage, LoopMove, readVars, StreamInv, Drained
<1>3. delivered \o pending \in Seq(Nat) /\ inbound \in Seq(Nat) /\ n \in Nat
  BY ConcatProperties, ConstantsAssumption DEF TypeOK, ReadType, PeerType
<1>4. ((delivered \o pending) \o SubSeq(inbound, 1, n)) \o SubSeq(inbound, n + 1, Len(inbound))
        = (delivered \o pending) \o inbound
  BY <1>1, <1>3, SplitBehind
<1>5. (delivered \o pending) \o <<>> = delivered \o pending
  BY <1>3, ConcatEmptySeq
<1>6. StreamIntact'
  BY <1>1, <1>2, <1>4, <1>5 DEF StreamInv, StreamIntact
<1>7. Drained'
  BY <1>2 DEF StreamInv, Drained
<1>. QED BY <1>6, <1>7

LEMMA SendKeepsStream ==
  ASSUME TypeOK, StreamInv, PeerSend
  PROVE  Drained' /\ StreamIntact'
<1>1. /\ delivered \o pending \o held \in Seq(Nat)
      /\ inbound \in Seq(Nat) /\ Len(sent) + 1 \in Nat
  <2>1. /\ delivered \in Seq(Nat) /\ pending \in Seq(Nat) /\ held \in Seq(Nat)
        /\ inbound \in Seq(Nat) /\ sent \in Seq(Nat)
    BY DEF TypeOK, ReadType, LoopType, PeerType
  <2>2. delivered \o pending \in Seq(Nat)
    BY <2>1, ConcatProperties
  <2>3. Len(sent) \in Nat
    BY <2>1, LenProperties
  <2>4. (delivered \o pending) \o held \in Seq(Nat)
    BY <2>1, <2>2, ConcatProperties
  <2>. QED BY <2>1, <2>3, <2>4
<1>2. (delivered \o pending \o held) \o Append(inbound, Len(sent) + 1)
        = Append((delivered \o pending \o held) \o inbound, Len(sent) + 1)
  <2>1. \A x \in Seq(Nat), s \in Seq(Nat), e \in Nat : x \o Append(s, e) = Append(x \o s, e)
    BY AppendBehind
  <2>. QED BY <1>1, <2>1, Zenon
<1>3. inbound' = Append(inbound, Len(sent) + 1) /\ sent' = Append(sent, Len(sent) + 1)
  BY DEF PeerSend
<1>4. UNCHANGED <<rpc, lpc, delivered, pending, held>>
  BY DEF PeerSend, readVars, loopVars
<1>. QED BY <1>2, <1>3, <1>4 DEF StreamInv, StreamIntact, Drained

\* Every step keeps the bytes in order.
LEMMA StreamStep == TypeOK /\ StreamInv /\ [Next]_vars => StreamInv'
<1>. SUFFICES ASSUME TypeOK, StreamInv, [Next]_vars PROVE Drained' /\ StreamIntact'
  BY ReadMuStep DEF StreamInv
<1>. rpc \in [Readers -> ReadPC]
  BY DEF TypeOK, ReadType
\* Steps that move no byte.
<1>1. ASSUME UNCHANGED <<delivered, pending, held, inbound, sent>>, lpc' = "read" => lpc = "read",
             \A r \in Readers : rpc'[r] \in ReadInside \ {"top"} =>
                rpc[r] \in ReadInside \ {"top"} \/ pending = <<>>
      PROVE  Drained' /\ StreamIntact'
  BY <1>1 DEF StreamInv, Drained, StreamIntact
<1>2. CASE \E r \in Readers : ReadCall(r) \/ ReadLock(r) \/ ReaderStep(r)
  <2>. SUFFICES ASSUME NEW r \in Readers, ReadCall(r) \/ ReadLock(r) \/ ReaderStep(r)
                PROVE  Drained' /\ StreamIntact'
    BY <1>2
  <2>1. ASSUME NEW from, NEW to, ReadMove(r, from, to),
               to \in ReadInside \ {"top"} => from \in ReadInside \ {"top"} \/ pending = <<>>
        PROVE  Drained' /\ StreamIntact'
    BY <1>1, <2>1 DEF ReadMove, GoRead, UnchangedByRead, loopVars, peerVars
  <2>2. ASSUME NEW from, NEW outcome, ReadError(r, from, outcome)
        PROVE  Drained' /\ StreamIntact'
    BY <1>1, <2>2 DEF ReadError, ReadReturns, GoRead, UnchangedByRead, loopVars, peerVars,
                      ReadInside
  <2>. USE DEF ReadInside
  <2>3. CASE ReadCall(r) \/ ReadLock(r) \/ ReadTimer(r) \/ ReadWoken(r)
    BY <2>1, <2>2, <2>3 DEF ReadCall, ReadLock, ReadTimer, ReadWoken
  <2>4. CASE ReadPending(r)
    BY <2>4, DeliverKeepsStream
  <2>5. CASE ReadCurrentErr(r) \/ ReadExpired(r)
    BY <2>1, <2>2, <2>5 DEF ReadCurrentErr, ReadExpired
  <2>6. CASE ReadSnapshot(r)
    BY <1>1, <2>6 DEF ReadSnapshot, GoRead, UnchangedByRead, loopVars, peerVars
  <2>7. CASE ReadSelect(r)
    BY <2>1, <2>7, HandOverKeepsStream DEF ReadSelect, ReadEvent
  <2>. QED BY <2>3, <2>4, <2>5, <2>6, <2>7 DEF ReaderStep
<1>3. CASE LoopStep
  <2>1. CASE LoopMessage
    BY <2>1, MessageKeepsStream
  <2>2. CASE \E r \in Readers : HandOver(r, "parked")
    BY <2>2, HandOverKeepsStream
  <2>3. CASE LoopReadErr \/ LoopText \/ LoopCloseWS
    BY <1>1, <2>3 DEF LoopReadErr, LoopText, LoopCloseWS, LoopMove, readVars, peerVars
  <2>4. CASE LoopCancel \/ LoopFail
    BY <1>1, <2>4 DEF LoopCancel, LoopFail, CancelCallers, Released, UnchangedByLoop, peerVars,
                      ReadInside
  <2>5. CASE LoopOffer
    BY <1>1, <2>2, <2>5 DEF LoopOffer, LoopMove, readVars, peerVars
  <2>. QED BY <1>3, <2>1, <2>3, <2>4, <2>5 DEF LoopStep
<1>4. CASE \E w \in Writers : WriteCall(w) \/ WriterStep(w) \/ WriteSent(w)
  BY <1>1, <1>4
  DEF WriteCall, WriterStep, WriteSent, WriteTry, WriteExpired, WriteSnapshot, WriteSelect,
      WriteLocks, WriteTimer, WriteWoken, WriteBegin, WriteFailed, WriteMove, WriteGivesUp,
      ReleaseAndReturn, UnchangedByWrite, readVars, loopVars, peerVars
<1>5. CASE CloseCancel
  BY <1>1, <1>5 DEF CloseCancel, CancelCallers, Released, UnchangedByLoop, peerVars, ReadInside
<1>6. CASE \E t \in Deadlines : SetDeadline(t)
  BY <1>1, <1>6 DEF SetDeadline, SetRead, Released, loopVars, peerVars
<1>7. CASE CloseWS \/ Tick \/ PeerEnds \/ UNCHANGED vars
  BY <1>1, <1>7 DEF CloseWS, Tick, PeerEnds, vars, readVars, loopVars, peerVars
<1>8. CASE PeerSend
  BY <1>8, SendKeepsStream
<1>. QED BY <1>2, <1>3, <1>4, <1>5, <1>6, <1>7, <1>8 DEF Next

\* No byte is lost, repeated or reordered between the socket and the callers of
\* Read, whatever the number of readers and the sizes of messages and buffers.
THEOREM StreamPreserved == Spec => []StreamIntact
<1>1. TypeOK /\ StreamInv /\ [Next]_vars => (TypeOK /\ StreamInv)'
  BY TypeStep, StreamStep
<1>2. StreamInv => StreamIntact
  BY DEF StreamInv
<1>. QED BY TypeInit, StreamInit, <1>1, <1>2, PTL DEF Spec

-----------------------------------------------------------------------------
(* Wake-ups *)

WakeInv == OneReaderInside /\ NoMissedWakeup /\ ParkedOnCurrentDeadline /\ ArmedOnCurrentDeadline

\* Nobody is parked.
LEMMA WakeInit == Init => WakeInv
BY DEF Init, WakeInv, OneReaderInside, NoMissedWakeup, ParkedOnCurrentDeadline,
       ArmedOnCurrentDeadline, ReadInside

\* The readers' and the writers' halves of the three properties.
ReadersAwake ==
  /\ \A r \in Readers : rpc[r] = "parked" =>
       ~ctxDone /\ readErr = "none" /\ lpc # "parked" /\ arm.dl = readDeadline
  /\ lpc = "parked" => ~ctxDone
  /\ \A r \in Readers : rpc[r] = "select" /\ ~arm.stale => arm.dl = readDeadline

WritersAwake ==
  /\ \A w \in Writers : wpc[w] = "parked" =>
       ~ctxDone /\ ~writeLock /\ warm[w].dl = writeDeadline
  /\ \A w \in Writers : wpc[w] = "select" /\ ~warm[w].stale => warm[w].dl = writeDeadline

LEMMA WakeHalves == WakeInv <=> OneReaderInside /\ ReadersAwake /\ WritersAwake
BY DEF WakeInv, NoMissedWakeup, ParkedOnCurrentDeadline, ArmedOnCurrentDeadline,
       ReadersAwake, WritersAwake

\* The same for Reads.
LEMMA ReadersAwakeStep ==
  TypeOK /\ OneReaderInside /\ ReadersAwake /\ [Next]_vars => ReadersAwake'
<1>. SUFFICES ASSUME TypeOK, OneReaderInside, ReadersAwake, [Next]_vars PROVE ReadersAwake'
  OBVIOUS
<1>. rpc \in [Readers -> ReadPC] /\ arm \in Snapshots
  BY DEF TypeOK, ReadType
\* Steps that park nobody and leave what the parked wait for alone.
<1>1. ASSUME UNCHANGED <<ctxDone, readErr, lpc, readDeadline, arm>>,
             \A r \in Readers : rpc'[r] \in {"parked", "select"} => rpc'[r] = rpc[r]
      PROVE  ReadersAwake'
  BY <1>1 DEF ReadersAwake
\* Steps of a reader that leaves nobody parked or selecting.
<1>2. ASSUME NEW r \in Readers, rpc[r] \in ReadInside, NEW to, GoRead(r, to),
             to \notin {"parked", "select"}, lpc' = "parked" => lpc = "parked",
             UNCHANGED ctxDone
      PROVE  ReadersAwake'
  BY <1>2 DEF GoRead, OneReaderInside, ReadersAwake, ReadInside
<1>3. CASE \E r \in Readers : ReadCall(r) \/ ReadLock(r) \/ ReaderStep(r)
  <2>. SUFFICES ASSUME NEW r \in Readers, ReadCall(r) \/ ReadLock(r) \/ ReaderStep(r)
                PROVE  ReadersAwake'
    BY <1>3
  <2>. USE DEF ReadInside, UnchangedByRead, ctlVars, timeVars, loopVars
  <2>1. CASE ReadCall(r) \/ ReadLock(r)
    BY <1>1, <2>1 DEF ReadCall, ReadLock, ReadMove, GoRead
  <2>2. ASSUME NEW from \in ReadInside, NEW to, to \notin {"parked", "select"},
               ReadMove(r, from, to)
        PROVE  ReadersAwake'
    BY <1>2, <2>2 DEF ReadMove
  <2>3. ASSUME NEW from \in ReadInside, NEW outcome, ReadReturns(r, from, outcome)
        PROVE  ReadersAwake'
    BY <1>2, <2>3 DEF ReadReturns
  <2>4. CASE ReadPending(r) \/ ReadCurrentErr(r) \/ ReadExpired(r)
    BY <2>2, <2>3, <2>4 DEF ReadPending, ReadCurrentErr, ReadExpired, ReadError
  <2>5. CASE ReadTimer(r) \/ ReadWoken(r)
    BY <2>2, <2>3, <2>5 DEF ReadTimer, ReadWoken, ReadError
  <2>6. CASE ReadSnapshot(r)
    BY <2>6 DEF ReadSnapshot, GoRead, OneReaderInside, ReadersAwake, Snapshot
  <2>7. CASE ReadSelect(r)
    <3>1. CASE HandOver(r, "select")
      BY <1>2, <3>1 DEF HandOver
    <3>2. CASE /\ lpc # "parked" /\ readErr = "none" /\ ~arm.stale /\ ~ctxDone
               /\ ReadMove(r, "select", "parked")
      BY <3>2 DEF ReadMove, GoRead, OneReaderInside, ReadersAwake
    <3>. QED BY <2>2, <2>7, <3>1, <3>2 DEF ReadSelect, ReadEvent
  <2>. QED BY <2>1, <2>4, <2>5, <2>6, <2>7 DEF ReaderStep
<1>4. CASE LoopStep
  <2>1. CASE \E r \in Readers : HandOver(r, "parked")
    BY <1>2, <2>1 DEF HandOver, ReadInside, UnchangedByRead, ctlVars
  <2>2. CASE LoopMessage \/ LoopReadErr \/ LoopText \/ LoopCloseWS
    BY <2>2 DEF LoopMessage, LoopReadErr, LoopText, LoopCloseWS, LoopMove, ctlVars, timeVars,
                readVars, ReadersAwake
  <2>3. CASE LoopCancel
    BY <2>3 DEF LoopCancel, CancelCallers, Released, UnchangedByLoop, timeVars, ReadersAwake
  <2>4. CASE LoopFail
    BY <2>4 DEF LoopFail, Released, UnchangedByLoop, timeVars, ctlVars, ReadersAwake
  <2>5. CASE LoopOffer
    BY <2>1, <2>5 DEF LoopOffer, LoopMove, ctlVars, timeVars, readVars, ReadersAwake
  <2>. QED BY <1>4, <2>2, <2>3, <2>4, <2>5 DEF LoopStep
<1>5. CASE CloseCancel
  BY <1>5 DEF CloseCancel, CancelCallers, Released, UnchangedByLoop, timeVars, ReadersAwake
<1>6. CASE \E t \in Deadlines : SetDeadline(t)
  <2>1. CASE UNCHANGED <<readDeadline, rpc, arm>>
    BY <1>1, <1>6, <2>1 DEF SetDeadline, ctlVars, loopVars
  <2>2. CASE \E t \in Deadlines : SetRead(t)
    <3>1. \A r \in Readers : rpc'[r] # "parked" /\ (rpc'[r] = "select" => rpc[r] = "select")
      BY <2>2 DEF SetRead, Released
    <3>2. (\E r \in Readers : rpc[r] = "select") => arm'.stale
      BY <2>2 DEF SetRead, Snapshots
    <3>. QED BY <1>6, <3>1, <3>2 DEF SetDeadline, ReadersAwake, ctlVars, loopVars
  <2>. QED BY <1>6, <2>1, <2>2 DEF SetDeadline
<1>7. CASE \E w \in Writers : WriteCall(w) \/ WriterStep(w) \/ WriteSent(w)
  BY <1>1, <1>7
  DEF WriteCall, WriterStep, WriteSent, WriteTry, WriteExpired, WriteSnapshot, WriteSelect,
      WriteLocks, WriteTimer, WriteWoken, WriteBegin, WriteFailed, WriteMove, WriteGivesUp,
      ReleaseAndReturn, UnchangedByWrite, readVars, loopVars, ctlVars, timeVars
<1>8. CASE CloseWS \/ Tick \/ PeerSend \/ PeerEnds \/ UNCHANGED vars
  BY <1>1, <1>8 DEF CloseWS, Tick, PeerSend, PeerEnds, vars, readVars, loopVars, ctlVars, timeVars
<1>. QED BY <1>3, <1>4, <1>5, <1>6, <1>7, <1>8 DEF Next

\* The same for Writes.
LEMMA WritersAwakeStep == TypeOK /\ WritersAwake /\ [Next]_vars => WritersAwake'
<1>. SUFFICES ASSUME TypeOK, WritersAwake, [Next]_vars PROVE WritersAwake'
  OBVIOUS
<1>. wpc \in [Writers -> WritePC] /\ warm \in [Writers -> Snapshots]
  BY DEF TypeOK, WriteType
<1>1. ASSUME UNCHANGED <<ctxDone, writeLock, writeDeadline, wpc, warm>>
      PROVE  WritersAwake'
  BY <1>1 DEF WritersAwake
\* Steps of a writer that leaves it neither parked nor selecting.
<1>2. ASSUME NEW w \in Writers, NEW to, GoWrite(w, to), to \notin {"parked", "select"},
             NEW s, warm' = [warm EXCEPT ![w] = s], UNCHANGED <<ctxDone, writeDeadline>>,
             writeLock' => writeLock
      PROVE  WritersAwake'
  BY <1>2 DEF GoWrite, WritersAwake
<1>3. CASE \E w \in Writers : WriteCall(w) \/ WriterStep(w) \/ WriteSent(w)
  <2>. SUFFICES ASSUME NEW w \in Writers, WriteCall(w) \/ WriterStep(w) \/ WriteSent(w)
                PROVE  WritersAwake'
    BY <1>3
  <2>. USE DEF UnchangedByWrite, ctlVars, timeVars
  <2>1. ASSUME NEW from, NEW to, to \notin {"parked", "select"}, WriteMove(w, from, to)
        PROVE  WritersAwake'
    BY <1>2, <2>1 DEF WriteMove
  <2>2. ASSUME NEW from, NEW outcome, WriteGivesUp(w, from, outcome)
        PROVE  WritersAwake'
    BY <1>2, <2>2 DEF WriteGivesUp
  <2>3. ASSUME NEW from, NEW outcome, ReleaseAndReturn(w, from, outcome)
        PROVE  WritersAwake'
    <3>1. ASSUME NEW v \in Writers, wpc' = [wpc EXCEPT ![w] = "idle", ![v] = "holding"],
                 warm' = [warm EXCEPT ![v] = Unarmed], UNCHANGED writeLock
          PROVE  WritersAwake'
      BY <2>3, <3>1 DEF ReleaseAndReturn, WritersAwake
    <3>2. ASSUME \A v \in Writers : wpc[v] # "parked", GoWrite(w, "idle"), UNCHANGED warm
          PROVE  WritersAwake'
      BY <2>3, <3>2 DEF ReleaseAndReturn, GoWrite, WritersAwake
    <3>. QED BY <2>3, <3>1, <3>2 DEF ReleaseAndReturn
  <2>4. CASE WriteCall(w)
    BY <2>4 DEF WriteCall, GoWrite, WritersAwake
  <2>5. CASE WriteTry(w) \/ WriteExpired(w) \/ WriteTimer(w) \/ WriteWoken(w)
    BY <2>1, <2>2, <2>5 DEF WriteTry, WriteExpired, WriteTimer, WriteWoken
  <2>6. CASE WriteSnapshot(w)
    BY <2>6 DEF WriteSnapshot, GoWrite, WritersAwake, Snapshot
  <2>7. CASE WriteSelect(w)
    <3>1. CASE WriteLocks(w)
      BY <1>2, <3>1 DEF WriteLocks
    <3>2. CASE /\ ~writeLock /\ ~warm[w].stale /\ ~ctxDone
               /\ WriteMove(w, "select", "parked")
      BY <3>2 DEF WriteMove, GoWrite, WritersAwake
    <3>. QED BY <2>1, <2>7, <3>1, <3>2 DEF WriteSelect
  <2>8. CASE WriteBegin(w) \/ WriteFailed(w) \/ WriteSent(w)
    BY <2>1, <2>3, <2>8 DEF WriteBegin, WriteFailed, WriteSent
  <2>. QED BY <2>4, <2>5, <2>6, <2>7, <2>8 DEF WriterStep
<1>4. CASE CloseCancel \/ LoopCancel
  BY <1>4 DEF CloseCancel, LoopCancel, CancelCallers, Released, UnchangedByLoop, timeVars,
              WritersAwake
<1>5. CASE \E t \in Deadlines : SetDeadline(t)
  <2>1. CASE UNCHANGED <<writeDeadline, wpc, warm>>
    BY <1>1, <1>5, <2>1 DEF SetDeadline, ctlVars
  <2>2. CASE \E t \in Deadlines : SetWrite(t)
    <3>1. \A w \in Writers : /\ wpc'[w] # "parked"
                             /\ wpc'[w] = "select" => wpc[w] = "select" /\ warm'[w].stale
      BY <2>2 DEF SetWrite, Released, Snapshots
    <3>. QED BY <3>1 DEF WritersAwake
  <2>. QED BY <1>5, <2>1, <2>2 DEF SetDeadline
<1>6. CASE \E r \in Readers : ReadCall(r) \/ ReadLock(r) \/ ReaderStep(r)
  BY <1>1, <1>6
  DEF ReadCall, ReadLock, ReaderStep, ReadPending, ReadCurrentErr, ReadExpired, ReadSnapshot,
      ReadSelect, ReadEvent, ReadTimer, ReadWoken, ReadMove, ReadReturns, ReadError, HandOver,
      UnchangedByRead, ctlVars, timeVars, writeVars
<1>7. CASE LoopMessage \/ LoopReadErr \/ LoopText \/ LoopCloseWS \/ LoopOffer \/ LoopFail
  BY <1>1, <1>7
  DEF LoopMessage, LoopReadErr, LoopText, LoopCloseWS, LoopOffer, LoopFail, LoopMove, HandOver,
      UnchangedByRead, UnchangedByLoop, ctlVars, timeVars, writeVars
<1>8. CASE CloseWS \/ Tick \/ PeerSend \/ PeerEnds \/ UNCHANGED vars
  BY <1>1, <1>8 DEF CloseWS, Tick, PeerSend, PeerEnds, vars, ctlVars, timeVars, writeVars
<1>. QED BY <1>3, <1>4, <1>5, <1>6, <1>7, <1>8 DEF Next, LoopStep

\* Every step keeps snapshots current or marked stale.
LEMMA WakeStep == TypeOK /\ WakeInv /\ [Next]_vars => WakeInv'
<1>1. WakeInv' <=> (OneReaderInside /\ ReadersAwake /\ WritersAwake)'
  BY DEF WakeInv, NoMissedWakeup, ParkedOnCurrentDeadline, ArmedOnCurrentDeadline,
         ReadersAwake, WritersAwake
<1>. QED BY <1>1, ReadMuStep, WakeHalves, ReadersAwakeStep, WritersAwakeStep

\* No call is parked beside what would release it, whatever the number of
\* goroutines.
THEOREM NoLostWakeup == Spec => []NoMissedWakeup
<1>1. WakeInv => NoMissedWakeup
  BY DEF WakeInv
<1>. QED BY TypeInit, WakeInit, TypeStep, WakeStep, <1>1, PTL DEF Spec

\* No parked call waits for a deadline that has been replaced, whatever the
\* number of goroutines and of deadline changes.
THEOREM NoStaleDeadline == Spec => []ParkedOnCurrentDeadline
<1>1. WakeInv => ParkedOnCurrentDeadline
  BY DEF WakeInv
<1>. QED BY TypeInit, WakeInit, TypeStep, WakeStep, <1>1, PTL DEF Spec
=============================================================================
