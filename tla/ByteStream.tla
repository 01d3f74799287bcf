----------------------------- MODULE ByteStream -----------------------------
(***************************************************************************)
(* What the reader of a net.Conn is promised, whatever carries the bytes:  *)
(* the peer's bytes in order, time-outs that change nothing, and one end.  *)
(* The end may be io.EOF only after the last byte, unless the reader's own *)
(* side closed the connection.                                             *)
(***************************************************************************)
EXTENDS Naturals, Sequences

VARIABLES
  sent,        \* the peer's bytes so far
  delivered,   \* what Read has returned so far
  outcome,     \* the result of the last Read
  failed,      \* a Read has reported the end or a failure
  closed       \* the connection was closed on this side

vars == <<sent, delivered, outcome, failed, closed>>

Init ==
  /\ sent = <<>> /\ delivered = <<>>
  /\ outcome = "none" /\ failed = FALSE /\ closed = FALSE

Send ==
  /\ sent' = Append(sent, Len(sent) + 1)
  /\ UNCHANGED <<delivered, outcome, failed, closed>>

Deliver ==
  /\ ~failed
  /\ \E n \in Len(delivered) + 1 .. Len(sent) : delivered' = SubSeq(sent, 1, n)
  /\ outcome' = "data"
  /\ UNCHANGED <<sent, failed, closed>>

Timeout ==
  /\ outcome' = "timeout"
  /\ UNCHANGED <<sent, delivered, failed, closed>>

Fail ==
  /\ outcome' \in {"eof", "closed", "other"}
  /\ outcome' = "eof" => closed \/ delivered = sent
  /\ failed' = TRUE
  /\ UNCHANGED <<sent, delivered, closed>>

Close ==
  /\ closed' = TRUE
  /\ UNCHANGED <<sent, delivered, outcome, failed>>

Next == Send \/ Deliver \/ Timeout \/ Fail \/ Close

Spec == Init /\ [][Next]_vars
=============================================================================
