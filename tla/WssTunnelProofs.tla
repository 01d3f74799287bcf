---------------------------- MODULE WssTunnelProofs ----------------------------
(***************************************************************************)
(* Theorems about WssTunnel for any number of messages, texts and chunks:  *)
(* order and completeness of both streams of a tunnel.                     *)
(***************************************************************************)
EXTENDS WssTunnel, SequenceTheorems, TLAPS

-----------------------------------------------------------------------------
(* The inductive invariant *)

NoClose(s) == \A i \in DOMAIN s : s[i].kind # "close"
\* Where the tunnel is not up yet, or failed, nothing has been received, and the
\* client has sent nothing: it has not read OK.
Phases ==
  /\ wpc \in {"connecting", "failed"} =>
       /\ cpc # "open" /\ up = 0 /\ closedBy = "none" /\ chain = <<>> /\ written = <<>>
       /\ t2w = <<>> /\ down = 0 /\ got = <<>> /\ sock = "none"
  /\ cpc # "closed" => NoClose(c2w)
  /\ cpc = "waiting" => up = 0
  /\ cpc # "closed" => readyState # "closed" /\ endCode = 0
  /\ closedBy # "none" => sock = "closed" /\ readyState # "open"
  /\ closedBy = "eof" => wpc = "done"
  /\ wpc = "flushing" /\ closedBy = "none" => Len(t2w) = 1 /\ t2w[1].kind = "eof"

\* The uploads: what is written, what is in the chain, and what is still under way.
Queued == Len(written) + Len(chain)
IsData(m) == m.kind = "data"
Numbered(s, q, u) ==
  /\ \A i \in DOMAIN s : IsData(s[i]) => q < s[i].no /\ s[i].no <= u
  /\ \A i, j \in DOMAIN s : i < j /\ IsData(s[i]) /\ IsData(s[j]) => s[i].no < s[j].no
Follows(s, i, q) ==
  s[i].no = q + 1 \/ \E j \in DOMAIN s : j < i /\ IsData(s[j]) /\ s[j].no = s[i].no - 1
Gapless(s, q) == \A i \in DOMAIN s : IsData(s[i]) => Follows(s, i, q)
Reaches(s, q, u) == u = q \/ \E i \in DOMAIN s : IsData(s[i]) /\ s[i].no = u
ChainInv ==
  /\ UploadsAreAPrefix
  /\ \A i \in DOMAIN chain : chain[i] >= Len(written) + i /\ chain[i] <= up
  /\ late => chain # <<>> /\ chain[1] = Len(written) + 1
  /\ closedBy = "none" => \A i \in DOMAIN chain : chain[i] = Len(written) + i
  /\ Queued <= up
WayUp ==
  /\ Numbered(c2w, Queued, up)
  /\ closedBy = "none" => Gapless(c2w, Queued)
  /\ closedBy = "none" /\ cpc = "open" => Reaches(c2w, Queued, up)
Uploads == ChainInv /\ WayUp
\* Until the target's end is read, what has been received is written or in the chain;
\* then, unless a side closes, it is written or among the writes that are awaited.
HeardInv ==
  /\ closedBy = "none" /\ wpc \in {"connecting", "relaying"} => heard = Queued
  /\ closedBy = "none" /\ wpc = "flushing" => heard <= Len(written) + awaited
  /\ closedBy = "eof" => heard <= Len(written)

\* What the target sent: read by the client, in the WebSocket, and not read by the Worker.
Answering ==
  cpc = "waiting" =>
    IF wpc = "connecting" THEN w2c = <<>> /\ readyState = "open"
    ELSE w2c # <<>> /\ w2c[1].kind \in {"ok", "err"} /\ (w2c[1].kind = "err" <=> wpc = "failed")
Off == IF cpc = "waiting" /\ w2c # <<>> THEN 1 ELSE 0
Passed == Len(got) + Len(w2c) - Off
Eofs == IF t2w # <<>> /\ t2w[Len(t2w)].kind = "eof" THEN 1 ELSE 0
Bounded(s, n) == \A i \in DOMAIN s : IsData(s[i]) => s[i].no \in 1..n
\* After the first k messages of s: the data is n + 1, n + 2, ...; all is data; all is
\* data but the last one, which may be of kind e.
InLine(s, k, n) == \A i \in k + 1..Len(s) : IsData(s[i]) => s[i].no = n + i - k
AllData(s, k) == \A i \in k + 1..Len(s) : IsData(s[i])
DataThen(e, s, k) == \A i \in k + 1..Len(s) : IsData(s[i]) \/ (i = Len(s) /\ s[i].kind = e)
OnWire ==
  cpc # "closed" =>
    /\ InLine(w2c, Off, Len(got)) /\ DataThen("close", w2c, Off)
    /\ readyState = "open" => AllData(w2c, Off) /\ InLine(t2w, 0, Passed) /\ down = Passed + Len(t2w) - Eofs
WayDown ==
  /\ \A i \in DOMAIN got : got[i] = i
  /\ Len(got) <= down
  /\ Bounded(w2c, down) /\ Bounded(t2w, down)
  /\ DataThen("eof", t2w, 0) /\ (targetEnd = "no" => AllData(t2w, 0))
  /\ OnWire
Ended(s) == s # <<>> /\ s[Len(s)] = Msg("close", 1000)
Complete ==
  /\ closedBy = "none" => endCode # 1000 /\ ~Ended(w2c)
  /\ cpc # "closed" /\ closedBy = "eof" /\ Ended(w2c) => down = Passed - 1
  /\ endCode = 1000 /\ closedBy = "eof" => Len(got) = down
Downs == Answering /\ WayDown /\ Complete

\* The close codes of the Worker.
Coded == \A i \in DOMAIN w2c : w2c[i].kind = "close" => w2c[i].no \in {1000, 1002, 1011}

Inv == TypeOK /\ Coded /\ Phases /\ Uploads /\ HeardInv /\ Downs
-----------------------------------------------------------------------------
(* Numbers in a sequence of messages *)

\* The rest of a sequence, by index.
LEMMA TailOf ==
  ASSUME NEW S, NEW s \in Seq(S), s # <<>>
  PROVE  /\ Tail(s) \in Seq(S) /\ Len(Tail(s)) = Len(s) - 1 /\ Len(s) \in Nat \ {0}
         /\ Head(s) = s[1] /\ 1 \in DOMAIN s /\ Head(s) \in S
         /\ \A i \in DOMAIN Tail(s) : i + 1 \in DOMAIN s /\ Tail(s)[i] = s[i + 1]
         /\ \A i \in DOMAIN s : i = 1 \/ (i - 1 \in DOMAIN Tail(s) /\ Tail(s)[i - 1] = s[i])
         /\ \A i \in DOMAIN Tail(s) : i \in Nat /\ i >= 1
<1>1. Len(s) \in Nat \ {0} /\ DOMAIN s = 1..Len(s)
  BY EmptySeq, LenProperties
<1>2. /\ Tail(s) \in Seq(S) /\ Len(Tail(s)) = Len(s) - 1 /\ Head(s) = s[1] /\ Head(s) \in S
      /\ DOMAIN Tail(s) = 1..Len(s) - 1 /\ \A i \in 1..Len(s) - 1 : Tail(s)[i] = s[i + 1]
  BY <1>1, HeadTailProperties, LenProperties
<1>. QED BY <1>1, <1>2

\* A longer sequence, by index.
LEMMA AppendOf ==
  ASSUME NEW S, NEW s \in Seq(S), NEW e \in S
  PROVE  /\ Append(s, e) \in Seq(S) /\ Len(Append(s, e)) = Len(s) + 1 /\ Len(s) \in Nat
         /\ Append(s, e) # <<>>
         /\ DOMAIN Append(s, e) = DOMAIN s \cup {Len(s) + 1}
         /\ DOMAIN s = 1..Len(s) /\ DOMAIN Append(s, e) = 1..Len(s) + 1
         /\ \A i \in DOMAIN s : i \in 1..Len(s) /\ Append(s, e)[i] = s[i]
         /\ Append(s, e)[Len(s) + 1] = e
<1>1. Len(s) \in Nat /\ DOMAIN s = 1..Len(s)
  BY LenProperties
<1>2. /\ Append(s, e) \in Seq(S) /\ Len(Append(s, e)) = Len(s) + 1
      /\ \A i \in 1..Len(s) : Append(s, e)[i] = s[i]
      /\ Append(s, e)[Len(s) + 1] = e
  BY AppendProperties
<1>3. DOMAIN Append(s, e) = 1..Len(s) + 1
  BY <1>2, LenProperties
<1>4. Append(s, e) # <<>>
  BY <1>1, <1>2
<1>. QED BY <1>1, <1>2, <1>3, <1>4

\* The elements of a sequence of messages.
LEMMA NumberOf ==
  ASSUME NEW s \in Seq(Messages), NEW i \in DOMAIN s
  PROVE  i \in Nat /\ i >= 1 /\ s[i] \in Messages /\ s[i].no \in Nat /\ s[i].kind \in Kinds
<1>1. i \in 1..Len(s) /\ Len(s) \in Nat
  BY LenProperties
<1>2. s[i] \in Messages
  BY <1>1, ElementOfSeq
<1>3. s[i].no \in Nat /\ s[i].kind \in Kinds
  BY <1>2 DEF Messages
<1>. QED BY <1>1, <1>2, <1>3

\* The next binary message leaves the WebSocket.
LEMMA DropData ==
  ASSUME NEW s \in Seq(Messages), s # <<>>, IsData(Head(s)), NEW q \in Nat, NEW u \in Nat,
         Numbered(s, q, u)
  PROVE  /\ Numbered(Tail(s), q + 1, u) /\ Head(s).no \in q + 1..u
         /\ Gapless(s, q) => Head(s).no = q + 1 /\ Gapless(Tail(s), q + 1)
         /\ Gapless(s, q) /\ Reaches(s, q, u) => Reaches(Tail(s), q + 1, u)
<1>. DEFINE t == Tail(s)
<1>1. /\ t \in Seq(Messages) /\ Head(s) = s[1] /\ 1 \in DOMAIN s
      /\ \A i \in DOMAIN t : i \in Nat /\ i >= 1 /\ i + 1 \in DOMAIN s /\ t[i] = s[i + 1]
      /\ \A i \in DOMAIN s : i = 1 \/ (i - 1 \in DOMAIN t /\ t[i - 1] = s[i])
  BY TailOf
<1>2. \A i \in DOMAIN s : i \in Nat /\ i >= 1 /\ s[i].no \in Nat
  BY NumberOf
<1>3. \A i \in DOMAIN s : IsData(s[i]) => q < s[i].no /\ s[i].no <= u
  BY DEF Numbered
<1>4. \A i, j \in DOMAIN s : i < j /\ IsData(s[i]) /\ IsData(s[j]) => s[i].no < s[j].no
  BY DEF Numbered
<1>. HIDE DEF t
<1>5. ASSUME NEW i \in DOMAIN t, IsData(t[i]) PROVE q + 1 < t[i].no /\ t[i].no <= u
  <2>1. i + 1 \in DOMAIN s /\ 1 < i + 1 /\ t[i] = s[i + 1]
    BY <1>1
  <2>2. s[1].no < s[i + 1].no /\ q < s[1].no /\ s[i + 1].no <= u
    BY <1>1, <1>3, <1>4, <1>5, <2>1
  <2>. QED BY <1>1, <1>2, <2>1, <2>2
<1>6. ASSUME NEW i \in DOMAIN t, NEW j \in DOMAIN t, i < j, IsData(t[i]), IsData(t[j])
      PROVE  t[i].no < t[j].no
  <2>1. i + 1 < j + 1
    BY <1>1, <1>6
  <2>. QED BY <1>1, <1>4, <1>6, <2>1
<1>7. Numbered(t, q + 1, u)
  BY <1>5, <1>6 DEF Numbered
<1>8. Head(s).no \in q + 1..u
  BY <1>1, <1>2, <1>3
<1>9. ASSUME Gapless(s, q) PROVE Head(s).no = q + 1 /\ Gapless(t, q + 1)
  <2>1. ~\E j \in DOMAIN s : j < 1
    BY <1>2
  <2>2. s[1].no = q + 1
    BY <1>1, <1>9, <2>1 DEF Gapless, Follows
  <2>3. ASSUME NEW i \in DOMAIN t, IsData(t[i]) PROVE Follows(t, i, q + 1)
    <3>1. i + 1 \in DOMAIN s /\ t[i] = s[i + 1] /\ s[i + 1].no # q + 1
      BY <1>1, <1>2, <1>5, <2>3
    <3>2. PICK j \in DOMAIN s : j < i + 1 /\ IsData(s[j]) /\ s[j].no = t[i].no - 1
      BY <1>9, <2>3, <3>1 DEF Gapless, Follows
    <3>3. CASE j = 1
      BY <1>2, <2>2, <3>1, <3>2, <3>3 DEF Follows
    <3>4. CASE j # 1
      <4>1. j - 1 \in DOMAIN t /\ t[j - 1] = s[j] /\ j - 1 < i
        <5>1. j \in Nat /\ i \in Nat
          BY <1>1, <1>2
        <5>2. j < i + 1 /\ j # 1 /\ j >= 1
          BY <1>2, <3>2, <3>4
        <5>. QED BY <1>1, <3>4, <5>1, <5>2
      <4>. QED BY <3>2, <4>1 DEF Follows
    <3>. QED BY <3>3, <3>4
  <2>. QED BY <1>1, <2>2, <2>3 DEF Gapless
<1>10. ASSUME Gapless(s, q), Reaches(s, q, u) PROVE Reaches(t, q + 1, u)
  <2>1. u # q
    BY <1>8
  <2>2. PICK i \in DOMAIN s : IsData(s[i]) /\ s[i].no = u
    BY <1>10, <2>1 DEF Reaches
  <2>. QED BY <1>1, <1>9, <1>10, <2>2 DEF Reaches
<1>. QED BY <1>7, <1>8, <1>9, <1>10 DEF t

\* A text or a close leaves the WebSocket.
LEMMA DropOther ==
  ASSUME NEW s \in Seq(Messages), s # <<>>, ~IsData(Head(s)), NEW q, NEW u
  PROVE  /\ Numbered(s, q, u) => Numbered(Tail(s), q, u)
         /\ Gapless(s, q) => Gapless(Tail(s), q)
         /\ Reaches(s, q, u) => Reaches(Tail(s), q, u)
<1>. DEFINE t == Tail(s)
<1>1. /\ t \in Seq(Messages) /\ Head(s) = s[1] /\ 1 \in DOMAIN s
      /\ \A i \in DOMAIN t : i \in Nat /\ i >= 1 /\ i + 1 \in DOMAIN s /\ t[i] = s[i + 1]
      /\ \A i \in DOMAIN s : i = 1 \/ (i - 1 \in DOMAIN t /\ t[i - 1] = s[i])
  BY TailOf
<1>2. \A i \in DOMAIN s : i \in Nat /\ i >= 1
  BY LenProperties
<1>. HIDE DEF t
<1>3. Numbered(s, q, u) => Numbered(t, q, u)
  <2>1. \A i, j \in DOMAIN t : i < j => i + 1 < j + 1
    BY <1>1
  <2>. QED BY <1>1, <2>1 DEF Numbered
<1>4. ASSUME Gapless(s, q) PROVE Gapless(t, q)
  <2>1. ASSUME NEW i \in DOMAIN t, IsData(t[i]), t[i].no # q + 1 PROVE Follows(t, i, q)
    <3>1. i + 1 \in DOMAIN s /\ t[i] = s[i + 1]
      BY <1>1
    <3>2. PICK j \in DOMAIN s : j < i + 1 /\ IsData(s[j]) /\ s[j].no = t[i].no - 1
      BY <1>4, <2>1, <3>1 DEF Gapless, Follows
    <3>3. j - 1 \in DOMAIN t /\ t[j - 1] = s[j] /\ j - 1 < i
      <4>1. j \in Nat /\ i \in Nat /\ j < i + 1
        BY <1>1, <1>2, <3>2
      <4>2. j # 1
        BY <1>1, <3>2
      <4>. QED BY <1>1, <4>1, <4>2
    <3>. QED BY <3>2, <3>3 DEF Follows
  <2>. QED BY <2>1 DEF Gapless, Follows
<1>5. Reaches(s, q, u) => Reaches(t, q, u)
  BY <1>1 DEF Reaches
<1>. QED BY <1>3, <1>4, <1>5 DEF t

\* A text or a close is sent.
LEMMA AddOther ==
  ASSUME NEW s \in Seq(Messages), NEW m \in Messages, ~IsData(m), NEW q, NEW u
  PROVE  /\ Numbered(s, q, u) => Numbered(Append(s, m), q, u)
         /\ Gapless(s, q) => Gapless(Append(s, m), q)
         /\ Reaches(s, q, u) => Reaches(Append(s, m), q, u)
<1>. DEFINE t == Append(s, m)
<1>1. /\ DOMAIN t = DOMAIN s \cup {Len(s) + 1}
      /\ \A i \in DOMAIN s : t[i] = s[i]
      /\ t[Len(s) + 1] = m
  BY AppendOf
<1>. HIDE DEF t
<1>2. \A i \in DOMAIN t : IsData(t[i]) => i \in DOMAIN s
  BY <1>1
<1>. QED BY <1>1, <1>2 DEF t, Numbered, Gapless, Follows, Reaches

\* The next binary message is sent.
LEMMA AddData ==
  ASSUME NEW s \in Seq(Messages), NEW q \in Nat, NEW u \in Nat, q <= u, Numbered(s, q, u)
  PROVE  LET t == Append(s, Msg("data", u + 1))
         IN  /\ Numbered(t, q, u + 1) /\ Reaches(t, q, u + 1)
             /\ Gapless(s, q) /\ Reaches(s, q, u) => Gapless(t, q)
<1>. DEFINE m == Msg("data", u + 1)
            t == Append(s, m)
<1>1. m \in Messages /\ IsData(m) /\ m.no = u + 1
  BY DEF Msg, Messages, Kinds, IsData
<1>. HIDE DEF m
<1>2. /\ DOMAIN t = DOMAIN s \cup {Len(s) + 1} /\ Len(s) \in Nat
      /\ \A i \in DOMAIN s : i \in 1..Len(s) /\ t[i] = s[i]
      /\ t[Len(s) + 1] = m
  BY <1>1, AppendOf
<1>. HIDE DEF t
<1>3. \A i \in DOMAIN s : s[i].no \in Nat
  BY NumberOf
<1>4. Numbered(t, q, u + 1)
  <2>1. ASSUME NEW i \in DOMAIN t, IsData(t[i]) PROVE q < t[i].no /\ t[i].no <= u + 1
    BY <1>1, <1>2, <1>3, <2>1 DEF Numbered
  <2>2. ASSUME NEW i \in DOMAIN t, NEW j \in DOMAIN t, i < j, IsData(t[i]), IsData(t[j])
        PROVE  t[i].no < t[j].no
    <3>1. i \in DOMAIN s
      BY <1>2, <2>2
    <3>2. CASE j \in DOMAIN s
      BY <1>2, <2>2, <3>1, <3>2 DEF Numbered
    <3>3. CASE j = Len(s) + 1
      BY <1>1, <1>2, <1>3, <2>2, <3>1, <3>3 DEF Numbered
    <3>. QED BY <1>2, <3>2, <3>3
  <2>. QED BY <2>1, <2>2 DEF Numbered
<1>5. Reaches(t, q, u + 1)
  BY <1>1, <1>2 DEF Reaches
<1>6. ASSUME Gapless(s, q), Reaches(s, q, u) PROVE Gapless(t, q)
  <2>1. ASSUME NEW i \in DOMAIN s, IsData(t[i]) PROVE Follows(t, i, q)
    BY <1>2, <1>6, <2>1 DEF Gapless, Follows
  <2>2. Follows(t, Len(s) + 1, q)
    <3>1. CASE u = q
      BY <1>1, <1>2, <3>1 DEF Follows
    <3>2. CASE \E i \in DOMAIN s : IsData(s[i]) /\ s[i].no = u
      <4>1. PICK i \in DOMAIN s : IsData(s[i]) /\ s[i].no = u
        BY <3>2
      <4>2. i \in DOMAIN t /\ i < Len(s) + 1 /\ t[i] = s[i] /\ u = t[Len(s) + 1].no - 1
        BY <1>1, <1>2
      <4>. QED BY <4>1, <4>2 DEF Follows
    <3>. QED BY <1>6, <3>1, <3>2 DEF Reaches
  <2>. QED BY <1>2, <2>1, <2>2 DEF Gapless
<1>. QED BY <1>4, <1>5, <1>6 DEF t, m

\* Reading and sending keep a direction free of closes.
LEMMA NoCloseKept ==
  ASSUME NEW s \in Seq(Messages), NoClose(s)
  PROVE  /\ s # <<>> => NoClose(Tail(s)) /\ Head(s).kind # "close"
         /\ \A m \in Messages : m.kind # "close" => NoClose(Append(s, m))
<1>1. s # <<>> => NoClose(Tail(s)) /\ Head(s).kind # "close"
  BY TailOf DEF NoClose
<1>2. ASSUME NEW m \in Messages, m.kind # "close" PROVE NoClose(Append(s, m))
  BY <1>2, AppendOf DEF NoClose
<1>. QED BY <1>1, <1>2

\* What Msg builds.
LEMMA MsgOf ==
  ASSUME NEW k \in Kinds, NEW n \in Nat
  PROVE  Msg(k, n) \in Messages /\ Msg(k, n).kind = k /\ Msg(k, n).no = n
BY DEF Msg, Messages

\* What a read leaves of the order, the closes and the bounds of a direction.
LEMMA TailLine ==
  ASSUME NEW s \in Seq(Messages), s # <<>>, NEW n \in Nat, NEW e, NEW d
  PROVE  /\ Bounded(s, d) => Bounded(Tail(s), d) /\ (IsData(Head(s)) => Head(s).no \in 1..d)
         /\ InLine(s, 1, n) => InLine(Tail(s), 0, n)
         /\ AllData(s, 1) \/ AllData(s, 0) => AllData(Tail(s), 0)
         /\ DataThen(e, s, 1) \/ DataThen(e, s, 0) => DataThen(e, Tail(s), 0)
         /\ InLine(s, 0, n) => InLine(Tail(s), 0, n + 1) /\ (IsData(Head(s)) => Head(s).no = n + 1)
<1>. DEFINE t == Tail(s)
<1>1. /\ t \in Seq(Messages) /\ Head(s) = s[1] /\ 1 \in DOMAIN s /\ Len(s) \in Nat /\ Len(t) = Len(s) - 1
      /\ \A i \in DOMAIN t : i \in Nat /\ i >= 1 /\ i + 1 \in DOMAIN s /\ t[i] = s[i + 1]
      /\ DOMAIN s = 1..Len(s) /\ DOMAIN t = 1..Len(t)
  BY TailOf, LenProperties
<1>2. \A i \in 0 + 1..Len(t) : i + 1 \in 1 + 1..Len(s) /\ i + 1 \in 0 + 1..Len(s) /\ i \in DOMAIN t
                            /\ (i + 1 = Len(s) => i = Len(t))
  <2>1. \A l \in Nat : \A i \in 0 + 1..l - 1 :
          /\ i + 1 \in 1 + 1..l /\ i + 1 \in 0 + 1..l /\ i \in 1..l - 1
          /\ i + 1 = l => i = l - 1
    OBVIOUS
  <2>2. 0 + 1..Len(t) = 0 + 1..Len(s) - 1 /\ DOMAIN t = 1..Len(s) - 1
    BY <1>1
  <2>. HIDE DEF t
  <2>. QED BY <1>1, <2>1, <2>2
<1>. HIDE DEF t
<1>3. Bounded(s, d) => Bounded(t, d) /\ (IsData(Head(s)) => Head(s).no \in 1..d)
  BY <1>1 DEF Bounded
<1>4. ASSUME InLine(s, 1, n) PROVE InLine(t, 0, n)
  <2>1. ASSUME NEW i \in 0 + 1..Len(t), IsData(t[i]) PROVE t[i].no = n + i - 0
    <3>1. s[i + 1].no = n + (i + 1) - 1 /\ t[i] = s[i + 1]
      BY <1>1, <1>2, <1>4, <2>1 DEF InLine
    <3>. QED BY <3>1
  <2>. QED BY <2>1 DEF InLine
<1>5. AllData(s, 1) \/ AllData(s, 0) => AllData(t, 0)
  BY <1>1, <1>2 DEF AllData
<1>6. DataThen(e, s, 1) \/ DataThen(e, s, 0) => DataThen(e, t, 0)
  BY <1>1, <1>2 DEF DataThen
<1>7. ASSUME InLine(s, 0, n) PROVE InLine(t, 0, n + 1) /\ (IsData(Head(s)) => Head(s).no = n + 1)
  <2>1. ASSUME NEW i \in 0 + 1..Len(t), IsData(t[i]) PROVE t[i].no = (n + 1) + i - 0
    <3>1. s[i + 1].no = n + (i + 1) - 0 /\ t[i] = s[i + 1]
      BY <1>1, <1>2, <1>7, <2>1 DEF InLine
    <3>. QED BY <3>1
  <2>2. IsData(s[1]) => s[1].no = n + 1 - 0
    BY <1>1, <1>7 DEF InLine
  <2>. QED BY <1>1, <2>1, <2>2 DEF InLine
<1>. QED BY <1>3, <1>4, <1>5, <1>6, <1>7 DEF t

\* What a message added behind the others does to them.
LEMMA AppendLine ==
  ASSUME NEW s \in Seq(Messages), NEW m \in Messages, NEW k \in 0..Len(s), NEW n \in Nat, NEW e, NEW d
  PROVE  /\ Bounded(s, d) /\ (IsData(m) => m.no \in 1..d) => Bounded(Append(s, m), d)
         /\ AllData(s, k) /\ IsData(m) => AllData(Append(s, m), k)
         /\ AllData(s, k) /\ (IsData(m) \/ m.kind = e) => DataThen(e, Append(s, m), k)
         /\ InLine(s, k, n) /\ (IsData(m) => m.no = n + Len(s) + 1 - k) => InLine(Append(s, m), k, n)
<1>. DEFINE t == Append(s, m)
<1>1. /\ Len(s) \in Nat /\ Len(t) = Len(s) + 1 /\ t[Len(s) + 1] = m
      /\ DOMAIN s = 1..Len(s) /\ DOMAIN t = DOMAIN s \cup {Len(s) + 1}
      /\ \A i \in DOMAIN s : t[i] = s[i]
  BY AppendOf
<1>. HIDE DEF t
<1>2. \A i \in k + 1..Len(t) : (i \in k + 1..Len(s) /\ t[i] = s[i]) \/ i = Len(s) + 1
  BY <1>1
<1>3. Bounded(s, d) /\ (IsData(m) => m.no \in 1..d) => Bounded(t, d)
  BY <1>1 DEF Bounded
<1>4. AllData(s, k) /\ IsData(m) => AllData(t, k)
  BY <1>1, <1>2 DEF AllData
<1>5. AllData(s, k) /\ (IsData(m) \/ m.kind = e) => DataThen(e, t, k)
  BY <1>1, <1>2 DEF AllData, DataThen
<1>6. ASSUME InLine(s, k, n), IsData(m) => m.no = n + Len(s) + 1 - k PROVE InLine(t, k, n)
  <2>1. ASSUME NEW i \in k + 1..Len(t), IsData(t[i]) PROVE t[i].no = n + i - k
    <3>1. CASE i \in k + 1..Len(s) /\ t[i] = s[i]
      BY <1>6, <2>1, <3>1 DEF InLine
    <3>2. CASE i = Len(s) + 1
      <4>1. m.no = n + Len(s) + 1 - k /\ t[i] = m
        BY <1>1, <1>6, <2>1, <3>2
      <4>. QED BY <1>1, <3>2, <4>1
    <3>. QED BY <1>2, <3>1, <3>2
  <2>. QED BY <2>1 DEF InLine
<1>. QED BY <1>3, <1>4, <1>5, <1>6 DEF t

\* A connection that breaks loses the tail of a direction.
LEMMA CutOf ==
  ASSUME NEW s \in Seq(Messages), NEW n \in 0..Len(s), NEW q, NEW u
  PROVE  /\ SubSeq(s, 1, n) \in Seq(Messages)
         /\ Numbered(s, q, u) => Numbered(SubSeq(s, 1, n), q, u)
         /\ Gapless(s, q) => Gapless(SubSeq(s, 1, n), q)
<1>. DEFINE t == SubSeq(s, 1, n)
<1>1. /\ t \in Seq(Messages) /\ DOMAIN t = 1..n /\ DOMAIN s = 1..Len(s)
      /\ \A i \in DOMAIN t : i \in DOMAIN s /\ t[i] = s[i]
  BY SubSeqProperties, LenProperties
<1>. HIDE DEF t
<1>2. \A i \in DOMAIN t, j \in DOMAIN s : j < i => j \in DOMAIN t
  BY <1>1, LenProperties
<1>. QED BY <1>1, <1>2 DEF t, Numbered, Gapless, Follows
-----------------------------------------------------------------------------
(* Steps *)

\* No step disturbs Phases.
LEMMA PhasesStep == Inv /\ Next => Phases'
<1>. SUFFICES ASSUME Inv, Next PROVE Phases'
  OBVIOUS
<1>. USE DEF clientVars, chainVars, targetVars, UnchangedByClient, UnchangedByTarget
<1>1. /\ c2w \in Seq(Messages) /\ w2c \in Seq(Messages) /\ t2w \in Seq(Messages)
      /\ w2c # <<>> => Head(w2c) = w2c[1]
      /\ t2w # <<>> => Head(t2w) = t2w[1]
  BY TailOf DEF Inv, TypeOK
<1>2. CASE Connected
  BY <1>2 DEF Connected, Inv, Phases
<1>3. CASE ConnectFailed
  BY <1>3 DEF ConnectFailed, Inv, Phases
<1>4. CASE Dispatch
  <2>1. c2w # <<>> /\ c2w' = Tail(c2w) /\ UNCHANGED <<cpc, wpc, t2w, written, up, down, got, endCode>>
    BY <1>4 DEF Dispatch, BinaryEvent, TextEvent, CloseEvent, Event
  <2>2. cpc # "closed" => NoClose(c2w') /\ ~CloseEvent
    BY <1>1, <2>1, NoCloseKept DEF Inv, Phases, CloseEvent, Event
  <2>3. chain' = chain \/ wpc \notin {"connecting", "failed"}
    BY <1>4 DEF Dispatch, BinaryEvent, TextEvent, CloseEvent, Listening
  <2>4. \/ UNCHANGED <<closedBy, sock>>
        \/ closedBy = "none" /\ closedBy' = "client" /\ sock' = "closed"
           /\ wpc \notin {"connecting", "failed"} /\ readyState' # "open"
    BY <1>4 DEF Dispatch, BinaryEvent, TextEvent, CloseEvent, CloseSocket, Listening
  <2>5. readyState # "open" => readyState' # "open"
    BY <1>4 DEF Dispatch, BinaryEvent, TextEvent, CloseEvent, CloseWS
  <2>6. ~CloseEvent /\ readyState' = "closed" => readyState = "closed"
    BY <1>4 DEF Dispatch, BinaryEvent, TextEvent, CloseWS
  <2>7. ~CloseEvent => w2c' = w2c \/ wpc \notin {"connecting", "failed"}
    BY <1>4 DEF Dispatch, BinaryEvent, TextEvent, CloseWS, Listening
  <2>. QED BY <2>1, <2>2, <2>3, <2>4, <2>5, <2>6, <2>7 DEF Inv, Phases
<1>5. CASE WriteDone \/ WriteFailed
  <2>1. wpc \notin {"connecting", "failed"} /\ UNCHANGED <<cpc, c2w, wpc, t2w, up, endCode>>
    BY <1>5 DEF WriteDone, WriteFailed, Settles, Inv, Phases
  <2>2. /\ closedBy' # closedBy => closedBy' = "write"
        /\ closedBy' # "none" /\ closedBy = "none" => sock' = "closed" /\ readyState' # "open"
        /\ closedBy # "none" => UNCHANGED <<closedBy, sock, readyState>>
        /\ readyState' # readyState => readyState' = "closing"
    BY <1>5 DEF WriteDone, WriteFailed, CloseWS
  <2>. QED BY <2>1, <2>2 DEF Inv, Phases
<1>6. CASE ReadChunk
  BY <1>6 DEF ReadChunk, Inv, Phases
<1>7. CASE ReadDone
  <2>1. /\ closedBy # "none" \/ (t2w # <<>> /\ t2w[1].kind = "eof")
        /\ wpc = "relaying" /\ wpc' = "flushing"
        /\ UNCHANGED <<clientVars, c2w, w2c, readyState, chain, late, written, closedBy, sock, targetVars>>
    BY <1>1, <1>7 DEF ReadDone
  <2>2. t2w # <<>> /\ t2w[1].kind = "eof" => Len(t2w) = 1
    <3>1. t2w # <<>> => 1 \in 0 + 1..Len(t2w)
      BY <1>1, TailOf
    <3>. QED BY <3>1 DEF Inv, Downs, WayDown, DataThen, IsData
  <2>. QED BY <2>1, <2>2 DEF Inv, Phases
<1>8. CASE Flushed \/ ReadFailed
  BY <1>8 DEF Flushed, ReadFailed, CloseBoth, CloseWS, CloseSocket, Inv, Phases
<1>9. CASE ClientSends \/ ClientSendsText
  <2>1. \E m \in Messages : m.kind # "close" /\ c2w' = Append(c2w, m)
    <3>1. Msg("text", 0) \in Messages /\ Msg("data", up + 1) \in Messages
          /\ Msg("text", 0).kind = "text" /\ Msg("data", up + 1).kind = "data"
      BY TunnelAssumption, MsgOf DEF Kinds, Inv, TypeOK
    <3>. QED BY <1>9, <3>1 DEF ClientSends, ClientSendsText
  <2>2. cpc # "closed" => NoClose(c2w')
    BY <1>1, <2>1, NoCloseKept DEF Inv, Phases
  <2>. QED BY <1>9, <2>2 DEF ClientSends, ClientSendsText, Inv, Phases
<1>10. CASE ClientCloses \/ ClientVanishes
  BY <1>10 DEF ClientCloses, ClientVanishes, Inv, Phases
<1>11. CASE DialReads
  BY <1>1, <1>11 DEF DialReads, Inv, Phases, Downs, Answering
<1>12. CASE ClientReads
  BY <1>12 DEF ClientReads, Inv, Phases
<1>13. CASE TargetSends \/ TargetEnds \/ WritableCloses \/ TargetResets
  <2>1. t2w' # t2w => targetEnd = "no" /\ sock = "open"
    BY <1>13 DEF TargetSends, TargetEnds, WritableCloses, TargetResets
  <2>2. wpc = "flushing" /\ closedBy = "none" => targetEnd # "no"
    <3>1. Len(t2w) = 1 => 1 \in 0 + 1..Len(t2w)
      OBVIOUS
    <3>. QED BY <3>1 DEF Inv, Phases, Downs, WayDown, AllData, IsData
  <2>3. wpc \in {"connecting", "failed"} => UNCHANGED <<down, t2w>>
    BY <1>13 DEF TargetSends, TargetEnds, WritableCloses, TargetResets, Inv, Phases
  <2>4. UNCHANGED <<clientVars, c2w, w2c, wpc, readyState, chainVars, closedBy, sock>>
    BY <1>13 DEF TargetSends, TargetEnds, WritableCloses, TargetResets
  <2>. QED BY <2>1, <2>2, <2>3, <2>4 DEF Inv, Phases
<1>. QED BY <1>2, <1>3, <1>4, <1>5, <1>6, <1>7, <1>8, <1>9, <1>10, <1>11, <1>12, <1>13 DEF Next, Relay

\* Types and sizes of the upload's state.
LEMMA Sizes ==
  Inv => /\ Len(written) \in Nat /\ Len(chain) \in Nat /\ Queued \in Nat /\ up \in Nat /\ heard \in Nat /\ awaited \in Nat
         /\ Queued <= up
         /\ written \in Seq(1..MaxUp) /\ chain \in Seq(1..MaxUp) /\ c2w \in Seq(Messages)
         /\ DOMAIN chain = 1..Len(chain) /\ DOMAIN written = 1..Len(written)
         /\ chain \in Seq(Nat) /\ \A i \in DOMAIN chain : i \in Nat /\ chain[i] \in Nat
<1>. SUFFICES ASSUME Inv PROVE Sizes!2
  OBVIOUS
<1>1. /\ written \in Seq(1..MaxUp) /\ chain \in Seq(1..MaxUp) /\ c2w \in Seq(Messages)
      /\ up \in Nat /\ heard \in Nat /\ awaited \in Nat
  BY TunnelAssumption DEF Inv, TypeOK
<1>2. /\ Len(written) \in Nat /\ Len(chain) \in Nat
      /\ DOMAIN chain = 1..Len(chain) /\ DOMAIN written = 1..Len(written)
  BY <1>1, LenProperties
<1>3. Queued <= up
  BY DEF Inv, Uploads, ChainInv
<1>4. \A i \in 1..Len(chain) : chain[i] \in Nat
  <2>. TAKE i \in 1..Len(chain)
  <2>1. chain[i] \in 1..MaxUp
    BY <1>1, ElementOfSeq
  <2>. QED BY <2>1, TunnelAssumption
<1>5. chain \in Seq(Nat)
  BY <1>1, <1>2, <1>4, SeqDef
<1>. QED BY <1>1, <1>2, <1>3, <1>4, <1>5 DEF Queued

\* The next binary message on the chain.
LEMMA NextUpload ==
  Inv /\ BinaryEvent =>
    /\ chain' = Append(chain, Head(c2w).no) /\ Head(c2w).no \in Queued + 1..up
    /\ closedBy = "none" => Head(c2w).no = Queued + 1
    /\ UNCHANGED <<written, up, late, awaited, closedBy, cpc, wpc>> /\ Queued' = Queued + 1
    /\ Numbered(c2w', Queued + 1, up)
    /\ closedBy = "none" => Gapless(c2w', Queued + 1)
    /\ closedBy = "none" /\ cpc = "open" => Reaches(c2w', Queued + 1, up)
<1>. SUFFICES ASSUME Inv, BinaryEvent PROVE NextUpload!2
  OBVIOUS
<1>1. c2w # <<>> /\ IsData(Head(c2w)) /\ c2w' = Tail(c2w)
      /\ UNCHANGED <<written, up, late, awaited, closedBy, cpc, wpc>>
  BY DEF BinaryEvent, Event, IsData, clientVars
<1>2. /\ Numbered(c2w, Queued, up)
      /\ closedBy = "none" => Gapless(c2w, Queued)
      /\ closedBy = "none" /\ cpc = "open" => Reaches(c2w, Queued, up)
  BY DEF Inv, Uploads, WayUp
<1>3. /\ Numbered(c2w', Queued + 1, up) /\ Head(c2w).no \in Queued + 1..up
      /\ closedBy = "none" => Head(c2w).no = Queued + 1 /\ Gapless(c2w', Queued + 1)
      /\ closedBy = "none" /\ cpc = "open" => Reaches(c2w', Queued + 1, up)
  BY <1>1, <1>2, Sizes, DropData
<1>4. up # 0
  BY <1>3, Sizes
<1>5. chain' = Append(chain, Head(c2w).no)
  BY <1>4 DEF BinaryEvent, Listening, Inv, Phases
<1>6. Len(chain') = Len(chain) + 1
  BY <1>3, <1>5, Sizes, AppendOf
<1>7. Queued' = Queued + 1
  BY <1>1, <1>6, Sizes DEF Queued
<1>. QED BY <1>1, <1>3, <1>5, <1>7

\* The oldest write of the chain leaves it.
LEMMA NextWrite ==
  Inv /\ (WriteDone \/ WriteFailed) =>
    /\ chain # <<>> /\ chain' = Tail(chain) /\ chain' \in Seq(1..MaxUp)
    /\ Len(chain') = Len(chain) - 1 /\ Head(chain) = chain[1] /\ 1 \in DOMAIN chain
    /\ \A i \in DOMAIN chain' : i \in Nat /\ i >= 1 /\ i + 1 \in DOMAIN chain /\ chain'[i] = chain[i + 1]
    /\ late' = FALSE /\ UNCHANGED <<up, heard, cpc, wpc, c2w>>
<1>1. Inv /\ (WriteDone \/ WriteFailed) =>
        chain # <<>> /\ chain' = Tail(chain) /\ late' = FALSE /\ UNCHANGED <<up, heard, cpc, wpc, c2w>>
  BY DEF WriteDone, WriteFailed, Settles, clientVars
<1>. SUFFICES ASSUME Inv, WriteDone \/ WriteFailed PROVE NextWrite!2
  OBVIOUS
<1>2. chain # <<>> /\ chain \in Seq(1..MaxUp) /\ chain' = Tail(chain)
  BY <1>1, Sizes
<1>. QED BY <1>1, <1>2, TailOf

\* No step disturbs the chain of writes.
LEMMA ChainStep == Inv /\ Next => ChainInv'
<1>. SUFFICES ASSUME Inv, Next PROVE ChainInv'
  OBVIOUS
<1>. USE DEF UploadsAreAPrefix
<1>1. ChainInv
  BY DEF Inv, Uploads
<1>2. ASSUME UNCHANGED <<written, chain, up>>,
             \/ UNCHANGED <<closedBy, late>>
             \/ closedBy = "none" /\ closedBy' # "none" /\ late' = (chain # <<>>)
      PROVE  ChainInv'
  <2>1. chain # <<>> => 1 \in DOMAIN chain
    BY Sizes, TailOf
  <2>2. Queued' = Queued
    BY <1>2 DEF Queued
  <2>3. late' => chain' # <<>> /\ chain'[1] = Len(written') + 1
    BY <1>1, <1>2, <2>1 DEF ChainInv
  <2>4. closedBy' = "none" => closedBy = "none"
    BY <1>2
  <2>. QED BY <1>1, <1>2, <2>2, <2>3, <2>4 DEF ChainInv
<1>3. CASE BinaryEvent
  <2>. DEFINE n == Head(c2w).no
              l == Len(chain) + 1
  <2>1. /\ n \in Nat /\ n > Queued /\ n <= up
        /\ closedBy = "none" => n = Queued + 1
        /\ UNCHANGED <<written, up, late, closedBy>> /\ Queued' = Queued + 1
    BY <1>3, NextUpload, Sizes
  <2>2. /\ chain' # <<>> /\ DOMAIN chain' = DOMAIN chain \cup {l}
        /\ \A i \in DOMAIN chain : chain'[i] = chain[i]
        /\ chain'[l] = n
        /\ chain # <<>> => 1 \in DOMAIN chain
    <3>1. chain' = Append(chain, n) /\ chain \in Seq(Nat) /\ n \in Nat
      BY <1>3, <2>1, NextUpload, Sizes
    <3>. QED BY <3>1, AppendOf, TailOf
  <2>3. Queued = Len(written) + Len(chain)
    BY DEF Queued
  <2>. HIDE DEF n
  <2>4. \A i \in DOMAIN chain' : chain'[i] >= Len(written) + i /\ chain'[i] <= up
    BY <1>1, <2>1, <2>2, <2>3, Sizes DEF ChainInv
  <2>5. closedBy = "none" => \A i \in DOMAIN chain' : chain'[i] = Len(written) + i
    BY <1>1, <2>1, <2>2, <2>3, Sizes DEF ChainInv
  <2>6. Queued + 1 <= up
    BY <2>1, Sizes
  <2>7. late => chain'[1] = Len(written) + 1
    BY <1>1, <2>2 DEF ChainInv
  <2>. QED BY <1>1, <2>1, <2>2, <2>4, <2>5, <2>6, <2>7 DEF ChainInv
<1>4. CASE WriteDone
  <2>1. chain[1] = Len(written) + 1
    BY <1>1, <1>4, NextWrite DEF ChainInv, WriteDone
  <2>2. /\ Len(written') = Len(written) + 1
        /\ DOMAIN written' = DOMAIN written \cup {Len(written) + 1}
        /\ \A i \in DOMAIN written : written'[i] = written[i]
        /\ written'[Len(written) + 1] = chain[1]
    <3>1. written' = Append(written, chain[1]) /\ chain[1] \in 1..MaxUp
      BY <1>4, Sizes, NextWrite, TailOf DEF WriteDone
    <3>. QED BY <3>1, Sizes, AppendOf
  <2>3. UploadsAreAPrefix'
    BY <1>1, <2>1, <2>2, Sizes DEF ChainInv
  <2>4. closedBy' = closedBy /\ up' = up /\ late' = FALSE
    BY <1>4 DEF WriteDone, Settles, clientVars
  <2>5. Len(chain') = Len(chain) - 1
    BY <1>4, NextWrite
  <2>6. Queued' = Queued
    BY <2>2, <2>5, Sizes DEF Queued
  <2>7. \A i \in DOMAIN chain' : /\ chain'[i] >= Len(written) + 1 + i /\ chain'[i] <= up
                                 /\ closedBy = "none" => chain'[i] = Len(written) + 1 + i
    <3>1. \A i \in DOMAIN chain' : i \in Nat /\ i + 1 \in DOMAIN chain /\ chain'[i] = chain[i + 1]
      BY <1>4, NextWrite
    <3>. QED BY <1>1, <3>1, Sizes DEF ChainInv
  <2>. QED BY <1>1, <2>2, <2>3, <2>4, <2>6, <2>7 DEF ChainInv
<1>5. CASE WriteFailed
  <2>1. closedBy' # "none" /\ written' = written
    BY <1>5 DEF WriteFailed
  <2>2. up' = up /\ late' = FALSE /\ Len(chain') = Len(chain) - 1
    BY <1>5, NextWrite
  <2>3. Queued' <= up
    BY <2>1, <2>2, Sizes DEF Queued
  <2>4. \A i \in DOMAIN chain' : chain'[i] >= Len(written) + i /\ chain'[i] <= up
    <3>1. \A i \in DOMAIN chain' : i \in Nat /\ i + 1 \in DOMAIN chain /\ chain'[i] = chain[i + 1]
      BY <1>5, NextWrite
    <3>2. \A i \in DOMAIN chain' : chain[i + 1] \in Nat
      BY <3>1, Sizes
    <3>3. \A i \in DOMAIN chain' : chain[i + 1] >= Len(written) + (i + 1) /\ chain[i + 1] <= up
      BY <1>1, <3>1 DEF ChainInv
    <3>. QED BY <3>1, <3>2, <3>3, Sizes
  <2>. QED BY <1>1, <2>1, <2>2, <2>3, <2>4 DEF ChainInv
<1>6. CASE ClientSends
  <2>1. up' = up + 1 /\ UNCHANGED <<chain, late, written, closedBy>>
    BY <1>6 DEF ClientSends, UnchangedByClient, chainVars
  <2>2. Queued' <= up'
    BY <2>1, Sizes DEF Queued
  <2>3. \A i \in DOMAIN chain : chain[i] <= up + 1
    BY <1>1, Sizes DEF ChainInv
  <2>. QED BY <1>1, <2>1, <2>2, <2>3 DEF ChainInv
<1>7. CASE ReadDone
  BY <1>2, <1>7 DEF ReadDone, clientVars
<1>8. CASE TextEvent \/ CloseEvent \/ Flushed \/ ReadFailed
  BY <1>2, <1>8 DEF TextEvent, CloseEvent, Flushed, ReadFailed, CloseBoth, CloseSocket, chainVars, clientVars
<1>9. CASE Connected \/ ConnectFailed \/ ReadChunk
  BY <1>2, <1>9 DEF Connected, ConnectFailed, ReadChunk, clientVars, chainVars
<1>10. CASE ClientSendsText \/ ClientCloses \/ ClientVanishes \/ DialReads \/ ClientReads
  BY <1>2, <1>10 DEF ClientSendsText, ClientCloses, ClientVanishes, DialReads, ClientReads,
    UnchangedByClient, chainVars
<1>11. CASE TargetSends \/ TargetEnds \/ WritableCloses \/ TargetResets
  BY <1>2, <1>11 DEF TargetSends, TargetEnds, WritableCloses, TargetResets, UnchangedByTarget,
    clientVars, chainVars
<1>. QED BY <1>3, <1>4, <1>5, <1>6, <1>7, <1>8, <1>9, <1>10, <1>11 DEF Next, Relay, Dispatch

\* No step disturbs what is under way to the Worker.
LEMMA WayUpStep == Inv /\ Next => WayUp'
<1>. SUFFICES ASSUME Inv, Next PROVE WayUp'
  OBVIOUS
<1>1. WayUp
  BY DEF Inv, Uploads
<1>2. ASSUME UNCHANGED <<c2w, up>>, Queued' = Queued,
             closedBy' = "none" => closedBy = "none", cpc' = "open" => cpc = "open"
      PROVE  WayUp'
  BY <1>1, <1>2 DEF WayUp
<1>3. CASE BinaryEvent
  BY <1>3, NextUpload DEF WayUp
<1>4. CASE WriteDone
  <2>1. Len(written') = Len(written) + 1
    <3>1. chain[1] \in 1..MaxUp /\ written' = Append(written, chain[1])
      BY <1>4, NextWrite, Sizes, ElementOfSeq DEF WriteDone
    <3>. QED BY <3>1, Sizes, AppendOf
  <2>2. Queued' = Queued
    <3>1. Len(chain') = Len(chain) - 1
      BY <1>4, NextWrite
    <3>. QED BY <2>1, <3>1, Sizes DEF Queued
  <2>. QED BY <1>2, <1>4, <2>2, NextWrite DEF WriteDone
<1>5. CASE WriteFailed
  <2>1. closedBy' # "none" /\ written' = written /\ UNCHANGED <<c2w, up>>
    BY <1>5 DEF WriteFailed, clientVars
  <2>2. Queued' = Queued - 1
    <3>1. Len(chain') = Len(chain) - 1
      BY <1>5, NextWrite
    <3>. QED BY <2>1, <3>1, Sizes DEF Queued
  <2>3. Numbered(c2w, Queued, up) /\ \A i \in DOMAIN c2w : c2w[i].no \in Nat
    BY <1>1, Sizes, NumberOf DEF WayUp
  <2>4. ASSUME NEW i \in DOMAIN c2w, IsData(c2w[i]) PROVE Queued - 1 < c2w[i].no
    <3>1. Queued < c2w[i].no /\ c2w[i].no \in Nat
      BY <2>3, <2>4 DEF Numbered
    <3>. QED BY <3>1, Sizes
  <2>5. Numbered(c2w, Queued - 1, up)
    BY <2>3, <2>4 DEF Numbered
  <2>. QED BY <2>1, <2>2, <2>5 DEF WayUp
<1>6. CASE TextEvent \/ CloseEvent
  <2>1. c2w # <<>> /\ ~IsData(Head(c2w)) /\ c2w' = Tail(c2w)
    BY <1>6 DEF TextEvent, CloseEvent, Event, IsData
  <2>2. UNCHANGED <<chain, written, up, cpc>> /\ (closedBy' = "none" => closedBy = "none")
    BY <1>6 DEF TextEvent, CloseEvent, CloseSocket, clientVars, chainVars
  <2>3. Queued' = Queued
    BY <2>2 DEF Queued
  <2>. QED BY <1>1, <2>1, <2>2, <2>3, Sizes, DropOther DEF WayUp
<1>7. CASE ClientSends
  <2>1. cpc = "open" /\ c2w' = Append(c2w, Msg("data", up + 1)) /\ up' = up + 1
        /\ UNCHANGED <<chain, written, closedBy, cpc>>
    BY <1>7 DEF ClientSends, UnchangedByClient, chainVars
  <2>2. Queued' = Queued
    BY <2>1 DEF Queued
  <2>. QED BY <1>1, <2>1, <2>2, Sizes, AddData DEF WayUp
<1>8. ASSUME NEW s \in Seq(Messages), NEW m \in Messages, ~IsData(m), c2w' = Append(s, m),
             UNCHANGED <<chain, written, up, closedBy>>,
             Numbered(s, Queued, up), closedBy = "none" => Gapless(s, Queued),
             cpc' = "open" => cpc = "open" /\ s = c2w
      PROVE  WayUp'
  <2>1. Queued' = Queued
    BY <1>8 DEF Queued
  <2>. QED BY <1>1, <1>8, <2>1, AddOther DEF WayUp
<1>9. /\ Msg("text", 0) \in Messages /\ ~IsData(Msg("text", 0))
      /\ Msg("close", 0) \in Messages /\ ~IsData(Msg("close", 0))
  BY MsgOf DEF Kinds, IsData
<1>10. CASE ClientSendsText \/ ClientCloses
  BY <1>1, <1>8, <1>9, <1>10, Sizes DEF ClientSendsText, ClientCloses, UnchangedByClient, chainVars, WayUp
<1>11. CASE ClientVanishes
  <2>1. PICK n \in 0..Len(c2w) : c2w' = Append(SubSeq(c2w, 1, n), Msg("close", 0))
    BY <1>11 DEF ClientVanishes
  <2>2. cpc' = "closed" /\ UNCHANGED <<chain, written, up, closedBy>>
    BY <1>11 DEF ClientVanishes, UnchangedByClient, chainVars
  <2>3. /\ SubSeq(c2w, 1, n) \in Seq(Messages) /\ Numbered(SubSeq(c2w, 1, n), Queued, up)
        /\ closedBy = "none" => Gapless(SubSeq(c2w, 1, n), Queued)
    BY <1>1, Sizes, CutOf DEF WayUp
  <2>. QED BY <1>8, <1>9, <2>1, <2>2, <2>3
<1>12. CASE DialReads
  <2>1. UNCHANGED <<chain, written, up, closedBy>> /\ cpc = "waiting"
    BY <1>12 DEF DialReads, UnchangedByClient, chainVars
  <2>2. CASE cpc' = "open"
    <3>1. c2w' = c2w /\ Queued' = Queued
      BY <1>12, <2>1, <2>2 DEF DialReads, Queued
    <3>2. up = Queued
      BY <2>1, Sizes DEF Inv, Phases
    <3>. QED BY <1>1, <2>1, <3>1, <3>2 DEF WayUp, Reaches
  <2>3. CASE cpc' # "open"
    BY <1>1, <1>8, <1>9, <1>12, <2>1, <2>3, Sizes DEF DialReads, WayUp
  <2>. QED BY <2>2, <2>3
<1>13. CASE ClientReads
  <2>1. UNCHANGED <<chain, written, up, closedBy>> /\ cpc = "open"
    BY <1>13 DEF ClientReads, UnchangedByClient, chainVars
  <2>2. CASE c2w' = c2w
    BY <1>2, <2>1, <2>2 DEF Queued
  <2>3. CASE c2w' # c2w
    BY <1>1, <1>8, <1>9, <1>13, <2>1, <2>3, Sizes DEF ClientReads, WayUp
  <2>. QED BY <2>2, <2>3
<1>14. CASE Flushed \/ ReadFailed \/ ReadDone
  BY <1>2, <1>14 DEF Flushed, ReadFailed, ReadDone, CloseBoth, CloseSocket, Queued, chainVars, clientVars
<1>15. CASE Connected \/ ConnectFailed \/ ReadChunk
  BY <1>2, <1>15 DEF Connected, ConnectFailed, ReadChunk, Queued, clientVars, chainVars
<1>16. CASE TargetSends \/ TargetEnds \/ WritableCloses \/ TargetResets
  BY <1>2, <1>16 DEF TargetSends, TargetEnds, WritableCloses, TargetResets, Queued,
    UnchangedByTarget, clientVars, chainVars
<1>. QED BY <1>3, <1>4, <1>5, <1>6, <1>7, <1>10, <1>11, <1>12, <1>13, <1>14, <1>15, <1>16
         DEF Next, Relay, Dispatch

\* No step disturbs the account of the uploads received before the target's end.
LEMMA HeardStep == Inv /\ Next => HeardInv'
<1>. SUFFICES ASSUME Inv, Next PROVE HeardInv'
  OBVIOUS
<1>. USE DEF HeardInv
<1>1. HeardInv
  BY DEF Inv
<1>2. ASSUME UNCHANGED <<chain, written, awaited, heard, wpc>>,
             \/ closedBy' = closedBy
             \/ closedBy' # "none" /\ (closedBy' = "eof" => closedBy = "eof")
      PROVE  HeardInv'
  BY <1>1, <1>2 DEF Queued
<1>3. CASE BinaryEvent
  <2>1. UNCHANGED <<written, awaited, closedBy, wpc>> /\ Queued' = Queued + 1
    BY <1>3, NextUpload
  <2>2. heard' = IF wpc = "relaying" THEN heard + 1 ELSE heard
    BY <1>3 DEF BinaryEvent
  <2>3. closedBy = "eof" => wpc = "done"
    BY DEF Inv, Phases
  <2>4. wpc # "connecting"
    <3>1. up # 0
      BY <1>3, NextUpload, Sizes
    <3>. QED BY <3>1 DEF Inv, Phases
  <2>. QED BY <1>1, <2>1, <2>2, <2>3, <2>4
<1>4. CASE WriteDone
  <2>1. Len(written') = Len(written) + 1
    <3>1. chain[1] \in 1..MaxUp /\ written' = Append(written, chain[1])
      BY <1>4, NextWrite, Sizes, ElementOfSeq DEF WriteDone
    <3>. QED BY <3>1, Sizes, AppendOf
  <2>2. Queued' = Queued
    <3>1. Len(chain') = Len(chain) - 1
      BY <1>4, NextWrite
    <3>. QED BY <2>1, <3>1, Sizes DEF Queued
  <2>3. UNCHANGED <<heard, wpc, closedBy>> /\ awaited' = IF awaited = 0 THEN 0 ELSE awaited - 1
    BY <1>4 DEF WriteDone, Settles
  <2>4. Len(written') + awaited' >= Len(written) + awaited
    BY <2>1, <2>3, Sizes
  <2>. QED BY <1>1, <2>1, <2>2, <2>3, <2>4, Sizes
<1>5. CASE WriteFailed
  <2>1. closedBy' # "none" /\ (closedBy' = "eof" => closedBy = "eof") /\ UNCHANGED <<written, heard>>
    BY <1>5 DEF WriteFailed
  <2>. QED BY <1>1, <2>1
<1>6. CASE ReadDone
  <2>1. /\ wpc = "relaying" /\ wpc' = "flushing" /\ awaited' = Len(chain)
        /\ UNCHANGED <<written, heard, closedBy>>
    BY <1>6 DEF ReadDone
  <2>. QED BY <1>1, <2>1, Sizes DEF Queued
<1>7. CASE Flushed
  <2>1. /\ wpc = "flushing" /\ wpc' = "done" /\ awaited = 0 /\ UNCHANGED <<written, heard>>
        /\ closedBy' = IF closedBy = "none" THEN "eof" ELSE closedBy
    BY <1>7 DEF Flushed, CloseBoth, CloseSocket
  <2>. QED BY <1>1, <2>1, Sizes
<1>8. CASE ReadFailed
  <2>1. closedBy' # "none" /\ (closedBy' = "eof" => closedBy = "eof") /\ UNCHANGED <<written, heard>>
    BY <1>8 DEF ReadFailed, CloseBoth, CloseSocket
  <2>. QED BY <1>1, <2>1
<1>9. CASE Connected \/ ConnectFailed
  BY <1>1, <1>9 DEF Connected, ConnectFailed, Queued, chainVars
<1>10. CASE TextEvent \/ CloseEvent \/ ReadChunk
  BY <1>2, <1>10 DEF TextEvent, CloseEvent, CloseSocket, ReadChunk, chainVars
<1>11. CASE ClientSends \/ ClientSendsText \/ ClientCloses \/ ClientVanishes \/ DialReads \/ ClientReads
  BY <1>2, <1>11 DEF ClientSends, ClientSendsText, ClientCloses, ClientVanishes, DialReads, ClientReads,
    UnchangedByClient, chainVars
<1>12. CASE TargetSends \/ TargetEnds \/ WritableCloses \/ TargetResets
  BY <1>2, <1>12 DEF TargetSends, TargetEnds, WritableCloses, TargetResets, UnchangedByTarget, chainVars
<1>. QED BY <1>3, <1>4, <1>5, <1>6, <1>7, <1>8, <1>9, <1>10, <1>11, <1>12 DEF Next, Relay, Dispatch

\* No step disturbs the uploads.
LEMMA UploadsStep == Inv /\ Next => Uploads'
BY ChainStep, WayUpStep DEF Uploads

\* No step disturbs the answer that Dial waits for.
LEMMA AnsweringStep == Inv /\ Next => Answering'
<1>. SUFFICES ASSUME Inv, Next, cpc' = "waiting" PROVE Answering'
  BY DEF Answering
<1>1. cpc = "waiting" /\ Answering /\ w2c \in Seq(Messages)
  BY DEF Inv, Downs, TypeOK, Next, Dispatch, Relay, Connected, ConnectFailed, BinaryEvent, TextEvent,
    CloseEvent, WriteDone, WriteFailed, ReadChunk, ReadDone, Flushed, ReadFailed, ClientSends,
    ClientSendsText, ClientCloses, ClientVanishes, DialReads, ClientReads, TargetSends, TargetEnds,
    WritableCloses, TargetResets, clientVars, UnchangedByClient, UnchangedByTarget
<1>2. ASSUME NEW m \in Messages, w2c' = Append(w2c, m), wpc' = wpc, wpc # "connecting" PROVE Answering'
  BY <1>1, <1>2, AppendOf, TailOf DEF Answering
<1>3. ASSUME wpc' = wpc, w2c' = w2c, readyState' = readyState PROVE Answering'
  BY <1>1, <1>3 DEF Answering
<1>4. ASSUME wpc \notin {"connecting", "failed"}, wpc' \notin {"connecting", "failed"},
             w2c' = w2c \/ \E m \in Messages : w2c' = Append(w2c, m)
      PROVE  Answering'
  BY <1>1, <1>4, AppendOf, TailOf DEF Answering
<1>5. \A k \in Kinds, n \in Nat : Msg(k, n) \in Messages
  BY MsgOf
<1>6. CASE Connected
  BY <1>1, <1>5, <1>6 DEF Connected, Send, Answering, Msg, Kinds
<1>7. CASE ConnectFailed
  BY <1>1, <1>7 DEF ConnectFailed, Answering, Msg
<1>8. CASE TextEvent
  BY <1>3, <1>4, <1>5, <1>8 DEF TextEvent, CloseWS, Listening, Kinds
<1>9. CASE CloseEvent
  BY <1>1, <1>9, NoCloseKept DEF CloseEvent, Event, Inv, Phases, TypeOK
<1>10. CASE WriteDone \/ WriteFailed
  <2>1. wpc \notin {"connecting", "failed"}
    BY <1>10 DEF WriteDone, WriteFailed, Settles, Inv, Phases
  <2>. QED BY <1>4, <1>5, <1>10, <2>1 DEF WriteDone, WriteFailed, CloseWS, Kinds
<1>11. CASE ReadChunk
  <2>1. Head(t2w) \in Messages
    BY <1>11, TailOf DEF ReadChunk, Inv, TypeOK
  <2>. QED BY <1>4, <1>11, <2>1 DEF ReadChunk, Send
<1>12. CASE Flushed \/ ReadFailed \/ ReadDone
  BY <1>4, <1>5, <1>12 DEF Flushed, ReadFailed, ReadDone, CloseBoth, CloseWS, Kinds
<1>13. CASE BinaryEvent
  BY <1>3, <1>13 DEF BinaryEvent
<1>14. CASE ClientSends \/ ClientSendsText \/ ClientCloses \/ ClientVanishes \/ DialReads \/ ClientReads
  BY <1>1, <1>14 DEF ClientSends, ClientSendsText, ClientCloses, ClientVanishes, DialReads, ClientReads
<1>15. CASE TargetSends \/ TargetEnds \/ WritableCloses \/ TargetResets
  BY <1>3, <1>15 DEF TargetSends, TargetEnds, WritableCloses, TargetResets, UnchangedByTarget
<1>. QED BY <1>6, <1>7, <1>8, <1>9, <1>10, <1>11, <1>12, <1>13, <1>14, <1>15 DEF Next, Relay, Dispatch

\* Types and sizes of the download's state.
LEMMA Lines ==
  Inv => /\ w2c \in Seq(Messages) /\ t2w \in Seq(Messages) /\ got \in Seq(1..MaxDown)
         /\ Len(got) \in Nat /\ Len(w2c) \in Nat /\ Len(t2w) \in Nat /\ down \in Nat
         /\ Off \in {0, 1} /\ Off \in 0..Len(w2c) /\ Eofs \in {0, 1} /\ Passed \in Nat
         /\ w2c = <<>> => Len(w2c) = 0
         /\ t2w = <<>> => Len(t2w) = 0
<1>. SUFFICES ASSUME Inv PROVE Lines!2
  OBVIOUS
<1>1. /\ w2c \in Seq(Messages) /\ t2w \in Seq(Messages) /\ got \in Seq(1..MaxDown) /\ down \in Nat
  BY TunnelAssumption DEF Inv, TypeOK
<1>2. Len(got) \in Nat /\ Len(w2c) \in Nat /\ Len(t2w) \in Nat
  BY <1>1, LenProperties
<1>3. w2c # <<>> => Len(w2c) \in Nat \ {0}
  BY <1>1, TailOf
<1>4. Off \in {0, 1} /\ Off \in 0..Len(w2c) /\ Eofs \in {0, 1}
  BY <1>2, <1>3 DEF Off, Eofs
<1>5. Passed \in Nat
  BY <1>2, <1>4 DEF Passed
<1>. QED BY <1>1, <1>2, <1>4, <1>5

\* The Worker's close goes behind what is under way to the client.
LEMMA WorkerSends ==
  ASSUME Inv, NEW m \in Messages, w2c' = Append(w2c, m), readyState = "open",
         UNCHANGED <<got, t2w, down, targetEnd, cpc>>,
         m.kind = "close" /\ readyState' # "open", cpc = "waiting" => w2c # <<>>
  PROVE  WayDown'
<1>1. WayDown /\ ~IsData(m) /\ Off' = Off
  BY AppendOf, Lines DEF Inv, Downs, Off, IsData
<1>2. Bounded(w2c', down)
  BY <1>1, Lines, AppendLine DEF WayDown
<1>3. ASSUME cpc # "closed" PROVE InLine(w2c', Off, Len(got)) /\ DataThen("close", w2c', Off)
  BY <1>1, <1>3, Lines, AppendLine DEF WayDown, OnWire
<1>. QED BY <1>1, <1>2, <1>3 DEF WayDown, OnWire

\* No step disturbs what is under way to the client.
LEMMA WayDownStep == Inv /\ Next => WayDown'
<1>. SUFFICES ASSUME Inv, Next PROVE WayDown'
  OBVIOUS
<1>1. WayDown
  BY DEF Inv, Downs
<1>2. ASSUME UNCHANGED <<got, w2c, t2w, down, targetEnd>>,
             cpc' # "closed" => cpc' = cpc /\ (readyState' = "open" => readyState = "open")
      PROVE  WayDown'
  BY <1>1, <1>2 DEF WayDown, OnWire, Off, Passed, Eofs
<1>3. Msg("close", 1000) \in Messages /\ Msg("close", 1002) \in Messages /\ Msg("close", 1011) \in Messages
      /\ Msg("ok", 0) \in Messages /\ Msg("err", 0) \in Messages
      /\ \A n \in Nat : Msg("close", n).kind = "close"
      /\ Msg("ok", 0).kind = "ok" /\ Msg("err", 0).kind = "err"
  BY MsgOf DEF Kinds
<1>4. ASSUME UNCHANGED <<got, t2w, down, targetEnd, cpc>>, NEW code \in {1000, 1002}, CloseWS(code),
             wpc # "connecting"
      PROVE  WayDown'
  <2>1. cpc = "waiting" => w2c # <<>>
    BY <1>4 DEF Inv, Downs, Answering
  <2>2. CASE readyState = "open"
    BY <1>3, <1>4, <2>1, <2>2, WorkerSends DEF CloseWS
  <2>3. CASE readyState # "open"
    BY <1>2, <1>4, <2>3 DEF CloseWS
  <2>. QED BY <2>2, <2>3
<1>5. CASE Connected
  <2>1. cpc # "open" /\ UNCHANGED <<got, t2w, down, targetEnd, cpc, readyState>>
    BY <1>5 DEF Connected, Inv, Phases, clientVars, targetVars
  <2>2. CASE cpc = "waiting"
    <3>1. w2c = <<>> /\ w2c' = Append(w2c, Msg("ok", 0))
      BY <1>5, <2>2 DEF Connected, Send, Inv, Downs, Answering
    <3>2. Off = 0 /\ Off' = 1 /\ Len(w2c') = 1 /\ Len(w2c) = 0
      BY <1>3, <2>1, <2>2, <3>1, Lines, AppendOf DEF Off
    <3>3. 1 + 1..Len(w2c') = {} /\ Passed' = Passed
      BY <2>1, <3>2, Lines DEF Passed
    <3>4. Bounded(w2c', down)
      BY <1>1, <1>3, <3>1, Lines, AppendLine DEF WayDown, IsData
    <3>. QED BY <1>1, <2>1, <2>2, <3>2, <3>3, <3>4 DEF WayDown, OnWire, InLine, DataThen, AllData, Eofs
  <2>3. CASE cpc = "closed"
    <3>1. Bounded(w2c', down)
      BY <1>1, <1>3, <1>5, Lines, AppendLine DEF Connected, Send, WayDown, IsData
    <3>. QED BY <1>1, <2>1, <2>3, <3>1 DEF WayDown, OnWire
  <2>. QED BY <2>1, <2>2, <2>3 DEF Inv, TypeOK
<1>6. CASE ConnectFailed
  <2>1. cpc # "open" /\ UNCHANGED <<got, t2w, down, targetEnd, cpc>>
    BY <1>6 DEF ConnectFailed, Inv, Phases, clientVars, targetVars
  <2>2. CASE readyState # "open"
    BY <1>2, <1>6, <2>1, <2>2 DEF ConnectFailed
  <2>3. CASE readyState = "open"
    <3>. DEFINE s == Append(w2c, Msg("err", 0))
    <3>1. readyState' = "closing" /\ w2c' = Append(s, Msg("close", 1011))
      BY <1>3, <1>6, <2>3, Lines DEF ConnectFailed
    <3>2. s \in Seq(Messages) /\ Len(s) = Len(w2c) + 1
      BY <1>3, Lines, AppendOf
    <3>3. Bounded(s, down)
      BY <1>1, <1>3, Lines, AppendLine DEF WayDown, IsData
    <3>. HIDE DEF s
    <3>4. Bounded(w2c', down)
      <4>1. 0 \in 0..Len(s) /\ ~IsData(Msg("close", 1011))
        BY <1>3, <3>2, Lines DEF IsData
      <4>2. Bounded(Append(s, Msg("close", 1011)), down)
        <5>1. 0 \in Nat /\ Msg("close", 1011) \in Messages
          BY <1>3
        <5>. QED BY <3>2, <3>3, <4>1, <5>1, AppendLine
      <4>. QED BY <3>1, <4>2
    <3>5. ASSUME cpc = "waiting"
          PROVE  Off' = 1 /\ InLine(w2c', 1, Len(got)) /\ DataThen("close", w2c', 1)
      <4>1. w2c = <<>> /\ Len(s) = 1
        BY <1>6, <3>2, <3>5, Lines DEF ConnectFailed, Inv, Downs, Answering
      <4>2. Len(w2c') = 2 /\ w2c'[2] = Msg("close", 1011) /\ w2c' # <<>>
        BY <1>3, <3>1, <3>2, <4>1, AppendOf
      <4>3. \A i \in 1 + 1..Len(w2c') : i = Len(w2c') /\ i = 2
        BY <4>2
      <4>. QED BY <1>3, <2>1, <3>5, <4>2, <4>3 DEF Off, InLine, DataThen, IsData
    <3>. QED BY <1>1, <2>1, <3>1, <3>4, <3>5 DEF WayDown, OnWire, Inv, TypeOK
  <2>. QED BY <2>2, <2>3
<1>7. CASE TextEvent \/ WriteFailed
  <2>1. UNCHANGED <<got, t2w, down, targetEnd, cpc>>
    BY <1>7 DEF TextEvent, WriteFailed, clientVars, targetVars
  <2>2. \/ wpc # "connecting" /\ \E code \in {1000, 1002} : CloseWS(code)
        \/ UNCHANGED <<w2c, readyState>>
    BY <1>7 DEF TextEvent, WriteFailed, Settles, Listening, Inv, Phases
  <2>. QED BY <1>2, <1>4, <2>1, <2>2
<1>8. CASE Flushed \/ ReadFailed
  <2>1. UNCHANGED <<got, t2w, down, targetEnd, cpc>> /\ wpc # "connecting"
    BY <1>8 DEF Flushed, ReadFailed, clientVars, targetVars
  <2>2. CloseWS(1000) \/ UNCHANGED <<w2c, readyState>>
    BY <1>8 DEF Flushed, ReadFailed, CloseBoth
  <2>. QED BY <1>2, <1>4, <2>1, <2>2
<1>9. CASE CloseEvent
  <2>1. cpc = "closed" /\ UNCHANGED <<got, w2c, t2w, down, targetEnd, cpc>>
    BY <1>9, NoCloseKept DEF CloseEvent, Event, Inv, Phases, TypeOK, clientVars, targetVars
  <2>. QED BY <1>2, <2>1
<1>10. CASE BinaryEvent \/ WriteDone \/ ReadDone
  BY <1>2, <1>10 DEF BinaryEvent, WriteDone, ReadDone, clientVars, targetVars
<1>11. CASE ReadChunk
  <2>. DEFINE m == Head(t2w)
  <2>1. /\ t2w # <<>> /\ IsData(m) /\ t2w' = Tail(t2w) /\ m \in Messages
        /\ UNCHANGED <<got, cpc, readyState, down, targetEnd, wpc>>
        /\ w2c' = IF readyState = "open" THEN Append(w2c, m) ELSE w2c
        /\ wpc = "relaying"
    BY <1>11, Lines, TailOf DEF ReadChunk, Send, IsData, clientVars
  <2>2. /\ Bounded(t2w', down) /\ m.no \in 1..down
        /\ DataThen("eof", t2w', 0) /\ (AllData(t2w, 0) => AllData(t2w', 0))
        /\ InLine(t2w, 0, Passed) => m.no = Passed + 1 /\ InLine(t2w', 0, Passed + 1)
    BY <1>1, <2>1, Lines, TailLine DEF WayDown
  <2>3. Bounded(w2c', down)
    BY <1>1, <2>1, <2>2, Lines, AppendLine DEF WayDown
  <2>. HIDE DEF m
  <2>4. ASSUME cpc # "closed", readyState = "open" PROVE OnWire'
    <3>1. /\ w2c' = Append(w2c, m) /\ Len(w2c') = Len(w2c) + 1
          /\ InLine(t2w, 0, Passed) /\ down = Passed + Len(t2w) - Eofs
          /\ InLine(w2c, Off, Len(got)) /\ AllData(w2c, Off)
      BY <1>1, <2>1, <2>4, Lines, AppendOf DEF WayDown, OnWire
    <3>2. Off' = Off
      BY <2>1, <3>1, Lines, AppendOf DEF Inv, Downs, Answering, Off
    <3>3. m.no = Len(got) + Len(w2c) + 1 - Off
      BY <2>2, <3>1, Lines DEF Passed
    <3>4. InLine(w2c', Off, Len(got)) /\ AllData(w2c', Off) /\ DataThen("close", w2c', Off)
      BY <2>1, <3>1, <3>3, Lines, AppendLine
    <3>5. Passed' = Passed + 1
      BY <2>1, <3>1, <3>2, Lines DEF Passed
    <3>6. Len(t2w') = Len(t2w) - 1 /\ Eofs' = Eofs
      <4>1. /\ Len(t2w') = Len(t2w) - 1 /\ t2w' \in Seq(Messages) /\ m = t2w[1]
            /\ \A i \in DOMAIN t2w' : t2w'[i] = t2w[i + 1]
            /\ Len(t2w) \in Nat \ {0}
        BY <2>1, Lines, TailOf DEF m
      <4>2. CASE t2w' = <<>>
        <5>1. Len(t2w) = 1
          BY <4>1, <4>2
        <5>. QED BY <2>1, <4>1, <4>2, <5>1 DEF Eofs, IsData
      <4>3. CASE t2w' # <<>>
        <5>1. Len(t2w') \in DOMAIN t2w' /\ Len(t2w') + 1 = Len(t2w)
          BY <4>1, <4>3, TailOf, LenProperties
        <5>2. t2w'[Len(t2w')] = t2w[Len(t2w)]
          BY <4>1, <5>1
        <5>. QED BY <2>1, <4>1, <4>3, <5>2 DEF Eofs
      <4>. QED BY <4>2, <4>3
    <3>7. down = (Passed + 1) + Len(t2w') - Eofs
      <4>1. \A p, l \in Nat, e \in {0, 1} : p + l - e = (p + 1) + (l - 1) - e
        OBVIOUS
      <4>2. Passed \in Nat /\ Len(t2w) \in Nat /\ Eofs \in {0, 1}
        BY Lines
      <4>. QED BY <3>1, <3>6, <4>1, <4>2
    <3>. QED BY <2>1, <2>2, <3>1, <3>2, <3>4, <3>5, <3>6, <3>7 DEF OnWire
  <2>5. ASSUME cpc # "closed", readyState # "open" PROVE OnWire'
    BY <1>1, <2>1, <2>5 DEF WayDown, OnWire, Off
  <2>6. OnWire'
    BY <2>1, <2>4, <2>5 DEF OnWire
  <2>. QED BY <1>1, <2>1, <2>2, <2>3, <2>6 DEF WayDown
<1>12. CASE ClientSends \/ ClientSendsText \/ ClientCloses
  BY <1>2, <1>12 DEF ClientSends, ClientSendsText, ClientCloses, UnchangedByClient, targetVars
<1>13. CASE ClientVanishes
  <2>1. w2c' = <<>> /\ cpc' = "closed" /\ UNCHANGED <<got, t2w, down, targetEnd>>
    BY <1>13 DEF ClientVanishes, UnchangedByClient, targetVars
  <2>2. Bounded(<<>>, down)
    BY DEF Bounded
  <2>. QED BY <1>1, <2>1, <2>2 DEF WayDown, OnWire
<1>14. ASSUME w2c # <<>>, w2c' = Tail(w2c), UNCHANGED <<got, t2w, down, targetEnd>>, cpc' = "closed"
       PROVE  WayDown'
  BY <1>1, <1>14, Lines, TailLine DEF WayDown, OnWire
<1>15. CASE DialReads
  <2>1. w2c # <<>> /\ w2c' = Tail(w2c) /\ UNCHANGED <<got, t2w, down, targetEnd, readyState>>
        /\ cpc = "waiting" /\ cpc' \in {"open", "closed"}
    BY <1>15 DEF DialReads, UnchangedByClient, targetVars
  <2>2. CASE cpc' = "open"
    <3>1. Off = 1 /\ Off' = 0
      BY <2>1, <2>2 DEF Off
    <3>2. Len(w2c') = Len(w2c) - 1
      BY <2>1, Lines, TailOf
    <3>3. Passed' = Passed
      BY <2>1, <3>1, <3>2, Lines DEF Passed
    <3>. QED BY <1>1, <2>1, <3>1, <3>3, Lines, TailLine DEF WayDown, OnWire, Eofs
  <2>. QED BY <1>14, <2>1, <2>2
<1>16. CASE ClientReads
  <2>1. w2c # <<>> /\ w2c' = Tail(w2c) /\ UNCHANGED <<t2w, down, targetEnd, readyState>> /\ cpc = "open"
    BY <1>16 DEF ClientReads, UnchangedByClient, targetVars
  <2>2. CASE Head(w2c).kind = "close"
    BY <1>14, <1>16, <2>1, <2>2 DEF ClientReads
  <2>3. CASE Head(w2c).kind # "close"
    <3>. DEFINE n == Head(w2c).no
    <3>1. got' = Append(got, n) /\ cpc' = "open" /\ Off = 0 /\ Off' = 0
      BY <1>16, <2>1, <2>3 DEF ClientReads, Off
    <3>2. InLine(w2c, 0, Len(got)) /\ DataThen("close", w2c, 0) /\ Bounded(w2c, down)
      BY <1>1, <2>1, <3>1 DEF WayDown, OnWire
    <3>3. IsData(Head(w2c))
      BY <2>1, <2>3, <3>2, Lines, TailOf DEF DataThen
    <3>4. n = Len(got) + 1 /\ n \in 1..down
      BY <2>1, <3>2, <3>3, Lines, TailLine
    <3>5. /\ InLine(w2c', 0, Len(got) + 1) /\ DataThen("close", w2c', 0) /\ Bounded(w2c', down)
          /\ AllData(w2c, 0) => AllData(w2c', 0)
      BY <2>1, <3>2, Lines, TailLine
    <3>. HIDE DEF n
    <3>6. Len(got') = Len(got) + 1 /\ Len(got') <= down /\ \A i \in DOMAIN got' : got'[i] = i
      <4>1. got \in Seq(1..MaxDown) /\ n \in 1..MaxDown
        BY <3>4, Lines, TunnelAssumption DEF Inv, TypeOK
      <4>2. /\ Len(got') = Len(got) + 1 /\ DOMAIN got' = DOMAIN got \cup {Len(got) + 1}
            /\ got'[Len(got) + 1] = n /\ \A i \in DOMAIN got : got'[i] = got[i]
        BY <3>1, <4>1, AppendOf
      <4>. QED BY <1>1, <3>4, <4>2, Lines DEF WayDown
    <3>7. Passed' = Passed
      <4>1. Len(w2c') = Len(w2c) - 1
        BY <2>1, Lines, TailOf
      <4>. QED BY <3>1, <3>6, <4>1, Lines DEF Passed
    <3>. QED BY <1>1, <2>1, <3>1, <3>5, <3>6, <3>7 DEF WayDown, OnWire, Eofs
  <2>. QED BY <2>2, <2>3
<1>17. CASE TargetSends \/ TargetEnds
  <2>. DEFINE m == IF targetEnd' = "eof" THEN Msg("eof", 0) ELSE Msg("data", down + 1)
              d == IF targetEnd' = "eof" THEN 0 ELSE 1
  <2>1. /\ UNCHANGED <<got, w2c, cpc, readyState>> /\ targetEnd = "no"
        /\ t2w' = Append(t2w, m) /\ down' = down + d /\ targetEnd' \in {"no", "eof"}
    BY <1>17, Lines DEF TargetSends, TargetEnds, UnchangedByTarget, clientVars
  <2>2. /\ m \in Messages /\ (IsData(m) <=> targetEnd' # "eof") /\ (IsData(m) => m.no = down + 1 /\ d = 1)
        /\ (~IsData(m) => m.kind = "eof" /\ d = 0) /\ d \in {0, 1}
    BY <2>1, Lines, MsgOf DEF Kinds, IsData
  <2>. HIDE DEF m, d
  <2>3. /\ AllData(t2w, 0) /\ Bounded(t2w, down) /\ Bounded(w2c, down) /\ Len(got) <= down
    BY <1>1, <2>1 DEF WayDown
  <2>4. Bounded(t2w, down') /\ Bounded(w2c, down') /\ Len(got) <= down' /\ (IsData(m) => m.no \in 1..down')
    BY <2>1, <2>2, <2>3, Lines DEF Bounded
  <2>5. 0 \in 0..Len(t2w) /\ Len(t2w') = Len(t2w) + 1 /\ t2w'[Len(t2w) + 1] = m /\ t2w' # <<>>
    BY <2>1, <2>2, Lines, AppendOf
  <2>6. /\ Bounded(t2w', down') /\ DataThen("eof", t2w', 0)
        /\ targetEnd' = "no" => AllData(t2w', 0)
    BY <2>1, <2>2, <2>3, <2>4, <2>5, AppendLine, Lines
  <2>7. Eofs = 0 /\ Eofs' = 1 - d
    <3>1. t2w # <<>> => Len(t2w) \in 0 + 1..Len(t2w)
      BY Lines, TailOf
    <3>2. Eofs = 0
      BY <2>3, <3>1 DEF Eofs, AllData, IsData
    <3>. QED BY <2>2, <2>5, <3>2 DEF Eofs, IsData
  <2>8. ASSUME cpc # "closed", readyState = "open"
        PROVE  InLine(t2w', 0, Passed) /\ down' = Passed + Len(t2w') - Eofs'
    <3>1. InLine(t2w, 0, Passed) /\ down = Passed + Len(t2w)
      BY <1>1, <2>7, <2>8, Lines DEF WayDown, OnWire
    <3>2. IsData(m) => m.no = Passed + Len(t2w) + 1 - 0
      BY <2>2, <3>1, Lines
    <3>3. InLine(t2w', 0, Passed)
      BY <2>1, <2>2, <2>5, <3>1, <3>2, AppendLine, Lines
    <3>4. Passed + Len(t2w) + d = Passed + (Len(t2w) + 1) - (1 - d)
      BY <2>2, Lines
    <3>. QED BY <2>1, <2>5, <2>7, <3>1, <3>3, <3>4
  <2>9. Off' = Off /\ Passed' = Passed
    BY <2>1 DEF Off, Passed
  <2>. QED BY <1>1, <2>1, <2>4, <2>6, <2>8, <2>9 DEF WayDown, OnWire
<1>18. CASE WritableCloses \/ TargetResets
  <2>1. UNCHANGED <<got, w2c, t2w, down, cpc, readyState>> /\ (targetEnd' = "no" => targetEnd = "no")
    BY <1>18 DEF WritableCloses, TargetResets, UnchangedByTarget, clientVars
  <2>. QED BY <1>1, <2>1 DEF WayDown, OnWire, Off, Passed, Eofs
<1>. QED BY <1>5, <1>6, <1>7, <1>8, <1>9, <1>10, <1>11, <1>12, <1>13, <1>15, <1>16, <1>17, <1>18
         DEF Next, Relay, Dispatch

\* A direction ends with the normal close only if the last message is that close.
LEMMA EndedOf ==
  ASSUME NEW s \in Seq(Messages)
  PROVE  /\ \A m \in Messages : Ended(Append(s, m)) <=> m = Msg("close", 1000)
         /\ s # <<>> /\ Ended(Tail(s)) => Ended(s)
         /\ ~Ended(<<>>)
<1>1. \A m \in Messages : Ended(Append(s, m)) <=> m = Msg("close", 1000)
  BY AppendOf DEF Ended
<1>2. ASSUME s # <<>>, Ended(Tail(s)) PROVE Ended(s)
  <2>1. /\ Len(Tail(s)) = Len(s) - 1 /\ Tail(s) \in Seq(Messages) /\ Len(s) \in Nat
        /\ \A i \in DOMAIN Tail(s) : Tail(s)[i] = s[i + 1]
    BY <1>2, TailOf
  <2>2. Len(Tail(s)) \in DOMAIN Tail(s)
    BY <1>2, <2>1, TailOf, LenProperties DEF Ended
  <2>. QED BY <1>2, <2>1, <2>2 DEF Ended
<1>3. ~Ended(<<>>)
  BY DEF Ended
<1>. QED BY <1>1, <1>2, <1>3

\* No step disturbs the count behind the normal close.
LEMMA CompleteStep == Inv /\ Next => Complete'
<1>. SUFFICES ASSUME Inv, Next PROVE Complete'
  OBVIOUS
<1>1. Complete
  BY DEF Inv, Downs
<1>2. ASSUME UNCHANGED <<got, down, endCode, closedBy>>,
             cpc' # "closed" => cpc' = cpc /\ Passed' = Passed, Ended(w2c') => Ended(w2c)
      PROVE  Complete'
  BY <1>1, <1>2 DEF Complete
<1>3. ASSUME UNCHANGED <<got, down, endCode, cpc, closedBy>>, NEW m \in Messages, m # Msg("close", 1000),
             w2c' = Append(w2c, m)
      PROVE  Complete'
  BY <1>1, <1>3, EndedOf, Lines DEF Complete
<1>4. ASSUME UNCHANGED <<got, down, endCode>>, closedBy' \notin {"none", "eof"}
      PROVE  Complete'
  BY <1>1, <1>4 DEF Complete
<1>5. \A k \in Kinds, n \in Nat : Msg(k, n) \in Messages /\ Msg(k, n).kind = k /\ Msg(k, n).no = n
  BY MsgOf
<1>6. CASE Connected
  <2>1. UNCHANGED <<got, down, endCode, cpc, closedBy>> /\ closedBy = "none"
    BY <1>6 DEF Connected, clientVars, targetVars, Inv, Phases
  <2>2. ~Ended(w2c')
    BY <1>1, <1>5, <1>6, <2>1, Lines, EndedOf DEF Connected, Send, Complete, Kinds, Msg
  <2>. QED BY <1>1, <2>1, <2>2 DEF Complete
<1>7. CASE ConnectFailed
  <2>1. UNCHANGED <<got, down, endCode, cpc, closedBy>> /\ closedBy = "none"
    BY <1>7 DEF ConnectFailed, clientVars, targetVars, Inv, Phases
  <2>2. ~Ended(w2c')
    <3>1. CASE w2c' = w2c
      BY <1>1, <2>1, <3>1 DEF Complete
    <3>2. CASE w2c' # w2c
      <4>. DEFINE s == Append(w2c, Msg("err", 0))
      <4>1. w2c' = Append(s, Msg("close", 1011)) /\ s \in Seq(Messages)
        BY <1>5, <1>7, <3>2, Lines, AppendOf DEF ConnectFailed, Kinds
      <4>2. Msg("close", 1011) \in Messages /\ Msg("close", 1011) # Msg("close", 1000)
        BY <1>5 DEF Kinds, Msg
      <4>. HIDE DEF s
      <4>. QED BY <4>1, <4>2, EndedOf
    <3>. QED BY <3>1, <3>2
  <2>. QED BY <1>1, <2>1, <2>2 DEF Complete
<1>8. CASE TextEvent
  <2>1. UNCHANGED <<got, down, endCode, cpc, closedBy>>
    BY <1>8 DEF TextEvent, clientVars, chainVars, targetVars
  <2>2. Msg("close", 1002) \in Messages /\ Msg("close", 1002) # Msg("close", 1000)
    BY <1>5 DEF Kinds, Msg
  <2>3. CASE w2c' = w2c
    BY <1>2, <2>1, <2>3 DEF Passed, Off
  <2>. QED BY <1>3, <1>8, <2>1, <2>2, <2>3 DEF TextEvent, CloseWS
<1>9. CASE CloseEvent
  <2>1. UNCHANGED <<got, down, endCode, cpc, w2c>> /\ cpc = "closed"
    BY <1>9, NoCloseKept DEF CloseEvent, Event, Inv, Phases, TypeOK, clientVars, targetVars
  <2>2. closedBy' = closedBy \/ closedBy' = "client"
    BY <1>9 DEF CloseEvent, CloseSocket
  <2>. QED BY <1>2, <1>4, <2>1, <2>2
<1>10. CASE WriteFailed
  <2>1. UNCHANGED <<got, down, endCode, cpc>>
    BY <1>10 DEF WriteFailed, clientVars, targetVars
  <2>2. closedBy' = "write" \/ UNCHANGED <<closedBy, w2c>>
    BY <1>10 DEF WriteFailed
  <2>. QED BY <1>2, <1>4, <2>1, <2>2 DEF Passed, Off
<1>11. CASE ReadFailed
  <2>1. UNCHANGED <<got, down, endCode, cpc>>
    BY <1>11 DEF ReadFailed, clientVars, targetVars
  <2>2. closedBy' = "read" \/ UNCHANGED <<closedBy, w2c>>
    BY <1>11 DEF ReadFailed, CloseBoth, CloseSocket
  <2>. QED BY <1>2, <1>4, <2>1, <2>2 DEF Passed, Off
<1>12. CASE Flushed
  <2>1. UNCHANGED <<got, down, endCode, cpc, t2w>> /\ wpc = "flushing" /\ closedBy' # "none"
    BY <1>12 DEF Flushed, CloseBoth, CloseSocket, clientVars, targetVars
  <2>2. CASE closedBy # "none"
    BY <1>2, <1>12, <2>1, <2>2 DEF Flushed, CloseBoth, CloseSocket, Passed, Off
  <2>3. CASE closedBy = "none"
    <3>1. endCode # 1000 /\ ~Ended(w2c) /\ Len(t2w) = 1 /\ t2w[1].kind = "eof"
      BY <1>1, <2>1, <2>3 DEF Complete, Inv, Phases
    <3>2. ASSUME cpc # "closed", Ended(w2c') PROVE down = Passed' - 1
      <4>1. readyState = "open" /\ w2c' = Append(w2c, Msg("close", 1000))
        BY <1>12, <2>3, <3>1, <3>2 DEF Flushed, CloseBoth, CloseWS
      <4>2. down = Passed + Len(t2w) - Eofs
        BY <3>2, <4>1 DEF Inv, Downs, WayDown, OnWire
      <4>3. Eofs = 1
        <5>1. t2w # <<>>
          BY <3>1, Lines
        <5>. QED BY <3>1, <5>1 DEF Eofs
      <4>4. Msg("close", 1000) \in Messages
        BY <1>5 DEF Kinds
      <4>5. Len(w2c') = Len(w2c) + 1 /\ w2c' # <<>>
        BY <4>1, <4>4, Lines, AppendOf
      <4>6. Off' = Off
        BY <2>1, <4>5 DEF Off, Inv, Downs, Answering
      <4>7. Passed' = Passed + 1
        BY <2>1, <4>5, <4>6, Lines DEF Passed
      <4>. QED BY <3>1, <4>2, <4>3, <4>7, Lines
    <3>. QED BY <2>1, <3>1, <3>2 DEF Complete
  <2>. QED BY <2>2, <2>3
<1>13. CASE ReadChunk
  <2>1. UNCHANGED <<got, down, endCode, cpc, closedBy>>
    BY <1>13 DEF ReadChunk, clientVars, targetVars
  <2>2. Head(t2w) \in Messages /\ Head(t2w) # Msg("close", 1000)
    BY <1>13, Lines, TailOf DEF ReadChunk, Msg
  <2>3. CASE w2c' = w2c
    BY <1>2, <2>1, <2>3 DEF Passed, Off
  <2>. QED BY <1>3, <1>13, <2>1, <2>2, <2>3 DEF ReadChunk, Send
<1>14. CASE BinaryEvent \/ WriteDone \/ ReadDone
  BY <1>2, <1>14 DEF BinaryEvent, WriteDone, ReadDone, clientVars, targetVars, Passed, Off
<1>15. CASE ClientSends \/ ClientSendsText \/ ClientCloses
  BY <1>2, <1>15 DEF ClientSends, ClientSendsText, ClientCloses, UnchangedByClient, targetVars, Passed, Off
<1>16. CASE ClientVanishes
  BY <1>2, <1>16, EndedOf, Lines DEF ClientVanishes, UnchangedByClient, targetVars
<1>17. CASE DialReads
  <2>1. w2c # <<>> /\ w2c' = Tail(w2c) /\ UNCHANGED <<got, down, closedBy>>
        /\ cpc = "waiting" /\ cpc' \in {"open", "closed"}
    BY <1>17 DEF DialReads, UnchangedByClient, targetVars
  <2>2. Head(w2c) = w2c[1] /\ Len(w2c') = Len(w2c) - 1 /\ (Ended(w2c') => Ended(w2c))
    BY <2>1, Lines, TailOf, EndedOf
  <2>3. endCode' = endCode
    BY <1>17, <2>1, <2>2 DEF DialReads, Inv, Downs, Answering
  <2>4. cpc' # "closed" => Passed' = Passed
    <3>1. Off = 1 /\ (cpc' # "closed" => Off' = 0)
      BY <2>1 DEF Off
    <3>. QED BY <2>1, <2>2, <3>1, Lines DEF Passed
  <2>. QED BY <1>1, <2>1, <2>2, <2>3, <2>4 DEF Complete
<1>18. CASE ClientReads
  <2>1. w2c # <<>> /\ w2c' = Tail(w2c) /\ UNCHANGED <<down, closedBy>> /\ cpc = "open" /\ Off = 0
    BY <1>18 DEF ClientReads, UnchangedByClient, targetVars, Off
  <2>2. /\ Head(w2c) = w2c[1] /\ Len(w2c') = Len(w2c) - 1 /\ (Ended(w2c') => Ended(w2c))
        /\ Head(w2c) \in Messages /\ 1 \in 0 + 1..Len(w2c)
    BY <2>1, Lines, TailOf, EndedOf
  <2>3. CASE Head(w2c).kind # "close"
    <3>1. got' = Append(got, Head(w2c).no) /\ cpc' = "open" /\ endCode' = endCode /\ Off' = 0
      BY <1>18, <2>1, <2>3 DEF ClientReads, Off
    <3>2. endCode # 1000
      BY <2>1 DEF Inv, Phases
    <3>3. Head(w2c).no \in 1..MaxDown
      <4>1. IsData(Head(w2c))
        BY <2>1, <2>2, <2>3 DEF Inv, Downs, WayDown, OnWire, DataThen
      <4>2. Head(w2c).no \in 1..down
        BY <2>1, <2>2, <4>1, TailLine, Lines DEF Inv, Downs, WayDown
      <4>. QED BY <4>2, TunnelAssumption DEF Inv, TypeOK
    <3>4. Len(got') = Len(got) + 1
      BY <3>1, <3>3, Lines, AppendOf
    <3>5. Passed' = Passed
      BY <2>1, <2>2, <3>1, <3>4, Lines DEF Passed
    <3>. QED BY <1>1, <2>1, <2>2, <3>1, <3>2, <3>5 DEF Complete
  <2>4. CASE Head(w2c).kind = "close"
    <3>1. endCode' = Head(w2c).no /\ cpc' = "closed" /\ got' = got
      BY <1>18, <2>1, <2>4 DEF ClientReads
    <3>2. Len(w2c) = 1
      BY <2>1, <2>2, <2>4 DEF Inv, Downs, WayDown, OnWire, DataThen, IsData
    <3>3. endCode' = 1000 => Ended(w2c)
      BY <2>1, <2>2, <2>4, <3>1, <3>2 DEF Ended, Messages, Msg
    <3>4. Ended(w2c) /\ closedBy = "eof" => down = Len(got)
      BY <1>1, <2>1, <3>2, Lines DEF Complete, Passed
    <3>. QED BY <1>1, <2>1, <2>2, <3>1, <3>3, <3>4 DEF Complete
  <2>. QED BY <2>3, <2>4
<1>19. CASE TargetSends \/ TargetEnds
  <2>1. closedBy = "none" /\ UNCHANGED <<got, endCode, closedBy, w2c>>
    BY <1>19 DEF TargetSends, TargetEnds, UnchangedByTarget, clientVars, Inv, Phases
  <2>. QED BY <1>1, <2>1 DEF Complete
<1>20. CASE WritableCloses \/ TargetResets
  BY <1>2, <1>20 DEF WritableCloses, TargetResets, UnchangedByTarget, clientVars, Passed, Off
<1>. QED BY <1>6, <1>7, <1>8, <1>9, <1>10, <1>11, <1>12, <1>13, <1>14, <1>15, <1>16, <1>17, <1>18, <1>19, <1>20
         DEF Next, Relay, Dispatch

\* No step disturbs the downloads.
LEMMA DownsStep == Inv /\ Next => Downs'
BY AnsweringStep, WayDownStep, CompleteStep DEF Downs

\* The messages towards the client, and their close codes.
LEMMA CodedStep == Inv /\ Next => w2c' \in Seq(Messages) /\ Coded'
<1>. SUFFICES ASSUME Inv, Next PROVE w2c' \in Seq(Messages) /\ Coded'
  OBVIOUS
<1>1. w2c \in Seq(Messages) /\ Coded
  BY DEF Inv, TypeOK
<1>2. ASSUME NEW s \in Seq(Messages), \A i \in DOMAIN s : s[i].kind = "close" => s[i].no \in {1000, 1002, 1011},
             NEW m \in Messages, m.kind = "close" => m.no \in {1000, 1002, 1011}
      PROVE  /\ Append(s, m) \in Seq(Messages)
             /\ \A i \in DOMAIN Append(s, m) :
                  Append(s, m)[i].kind = "close" => Append(s, m)[i].no \in {1000, 1002, 1011}
  BY <1>2, AppendOf
<1>3. ASSUME NEW m \in Messages, m.kind = "close" => m.no \in {1000, 1002, 1011}, w2c' = Append(w2c, m)
      PROVE  w2c' \in Seq(Messages) /\ Coded'
  BY <1>1, <1>2, <1>3 DEF Coded
<1>4. ASSUME w2c' = w2c PROVE w2c' \in Seq(Messages) /\ Coded'
  BY <1>1, <1>4 DEF Coded
<1>5. \A k \in Kinds, n \in Nat : Msg(k, n) \in Messages /\ Msg(k, n).kind = k /\ Msg(k, n).no = n
  BY MsgOf
<1>6. CASE \E code \in {1000, 1002} : CloseWS(code)
  BY <1>3, <1>4, <1>5, <1>6 DEF CloseWS, Kinds
<1>7. CASE Connected
  <2>1. Msg("ok", 0) \in Messages /\ Msg("ok", 0).kind # "close"
    BY <1>5 DEF Kinds
  <2>2. w2c' = w2c \/ w2c' = Append(w2c, Msg("ok", 0))
    BY <1>7 DEF Connected, Send
  <2>. QED BY <1>3, <1>4, <2>1, <2>2
<1>8. CASE ConnectFailed
  <2>1. CASE w2c' # w2c
    <3>. DEFINE s == Append(w2c, Msg("err", 0))
    <3>1. w2c' = Append(s, Msg("close", 1011))
      BY <1>5, <1>8, <2>1, Lines DEF ConnectFailed, Kinds
    <3>2. Msg("err", 0) \in Messages /\ Msg("err", 0).kind # "close"
          /\ Msg("close", 1011) \in Messages /\ Msg("close", 1011).no = 1011
      BY <1>5 DEF Kinds
    <3>3. s \in Seq(Messages) /\ \A i \in DOMAIN s : s[i].kind = "close" => s[i].no \in {1000, 1002, 1011}
      BY <1>1, <1>2, <3>2 DEF Coded
    <3>. HIDE DEF s
    <3>. QED BY <1>2, <3>1, <3>2, <3>3 DEF Coded
  <2>. QED BY <1>4, <2>1
<1>9. CASE TextEvent \/ WriteFailed \/ Flushed \/ ReadFailed
  BY <1>4, <1>6, <1>9 DEF TextEvent, WriteFailed, Flushed, ReadFailed, CloseBoth
<1>10. CASE ReadChunk
  <2>1. Head(t2w) \in Messages /\ Head(t2w).kind = "data"
    BY <1>10, Lines, TailOf DEF ReadChunk
  <2>. QED BY <1>3, <1>4, <1>10, <2>1 DEF ReadChunk, Send
<1>11. CASE CloseEvent \/ BinaryEvent \/ WriteDone \/ ReadDone
  BY <1>4, <1>11 DEF CloseEvent, BinaryEvent, WriteDone, ReadDone
<1>12. CASE ClientSends \/ ClientSendsText \/ ClientCloses
  BY <1>4, <1>12 DEF ClientSends, ClientSendsText, ClientCloses
<1>13. CASE ClientVanishes
  <2>1. w2c' = <<>>
    BY <1>13 DEF ClientVanishes
  <2>. QED BY <2>1 DEF Coded
<1>14. CASE DialReads \/ ClientReads
  <2>1. w2c # <<>> /\ w2c' = Tail(w2c)
    BY <1>14 DEF DialReads, ClientReads
  <2>. QED BY <1>1, <2>1, TailOf DEF Coded
<1>15. CASE TargetSends \/ TargetEnds \/ WritableCloses \/ TargetResets
  BY <1>4, <1>15 DEF TargetSends, TargetEnds, WritableCloses, TargetResets, UnchangedByTarget
<1>. QED BY <1>7, <1>8, <1>9, <1>10, <1>11, <1>12, <1>13, <1>14, <1>15 DEF Next, Relay, Dispatch

\* No step disturbs the types.
LEMMA TypeStep == Inv /\ Next => TypeOK'
<1>. SUFFICES ASSUME Inv, Next PROVE TypeOK'
  OBVIOUS
<1>1. TypeOK /\ MaxUp \in Nat /\ MaxDown \in Nat /\ MaxText \in Nat
  BY TunnelAssumption DEF Inv
<1>2. \A k \in Kinds, n \in Nat : Msg(k, n) \in Messages
  BY MsgOf
<1>3. w2c' \in Seq(Messages) /\ (closedBy' # "none" => sock' = "closed" /\ readyState' # "open")
  BY CodedStep, PhasesStep DEF Phases
<1>4. chain' \in Seq(1..MaxUp) /\ written' \in Seq(1..MaxUp)
  <2>1. CASE BinaryEvent
    <3>1. Head(c2w).no \in 1..MaxUp
      BY <1>1, <2>1, NextUpload, Sizes DEF TypeOK
    <3>2. written' = written /\ chain' = Append(chain, Head(c2w).no)
      BY <2>1, NextUpload
    <3>3. chain \in Seq(1..MaxUp) /\ written \in Seq(1..MaxUp)
      BY <1>1 DEF TypeOK
    <3>. QED BY <3>1, <3>2, <3>3, AppendOf
  <2>2. CASE WriteDone
    <3>1. chain # <<>> /\ written' = Append(written, Head(chain)) /\ chain' = Tail(chain)
      BY <2>2 DEF WriteDone, Settles
    <3>. QED BY <1>1, <3>1, TailOf, AppendOf DEF TypeOK
  <2>3. CASE WriteFailed
    <3>1. chain # <<>> /\ written' = written /\ chain' = Tail(chain)
      BY <2>3 DEF WriteFailed, Settles
    <3>. QED BY <1>1, <3>1, TailOf DEF TypeOK
  <2>4. CASE UNCHANGED <<chain, written>>
    BY <1>1, <2>4 DEF TypeOK
  <2>. QED BY <2>1, <2>2, <2>3, <2>4 DEF Next, Dispatch, Relay, Connected, ConnectFailed, TextEvent,
    CloseEvent, ReadChunk, ReadDone, Flushed, ReadFailed, ClientSends,
    ClientSendsText, ClientCloses, ClientVanishes, DialReads, ClientReads, TargetSends, TargetEnds,
    WritableCloses, TargetResets, chainVars, UnchangedByClient, UnchangedByTarget
<1>5. c2w' \in Seq(Messages)
  <2>1. CASE Dispatch
    <3>1. c2w # <<>> /\ c2w' = Tail(c2w)
      BY <2>1 DEF Dispatch, BinaryEvent, TextEvent, CloseEvent, Event
    <3>. QED BY <1>1, <3>1, TailOf DEF TypeOK
  <2>2. ASSUME NEW s \in Seq(Messages), NEW m \in Messages, c2w' = Append(s, m) PROVE c2w' \in Seq(Messages)
    BY <2>2, AppendOf
  <2>3. CASE ClientVanishes
    <3>1. PICK n \in 0..Len(c2w) : c2w' = Append(SubSeq(c2w, 1, n), Msg("close", 0))
      BY <2>3 DEF ClientVanishes
    <3>2. SubSeq(c2w, 1, n) \in Seq(Messages)
      BY <1>1, CutOf DEF TypeOK
    <3>. QED BY <1>2, <2>2, <3>1, <3>2 DEF Kinds
  <2>4. CASE ClientSends \/ ClientSendsText \/ ClientCloses \/ DialReads \/ ClientReads
    <3>1. Msg("data", up + 1) \in Messages /\ Msg("text", 0) \in Messages /\ Msg("close", 0) \in Messages
      BY <1>2, Sizes DEF Kinds
    <3>2. c2w \in Seq(Messages)
      BY <1>1 DEF TypeOK
    <3>3. c2w' = c2w \/ \E m \in Messages : c2w' = Append(c2w, m)
      BY <2>4, <3>1 DEF ClientSends, ClientSendsText, ClientCloses, DialReads, ClientReads
    <3>. QED BY <2>2, <3>2, <3>3
  <2>5. CASE c2w' = c2w
    BY <1>1, <2>5 DEF TypeOK
  <2>. QED BY <2>1, <2>3, <2>4, <2>5 DEF Next, Relay, Connected, ConnectFailed, WriteDone, WriteFailed,
    ReadChunk, ReadDone, Flushed, ReadFailed, TargetSends, TargetEnds, WritableCloses, TargetResets,
    UnchangedByTarget
<1>6. t2w' \in Seq(Messages) /\ down' \in 0..MaxDown
  <2>1. CASE ReadChunk
    <3>1. t2w # <<>> /\ t2w' = Tail(t2w) /\ down' = down
      BY <2>1 DEF ReadChunk
    <3>. QED BY <1>1, <3>1, TailOf DEF TypeOK
  <2>2. CASE TargetSends
    <3>1. Msg("data", down + 1) \in Messages
      BY <1>2, Lines DEF Kinds
    <3>. QED BY <1>1, <2>2, <3>1, AppendOf DEF TypeOK, TargetSends
  <2>3. CASE TargetEnds
    <3>1. Msg("eof", 0) \in Messages
      BY <1>2 DEF Kinds
    <3>. QED BY <1>1, <2>3, <3>1, AppendOf DEF TypeOK, TargetEnds
  <2>4. CASE UNCHANGED <<t2w, down>>
    BY <1>1, <2>4 DEF TypeOK
  <2>. QED BY <2>1, <2>2, <2>3, <2>4 DEF Next, Dispatch, Relay, Connected, ConnectFailed, BinaryEvent,
    TextEvent, CloseEvent, WriteDone, WriteFailed, ReadDone, Flushed, ReadFailed, ClientSends,
    ClientSendsText, ClientCloses, ClientVanishes, DialReads, ClientReads,
    WritableCloses, TargetResets, targetVars, UnchangedByClient
<1>7. got' \in Seq(1..MaxDown) /\ endCode' \in {0, 1000, 1002, 1011}
  <2>1. CASE ClientReads
    <3>1. w2c # <<>> /\ cpc = "open"
      BY <2>1 DEF ClientReads
    <3>2. Head(w2c) = w2c[1] /\ 1 \in DOMAIN w2c /\ 1 \in 0 + 1..Len(w2c)
      BY <3>1, Lines, TailOf
    <3>3. CASE Head(w2c).kind = "close"
      <4>1. Head(w2c).no \in {1000, 1002, 1011}
        BY <3>2, <3>3 DEF Inv, Coded
      <4>. QED BY <1>1, <2>1, <3>3, <4>1 DEF ClientReads, TypeOK
    <3>4. CASE Head(w2c).kind # "close"
      <4>1. IsData(Head(w2c))
        BY <3>1, <3>2, <3>4 DEF Inv, Downs, WayDown, OnWire, DataThen, Off
      <4>2. Head(w2c).no \in 1..down
        BY <3>1, <4>1, TailLine, Lines DEF Inv, Downs, WayDown
      <4>3. Head(w2c).no \in 1..MaxDown
        BY <1>1, <4>2 DEF TypeOK
      <4>4. got' = Append(got, Head(w2c).no) /\ endCode' = endCode
        BY <2>1, <3>4 DEF ClientReads
      <4>5. endCode \in {0, 1000, 1002, 1011}
        BY <1>1 DEF TypeOK
      <4>. QED BY <4>3, <4>4, <4>5, Lines, AppendOf
    <3>. QED BY <3>3, <3>4
  <2>2. CASE DialReads
    <3>1. got' = got /\ endCode' = endCode
      BY <2>2, Lines, TailOf DEF DialReads, Inv, Downs, Answering
    <3>. QED BY <1>1, <3>1 DEF TypeOK
  <2>3. CASE UNCHANGED <<got, endCode>>
    BY <1>1, <2>3 DEF TypeOK
  <2>. QED BY <2>1, <2>2, <2>3 DEF Next, Dispatch, Relay, Connected, ConnectFailed, BinaryEvent,
    TextEvent, CloseEvent, WriteDone, WriteFailed, ReadChunk, ReadDone, Flushed, ReadFailed, ClientSends,
    ClientSendsText, ClientCloses, ClientVanishes, TargetSends, TargetEnds,
    WritableCloses, TargetResets, clientVars, UnchangedByTarget
<1>8. awaited' \in 0..MaxUp /\ heard' \in Nat /\ halfOpen' \in BOOLEAN
  <2>1. awaited \in 0..MaxUp /\ heard \in Nat /\ halfOpen \in BOOLEAN
    BY <1>1 DEF TypeOK
  <2>2. CASE ReadDone
    <3>1. awaited' = Len(chain) /\ heard' = heard /\ halfOpen' = halfOpen
      BY <2>2 DEF ReadDone, targetVars
    <3>2. Len(chain) <= Queued
      BY Sizes DEF Queued
    <3>. QED BY <1>1, <2>1, <3>1, <3>2, Sizes DEF TypeOK
  <2>3. CASE WriteDone \/ WriteFailed
    <3>1. heard' = heard /\ halfOpen' = halfOpen /\ awaited' = IF awaited = 0 THEN 0 ELSE awaited - 1
      BY <2>3 DEF WriteDone, WriteFailed, Settles, targetVars
    <3>. QED BY <1>1, <2>1, <3>1
  <2>4. CASE BinaryEvent
    BY <2>1, <2>4 DEF BinaryEvent, targetVars
  <2>5. CASE UNCHANGED <<heard, awaited, halfOpen>>
    BY <2>1, <2>5
  <2>. QED BY <2>2, <2>3, <2>4, <2>5 DEF Next, Dispatch, Relay, Connected, ConnectFailed,
    TextEvent, CloseEvent, ReadChunk, Flushed, ReadFailed, ClientSends,
    ClientSendsText, ClientCloses, ClientVanishes, DialReads, ClientReads, TargetSends, TargetEnds,
    WritableCloses, TargetResets, chainVars, targetVars, UnchangedByClient, UnchangedByTarget
<1>9. /\ cpc' \in {"waiting", "open", "closed"} /\ up' \in 0..MaxUp /\ texts' \in 0..MaxText
      /\ wpc' \in {"connecting", "relaying", "flushing", "done", "failed"}
      /\ readyState' \in {"open", "closing", "closed"} /\ late' \in BOOLEAN
      /\ closedBy' \in {"none", "client", "write", "read", "eof"}
      /\ sock' \in {"none", "open", "closed"} /\ writable' \in {"ok", "broken"}
      /\ targetEnd' \in {"no", "eof", "reset"}
  <2>1. /\ cpc \in {"waiting", "open", "closed"} /\ up \in 0..MaxUp /\ texts \in 0..MaxText
        /\ wpc \in {"connecting", "relaying", "flushing", "done", "failed"}
        /\ readyState \in {"open", "closing", "closed"} /\ late \in BOOLEAN
        /\ closedBy \in {"none", "client", "write", "read", "eof"}
        /\ sock \in {"none", "open", "closed"} /\ writable \in {"ok", "broken"}
        /\ targetEnd \in {"no", "eof", "reset"}
    BY <1>1 DEF TypeOK
  <2>2. CASE Connected \/ ConnectFailed \/ Dispatch
    BY <2>1, <2>2 DEF Dispatch, Connected, ConnectFailed, BinaryEvent, TextEvent, CloseEvent,
      CloseWS, CloseSocket, clientVars, chainVars, targetVars
  <2>3. CASE Relay \/ WriteDone \/ WriteFailed
    <3>1. CASE ReadChunk \/ ReadDone \/ WriteDone
      BY <2>1, <3>1 DEF ReadChunk, ReadDone, WriteDone, Settles, clientVars, chainVars, targetVars
    <3>2. CASE WriteFailed
      <4>1. /\ UNCHANGED <<cpc, up, texts, wpc, writable, targetEnd>> /\ late' = FALSE
            /\ \/ UNCHANGED <<readyState, closedBy, sock>>
               \/ closedBy' = "write" /\ sock' = "closed" /\ CloseWS(1000)
        BY <3>2 DEF WriteFailed, Settles, clientVars, targetVars
      <4>2. readyState' \in {"open", "closing", "closed"} /\ closedBy' \in {"none", "client", "write", "read", "eof"}
            /\ sock' \in {"none", "open", "closed"}
        BY <2>1, <4>1 DEF CloseWS
      <4>. QED BY <2>1, <4>1, <4>2
    <3>3. CASE Flushed
      BY <2>1, <3>3 DEF Flushed, CloseWS, CloseSocket, CloseBoth, clientVars, targetVars
    <3>4. CASE ReadFailed
      BY <2>1, <3>4 DEF ReadFailed, CloseWS, CloseSocket, CloseBoth, clientVars, targetVars
    <3>. QED BY <2>3, <3>1, <3>2, <3>3, <3>4 DEF Relay
  <2>4. CASE ClientSends \/ ClientSendsText \/ ClientCloses \/ ClientVanishes \/ DialReads \/ ClientReads
    BY <1>1, <2>1, <2>4 DEF ClientSends, ClientSendsText, ClientCloses, ClientVanishes, DialReads,
      ClientReads, UnchangedByClient, chainVars, targetVars
  <2>5. CASE TargetSends \/ TargetEnds \/ WritableCloses \/ TargetResets
    BY <2>1, <2>5 DEF TargetSends, TargetEnds, WritableCloses, TargetResets, UnchangedByTarget,
      clientVars, chainVars
  <2>. QED BY <2>2, <2>3, <2>4, <2>5 DEF Next
<1>. QED BY <1>3, <1>4, <1>5, <1>6, <1>7, <1>8, <1>9 DEF TypeOK
-----------------------------------------------------------------------------
(* Theorems *)

\* The invariant holds initially.
LEMMA InvInit == Init => Inv
<1>. SUFFICES ASSUME Init PROVE Inv
  OBVIOUS
<1>1. TypeOK /\ Coded /\ Phases
  <2>1. TypeOK
    <3>1. <<>> \in Seq(1..MaxUp) /\ <<>> \in Seq(1..MaxDown) /\ <<>> \in Seq(Messages)
      BY EmptySeq
    <3>2. 0 \in 0..MaxUp /\ 0 \in 0..MaxDown /\ 0 \in 0..MaxText
      BY TunnelAssumption
    <3>. QED BY <3>1, <3>2 DEF Init, TypeOK
  <2>2. Coded /\ Phases
    BY DEF Init, Coded, Phases, NoClose
  <2>. QED BY <2>1, <2>2
<1>2. Uploads /\ HeardInv
  <2>1. UploadsAreAPrefix /\ Queued = 0
    BY DEF Init, UploadsAreAPrefix, Queued
  <2>2. ChainInv
    BY <2>1 DEF Init, ChainInv
  <2>3. WayUp
    BY <2>1 DEF Init, WayUp, Numbered, Gapless
  <2>4. HeardInv
    BY <2>1 DEF Init, HeardInv
  <2>. QED BY <2>2, <2>3, <2>4 DEF Uploads
<1>3. Answering /\ Complete
  BY DEF Init, Answering, Complete, Ended
<1>4. Off = 0 /\ Eofs = 0 /\ Passed = 0
  BY DEF Init, Off, Eofs, Passed
<1>5. WayDown
  BY <1>4 DEF Init, WayDown, OnWire, Bounded, InLine, AllData, DataThen
<1>. QED BY <1>1, <1>2, <1>3, <1>5 DEF Inv, Downs

\* Every step keeps the invariant.
LEMMA InvStep == Inv /\ [Next]_vars => Inv'
<1>. SUFFICES ASSUME Inv, [Next]_vars PROVE Inv'
  OBVIOUS
<1>1. CASE Next
  BY <1>1, TypeStep, CodedStep, PhasesStep, UploadsStep, HeardStep, DownsStep DEF Inv
<1>2. CASE UNCHANGED vars
  BY <1>2 DEF vars, clientVars, chainVars, targetVars, Inv, TypeOK, Coded, Phases, Uploads, ChainInv,
    UploadsAreAPrefix, WayUp, Queued, HeardInv, Downs, Answering, WayDown, OnWire, Off, Passed, Eofs, Complete
<1>. QED BY <1>1, <1>2

\* The invariant holds throughout.
LEMMA Invariant == Spec => []Inv
BY InvInit, InvStep, PTL DEF Spec

\* The variables of the tunnel keep their types, and closeBoth closes both sides, for
\* any number of messages and chunks.
THEOREM Typed == Spec => []TypeOK
<1>1. Inv => TypeOK
  BY DEF Inv
<1>. QED BY <1>1, Invariant, PTL

\* What the target's TCP was given is what the client sent, in order and without a
\* gap from its first message on, whichever of the two ends first.
THEOREM OrderedUploads == Spec => []UploadsAreAPrefix
<1>1. Inv => UploadsAreAPrefix
  BY DEF Inv, Uploads, ChainInv
<1>. QED BY <1>1, Invariant, PTL

\* A dial reads OK, ERR or a close first: no target data is taken for the answer.
THEOREM AnswerFirst == Spec => []AnswerComesFirst
<1>1. Inv => AnswerComesFirst
  <2>. SUFFICES ASSUME Inv, cpc = "waiting", w2c # <<>> PROVE Head(w2c).kind \in {"ok", "err", "close"}
    BY DEF AnswerComesFirst
  <2>1. Head(w2c) = w2c[1]
    BY Lines, TailOf
  <2>. QED BY <2>1 DEF Inv, Downs, Answering
<1>. QED BY <1>1, Invariant, PTL

\* When the end of the target's stream closes the tunnel, every upload received before
\* that end was read has been written, whatever arrived and failed while it was awaited.
THEOREM FlushedFirst == Spec => []FlushedBeforeClose
<1>1. Inv => FlushedBeforeClose
  <2>. SUFFICES ASSUME Inv PROVE closedBy = "eof" => Len(written) >= heard
    BY DEF FlushedBeforeClose
  <2>. QED BY Sizes DEF Inv, HeardInv
<1>. QED BY <1>1, Invariant, PTL

\* The normal close that the target's end causes reaches a client that has read all
\* the target sent, in order.
THEOREM CompleteDownloads == Spec => []CleanEndIsComplete
<1>1. Inv => CleanEndIsComplete
  <2>. SUFFICES ASSUME Inv, endCode = 1000, closedBy = "eof" PROVE got = [i \in 1..down |-> i]
    BY DEF CleanEndIsComplete
  <2>1. Len(got) = down /\ \A i \in DOMAIN got : got[i] = i
    BY DEF Inv, Downs, Complete, WayDown
  <2>2. got \in Seq(1..MaxDown) /\ DOMAIN got = 1..down
    BY <2>1, Lines, LenProperties
  <2>3. got = [i \in DOMAIN got |-> got[i]]
    BY <2>2, SeqDef
  <2>. QED BY <2>1, <2>2, <2>3
<1>. QED BY <1>1, Invariant, PTL
=============================================================================
