------------------------ MODULE StreamFramingProofs ------------------------
(***************************************************************************)
(* Proofs about StreamFraming, for all sizes of messages, buffers and      *)
(* headers, and however the stream is cut.                                 *)
(***************************************************************************)
EXTENDS StreamFraming, TLAPS

LEMMA Constants ==
    /\ PREAMBLE \in Nat /\ PREAMBLE > 1 /\ BufLength \in Nat /\ ReplySize \in Nat
    /\ SizeRange \in Nat /\ SizeRange > 2 * ReplySize /\ Len(Sizes) \in Nat
    /\ \A m \in 1 .. Len(Sizes) : Sizes[m] \in Nat /\ Sizes[m] > 0
    /\ StraySizes \subseteq Nat /\ Junk = 0
  BY SizesAssumption DEF SizesAssumption, Junk

LEMMA Headers ==
    /\ HeaderRange \in Nat /\ HeaderRange > 0
    /\ \A m \in 1 .. Len(Sizes) : PREAMBLE + Sizes[m] < HeaderRange
  BY SizesAssumption DEF SizesAssumption

\* Sums in 32 bits: that of a message that was sent does not wrap.
LEMMA TotalNat == ASSUME NEW size \in Nat PROVE Total(size) \in Nat
<1>1. PICK x \in Nat : x = PREAMBLE + size
  BY Constants
<1>2. x % HeaderRange \in Nat
  BY Headers
<1> QED
  BY <1>1, <1>2 DEF Total

LEMMA TotalSent ==
    ASSUME NEW m \in 1 .. Len(Sizes)
    PROVE  Total(Sizes[m]) = PREAMBLE + Sizes[m] /\ Total(Sizes[m]) > 0
<1>1. PICK x \in Nat : x = PREAMBLE + Sizes[m] /\ x > 0
  BY Constants
<1>2. PICK h \in Nat : h = HeaderRange /\ x < h
  BY <1>1, Headers
<1>3. x % h = x
  BY <1>2
<1> QED
  BY <1>1, <1>2, <1>3 DEF Total

-----------------------------------------------------------------------------
(* The bytes of the stream and of the buffer. *)

\* Message after message, without a gap.
StreamOK ==
    /\ stream \in Seq(Nat) /\ Len(stream) \in 1 .. Len(Sizes) + 1 /\ stream[1] = 1
    /\ \A m \in Messages : stream[m + 1] = stream[m] + PREAMBLE + Sizes[m]
    /\ \A i, j \in 1 .. Len(stream) : i < j => stream[i] < stream[j]
    /\ \A t \in Nat : (1 <= t /\ t < stream[Len(stream)]) =>
         \E m \in Messages : stream[m] <= t /\ t < stream[m + 1]

LEMMA MessageFacts ==
    ASSUME StreamOK, NEW m \in Messages
    PROVE  /\ m \in Nat /\ m > 0 /\ m + 1 \in 1 .. Len(stream) /\ m \in 1 .. Len(stream)
           /\ Len(stream) \in Nat
           /\ Sizes[m] \in Nat /\ Sizes[m] > 0
           /\ Start(m) \in Nat /\ Start(m) > 0 /\ End(m) \in Nat
           /\ End(m) = Start(m) + PREAMBLE + Sizes[m]
           /\ End(m) <= stream[Len(stream)]
<1>1. /\ m \in Nat /\ m > 0 /\ m + 1 \in 1 .. Len(stream) /\ m \in 1 .. Len(stream)
      /\ Len(stream) \in Nat /\ m \in 1 .. Len(Sizes)
  BY Constants DEF StreamOK, Messages, posted
<1>2. Sizes[m] \in Nat /\ Sizes[m] > 0
  BY <1>1, Constants
<1>3. stream[m] \in Nat /\ stream[m + 1] \in Nat /\ stream[Len(stream)] \in Nat
  BY <1>1 DEF StreamOK
<1>4. stream[m] > 0
  BY <1>1, <1>3 DEF StreamOK
<1>5. stream[m + 1] <= stream[Len(stream)]
  BY <1>1, <1>3 DEF StreamOK
<1>6. stream[m + 1] = stream[m] + PREAMBLE + Sizes[m]
  BY DEF StreamOK
<1> QED
  BY <1>1, <1>2, <1>3, <1>4, <1>5, <1>6 DEF Start, End

\* The end of the stream.
LEMMA EndFacts ==
    ASSUME StreamOK
    PROVE  /\ Len(stream) \in Nat /\ posted \in Nat /\ posted + 1 = Len(stream)
           /\ End(posted) = stream[Len(stream)] /\ stream[Len(stream)] \in Nat
           /\ Messages = 1 .. posted
<1>1. Len(stream) \in Nat /\ Len(stream) \in 1 .. Len(stream)
  BY DEF StreamOK
<1>2. posted \in Nat /\ posted + 1 = Len(stream)
  BY <1>1 DEF posted
<1> QED
  BY <1>1, <1>2 DEF StreamOK, End, Messages

LEMMA StreamInit == Init => StreamOK
<1> SUFFICES ASSUME Init PROVE StreamOK
  OBVIOUS
<1>1. stream = <<1>> /\ Len(stream) = 1 /\ stream[1] = 1
  BY DEF Init
<1>2. Messages = {}
  BY <1>1 DEF Messages, posted
<1>3. stream \in Seq(Nat)
  BY <1>1
<1> QED
  BY <1>1, <1>2, <1>3, Constants DEF StreamOK

\* A message is sent behind the others.
LEMMA StreamGrows ==
    ASSUME StreamOK, ServerSend
    PROVE  /\ StreamOK'
           /\ Len(stream') = Len(stream) + 1
           /\ \A i \in 1 .. Len(stream) : stream'[i] = stream[i]
           /\ Messages' = Messages \cup {Len(stream)}
           /\ stream'[Len(stream)] = stream[Len(stream)]
           /\ stream[Len(stream)] < stream'[Len(stream')]
<1>1. PICK e : e = stream[Len(stream)] + PREAMBLE + Sizes[posted + 1]
  OBVIOUS
<1>2. /\ Len(stream) \in Nat /\ Len(stream) \in 1 .. Len(stream) /\ stream \in Seq(Nat)
      /\ posted + 1 = Len(stream) /\ Len(stream) \in 1 .. Len(Sizes)
  BY Constants DEF StreamOK, posted, ServerSend
<1>3. e \in Nat /\ e = stream[Len(stream)] + PREAMBLE + Sizes[Len(stream)]
      /\ stream[Len(stream)] < e /\ stream[Len(stream)] \in Nat
  BY <1>1, <1>2, Constants
<1>4. stream' = Append(stream, e)
  BY <1>1, <1>2 DEF ServerSend, End
<1>5. /\ stream' \in Seq(Nat) /\ Len(stream') = Len(stream) + 1
      /\ \A i \in 1 .. Len(stream) : stream'[i] = stream[i]
      /\ stream'[Len(stream) + 1] = e
  BY <1>2, <1>3, <1>4
<1>6. Messages' = Messages \cup {Len(stream)} /\ Messages = 1 .. Len(stream) - 1
  BY <1>2, <1>5 DEF Messages, posted
<1>7. \A m \in Messages' : stream'[m + 1] = stream'[m] + PREAMBLE + Sizes[m]
  <2> SUFFICES ASSUME NEW m \in Messages' PROVE stream'[m + 1] = stream'[m] + PREAMBLE + Sizes[m]
    OBVIOUS
  <2>1. CASE m \in Messages
    <3>1. stream'[m + 1] = stream[m + 1] /\ stream'[m] = stream[m]
      BY <1>2, <1>5, <1>6, <2>1
    <3> QED
      BY <2>1, <3>1 DEF StreamOK
  <2>2. CASE m = Len(stream)
    BY <1>2, <1>3, <1>5, <2>2
  <2> QED
    BY <1>6, <2>1, <2>2
<1>8. \A i, j \in 1 .. Len(stream') : i < j => stream'[i] < stream'[j]
  <2> SUFFICES ASSUME NEW i \in 1 .. Len(stream'), NEW j \in 1 .. Len(stream'), i < j
               PROVE  stream'[i] < stream'[j]
    OBVIOUS
  <2>1. i \in 1 .. Len(stream) /\ stream'[i] = stream[i] /\ stream[i] \in Nat
    BY <1>2, <1>5
  <2>2. CASE j \in 1 .. Len(stream)
    BY <1>5, <2>1, <2>2 DEF StreamOK
  <2>3. CASE j = Len(stream) + 1
    <3>1. stream[i] <= stream[Len(stream)]
      BY <1>2, <1>3, <2>1 DEF StreamOK
    <3> QED
      BY <1>3, <1>5, <2>1, <2>3, <3>1
  <2> QED
    BY <1>2, <1>5, <2>2, <2>3
<1>9. ASSUME NEW t \in Nat, 1 <= t, t < stream'[Len(stream')]
      PROVE  \E m \in Messages' : stream'[m] <= t /\ t < stream'[m + 1]
  <2>1. CASE t < stream[Len(stream)]
    <3>1. PICK m \in Messages : stream[m] <= t /\ t < stream[m + 1]
      BY <1>9, <2>1 DEF StreamOK
    <3>2. stream'[m + 1] = stream[m + 1] /\ stream'[m] = stream[m]
      BY <1>2, <1>5, <1>6
    <3> QED
      BY <1>6, <3>1, <3>2
  <2>2. CASE ~(t < stream[Len(stream)])
    <3>1. stream'[Len(stream)] <= t /\ t < stream'[Len(stream) + 1]
      BY <1>2, <1>3, <1>5, <1>9, <2>2
    <3> QED
      BY <1>6, <3>1
  <2> QED
    BY <2>1, <2>2
<1>10. stream'[1] = 1 /\ Len(stream') \in 1 .. Len(Sizes) + 1
  BY <1>2, <1>5, Constants DEF StreamOK
<1>11. StreamOK'
  BY <1>5, <1>7, <1>8, <1>9, <1>10 DEF StreamOK
<1> QED
  BY <1>2, <1>3, <1>5, <1>6, <1>11

\* The bytes of two sequences put together.
LEMMA Joined ==
    ASSUME NEW k \in Seq(Nat), NEW f \in Seq(Nat)
    PROVE  /\ k \o f \in Seq(Nat) /\ Len(k \o f) = Len(k) + Len(f)
           /\ \A p \in 1 .. Len(k) : (k \o f)[p] = k[p]
           /\ \A p \in Len(k) + 1 .. Len(k) + Len(f) : (k \o f)[p] = f[p - Len(k)]
  OBVIOUS

\* The n bytes of the stream after place t, behind the first r of the buffer.
Behind(b, r, n, t) == \A p \in r + 1 .. r + n : b[p] = t + (p - r)

\* What recv() appends to the part of the buffer that is kept.
LEMMA AppendedBytes ==
    ASSUME NEW b \in Seq(Nat), NEW r \in Nat, r <= Len(b), NEW n \in Nat, NEW t \in Nat,
           NEW c, c = SubSeq(b, 1, r) \o [i \in 1 .. n |-> t + i]
    PROVE  /\ c \in Seq(Nat) /\ Len(c) = r + n
           /\ \A p \in 1 .. r : c[p] = b[p]
           /\ Behind(c, r, n, t)
<1>1. PICK k : k = SubSeq(b, 1, r)
  OBVIOUS
<1>2. PICK f : f = [i \in 1 .. n |-> t + i]
  OBVIOUS
<1>3. k \in Seq(Nat) /\ Len(k) = r /\ \A p \in 1 .. r : k[p] = b[p]
  BY <1>1
<1>4. f \in Seq(Nat) /\ Len(f) = n /\ \A p \in 1 .. n : f[p] = t + p
  BY <1>2
<1>5. c = k \o f
  BY <1>1, <1>2
<1>6. /\ c \in Seq(Nat) /\ Len(c) = r + n
      /\ \A p \in 1 .. r : c[p] = k[p]
      /\ \A p \in r + 1 .. r + n : c[p] = f[p - r]
  <2>1. k \in Seq(Nat) /\ f \in Seq(Nat) /\ Len(k) = r /\ Len(f) = n
    BY <1>3, <1>4
  <2>2. /\ k \o f \in Seq(Nat) /\ Len(k \o f) = Len(k) + Len(f)
        /\ \A p \in 1 .. Len(k) : (k \o f)[p] = k[p]
        /\ \A p \in Len(k) + 1 .. Len(k) + Len(f) : (k \o f)[p] = f[p - Len(k)]
    BY <2>1, Joined
  <2> QED
    BY <1>5, <2>1, <2>2, Zenon
<1>7. \A p \in 1 .. r : c[p] = b[p]
  BY <1>3, <1>6
<1>8. \A p \in r + 1 .. r + n : c[p] = t + (p - r)
  <2> SUFFICES ASSUME NEW p \in r + 1 .. r + n PROVE c[p] = t + (p - r)
    OBVIOUS
  <2>1. p - r \in 1 .. n
    OBVIOUS
  <2>2. f[p - r] = t + (p - r)
    BY <1>4, <2>1
  <2> QED
    BY <1>6, <2>2
<1> QED
  BY <1>6, <1>7, <1>8 DEF Behind

\* What memcpy() brings to the front of the buffer.
LEMMA MovedBytes ==
    ASSUME NEW b \in Seq(Nat), NEW p \in Nat, NEW n \in Nat
    PROVE  /\ Bytes(b, p, n) \in Seq(Nat) /\ Len(Bytes(b, p, n)) = n
           /\ \A i \in 1 .. n : Bytes(b, p, n)[i] = IF p + i \in 1 .. Len(b) THEN b[p + i] ELSE 0
<1>1. DOMAIN b = 1 .. Len(b) /\ \A i \in 1 .. Len(b) : b[i] \in Nat
  OBVIOUS
<1>2. Bytes(b, p, n) = [i \in 1 .. n |-> IF p + i \in 1 .. Len(b) THEN b[p + i] ELSE 0]
  BY <1>1, Constants DEF Bytes
<1>3. \A i \in 1 .. n : (IF p + i \in 1 .. Len(b) THEN b[p + i] ELSE 0) \in Nat
  BY <1>1
<1> QED
  BY <1>2, <1>3

\* The bytes of the stream in a buffer are in order, none beyond t.
Ascending(b, t) ==
    /\ \A p \in 1 .. Len(b) : b[p] <= t
    /\ \A p, q \in 1 .. Len(b) : (p < q /\ b[p] # 0 /\ b[q] # 0) => b[p] < b[q]

LEMMA AscendingAppended ==
    ASSUME NEW b \in Seq(Nat), NEW r \in Nat, r <= Len(b), NEW n \in Nat, NEW t \in Nat,
           Ascending(b, t),
           NEW c \in Seq(Nat), Len(c) = r + n, \A p \in 1 .. r : c[p] = b[p],
           \A p \in r + 1 .. r + n : c[p] = t + (p - r)
    PROVE  Ascending(c, t + n)
<1>1. \A p \in 1 .. Len(c) : c[p] <= t + n
  <2> SUFFICES ASSUME NEW p \in 1 .. Len(c) PROVE c[p] <= t + n
    OBVIOUS
  <2>1. CASE p <= r
    <3>1. p \in 1 .. r /\ p \in 1 .. Len(b) /\ b[p] \in Nat
      BY <2>1
    <3>2. b[p] <= t
      BY <3>1 DEF Ascending
    <3> QED
      BY <3>1, <3>2
  <2>2. CASE p > r
    BY <2>2
  <2> QED
    BY <2>1, <2>2
<1>2. ASSUME NEW p \in 1 .. Len(c), NEW q \in 1 .. Len(c), p < q, c[p] # 0, c[q] # 0
      PROVE  c[p] < c[q]
  <2>1. CASE q <= r
    <3>1. p \in 1 .. r /\ q \in 1 .. r /\ p \in 1 .. Len(b) /\ q \in 1 .. Len(b)
      BY <1>2, <2>1
    <3> QED
      BY <1>2, <3>1 DEF Ascending
  <2>2. CASE q > r /\ p <= r
    <3>1. p \in 1 .. r /\ p \in 1 .. Len(b) /\ b[p] \in Nat /\ q \in r + 1 .. r + n
      BY <1>2, <2>2
    <3>2. c[p] <= t
      BY <3>1 DEF Ascending
    <3> QED
      BY <3>1, <3>2
  <2>3. CASE p > r
    <3>1. p \in r + 1 .. r + n /\ q \in r + 1 .. r + n
      BY <1>2, <2>3
    <3> QED
      BY <1>2, <3>1
  <2> QED
    BY <1>2, <2>1, <2>2, <2>3
<1> QED
  BY <1>1, <1>2 DEF Ascending

LEMMA AscendingMoved ==
    ASSUME NEW b \in Seq(Nat), NEW p \in Nat, NEW n \in Nat, NEW t \in Nat, Ascending(b, t)
    PROVE  Ascending(Bytes(b, p, n), t)
<1>1. PICK c : c = Bytes(b, p, n)
  OBVIOUS
<1>2. Len(c) = n /\ \A i \in 1 .. n : c[i] = IF p + i \in 1 .. Len(b) THEN b[p + i] ELSE 0
  <2>1. /\ Len(Bytes(b, p, n)) = n
        /\ \A i \in 1 .. n : Bytes(b, p, n)[i] = IF p + i \in 1 .. Len(b) THEN b[p + i] ELSE 0
    BY MovedBytes
  <2> QED
    BY <1>1, <2>1
<1>3. \A i \in 1 .. n : c[i] # 0 => p + i \in 1 .. Len(b) /\ c[i] = b[p + i]
  BY <1>2
<1>4. \A i \in 1 .. n : c[i] <= t
  <2> SUFFICES ASSUME NEW i \in 1 .. n PROVE c[i] <= t
    OBVIOUS
  <2>1. CASE c[i] = 0
    BY <2>1
  <2>2. CASE c[i] # 0
    BY <1>3, <2>2 DEF Ascending
  <2> QED
    BY <2>1, <2>2
<1>5. ASSUME NEW i \in 1 .. n, NEW j \in 1 .. n, i < j, c[i] # 0, c[j] # 0
      PROVE  c[i] < c[j]
  <2>1. p + i \in 1 .. Len(b) /\ p + j \in 1 .. Len(b) /\ p + i < p + j
    BY <1>3, <1>5
  <2> QED
    BY <1>3, <1>5, <2>1 DEF Ascending
<1> QED
  BY <1>1, <1>2, <1>4, <1>5 DEF Ascending

-----------------------------------------------------------------------------
(* The receive buffer and its counters. *)

HeaderOK ==
    /\ header.msg \in 0 .. posted /\ header.size \in Nat
    /\ header.msg # 0 => header.size = Sizes[header.msg]

Counters ==
    /\ pc \in {"connect", "recv", "loop", "send", "ended"}
    /\ connected \in BOOLEAN /\ closing \in BOOLEAN
    /\ taken \in Nat /\ taken < stream[Len(stream)]
    /\ buf \in Seq(Nat) /\ Ascending(buf, taken)
    /\ remaining \in Nat /\ done \in Nat /\ ptr \in Nat
    /\ done + remaining <= BufLength

\* Between two messages of a recv(), bytes_remaining is what of the buffer has not been handled.
AtRecv ==
    pc \in {"connect", "recv"} =>
        /\ Len(buf) = remaining /\ ~closing
        /\ remaining > 0 => buf[remaining] = 0
InLoop ==
    pc \in {"loop", "send"} =>
        /\ (done = 0 /\ ptr = PREAMBLE) \/ ((done > 0 \/ Endless) /\ ptr = done + 1)
        /\ ~closing => Len(buf) = done + remaining
        /\ header.msg # 0 => Holds(buf, done, PREAMBLE, Start(header.msg))

BufInv == StreamOK /\ Counters /\ HeaderOK /\ AtRecv /\ InLoop

LEMMA BufInit == Init => BufInv
<1> SUFFICES ASSUME Init PROVE BufInv
  OBVIOUS
<1>1. StreamOK
  BY StreamInit
<1>2. stream[Len(stream)] = 1 /\ posted = 0
  BY DEF Init, posted
<1>3. buf = <<>> /\ buf \in Seq(Nat) /\ Len(buf) = 0
  BY DEF Init
<1>4. Ascending(buf, 0)
  BY <1>3 DEF Ascending
<1>5. Counters
  <2>1. 0 \in Nat /\ 0 < 1 /\ 0 + 0 <= BufLength
    BY Constants
  <2> QED
    BY <1>2, <1>3, <1>4, <2>1 DEF Init, Counters
<1>6. HeaderOK
  BY <1>2 DEF Init, HeaderOK
<1>7. AtRecv /\ InLoop
  BY <1>3 DEF Init, AtRecv, InLoop
<1> QED
  BY <1>1, <1>5, <1>6, <1>7 DEF BufInv

\* What a header decodes to.
LEMMA Decoded ==
    ASSUME StreamOK, NEW b, NEW p, NEW h \in HeadersAt(b, p)
    PROVE  /\ h.msg \in 0 .. posted /\ h.size \in Nat
           /\ h.msg # 0 => h.size = Sizes[h.msg] /\ Holds(b, p, PREAMBLE, Start(h.msg))
           /\ (\E m \in Messages : Holds(b, p, PREAMBLE, Start(m))) => h.msg # 0
<1>1. PICK here : here = {m \in Messages : Holds(b, p, PREAMBLE, Start(m))}
  OBVIOUS
<1>2. HeadersAt(b, p) = IF here # {} THEN {[msg |-> m, size |-> Sizes[m]] : m \in here}
                        ELSE {[msg |-> 0, size |-> n] : n \in StraySizes}
  BY <1>1 DEF HeadersAt
<1>3. CASE here # {}
  <2>1. PICK m \in here : h = [msg |-> m, size |-> Sizes[m]]
    BY <1>2, <1>3
  <2>2. m \in Messages /\ Holds(b, p, PREAMBLE, Start(m)) /\ h.msg = m /\ h.size = Sizes[m]
    BY <1>1, <2>1
  <2> QED
    BY <2>2, MessageFacts, EndFacts
<1>4. CASE here = {}
  <2>1. PICK n \in StraySizes : h = [msg |-> 0, size |-> n]
    BY <1>2, <1>4
  <2>2. h.msg = 0 /\ h.size = n /\ n \in Nat /\ 0 \in 0 .. posted
    BY <2>1, Constants, EndFacts
  <2>3. \A m \in Messages : ~Holds(b, p, PREAMBLE, Start(m))
    BY <1>1, <1>4
  <2> QED
    BY <2>2, <2>3
<1> QED
  BY <1>3, <1>4

LEMMA AscendingMore ==
    ASSUME NEW b \in Seq(Nat), NEW t \in Nat, NEW u \in Nat, t <= u, Ascending(b, t)
    PROVE  Ascending(b, u)
<1>1. \A p \in 1 .. Len(b) : b[p] \in Nat
  OBVIOUS
<1> QED
  BY <1>1 DEF Ascending

-----------------------------------------------------------------------------
(* The steps of the receive loop. *)

\* What recv() has put into the buffer, behind what was left in it.
Filled(b, n) ==
    /\ b \in Seq(Nat) /\ Len(b) = remaining + n
    /\ \A p \in 1 .. remaining : b[p] = buf[p]
    /\ \A p \in remaining + 1 .. remaining + n : b[p] = taken + (p - remaining)
    /\ Ascending(b, taken + n)

LEMMA RecvFacts ==
    ASSUME BufInv, NEW n \in 1 .. BufLength, Recv(n)
    PROVE  /\ pc = "recv" /\ Len(buf) = remaining /\ stream' = stream /\ n \in Nat /\ n > 0
           /\ taken' = taken + n /\ taken' \in Nat /\ taken' < stream[Len(stream)]
           /\ n + remaining <= BufLength
           /\ \E b : Filled(b, n) /\ Received(b, n)
<1>1. n \in Nat /\ n > 0
  OBVIOUS
<1>2. pc = "recv" /\ taken' = taken + n /\ n <= BufLength - remaining /\ taken + n < End(posted)
  BY DEF Recv
<1>3. Len(buf) = remaining /\ buf \in Seq(Nat) /\ remaining \in Nat /\ taken \in Nat
      /\ Ascending(buf, taken)
  BY <1>2 DEF BufInv, AtRecv, Counters
<1>4. PICK b : b = SubSeq(buf, 1, remaining) \o [i \in 1 .. n |-> taken + i]
  OBVIOUS
<1>5. /\ b \in Seq(Nat) /\ Len(b) = remaining + n
      /\ \A p \in 1 .. remaining : b[p] = buf[p]
      /\ \A p \in remaining + 1 .. remaining + n : b[p] = taken + (p - remaining)
  <2>1. buf \in Seq(Nat) /\ remaining \in Nat /\ remaining <= Len(buf) /\ taken \in Nat
    BY <1>3
  <2> QED
    <3>1. /\ b \in Seq(Nat) /\ Len(b) = remaining + n
          /\ \A p \in 1 .. remaining : b[p] = buf[p]
      BY <1>1, <1>4, <2>1, AppendedBytes
    <3>2. Behind(b, remaining, n, taken)
      BY <1>1, <1>4, <2>1, AppendedBytes
    <3> QED
      BY <3>1, <3>2 DEF Behind
<1>6. Ascending(b, taken + n)
  <2>1. remaining <= Len(buf)
    BY <1>3
  <2> QED
    BY <1>1, <1>3, <1>5, <2>1, AscendingAppended
<1>7. Received(b, n)
  BY <1>4 DEF Recv
<1>8. stream' = stream
  BY <1>7 DEF Received
<1>9. taken + n < stream[Len(stream)]
  BY <1>2, EndFacts DEF BufInv
<1>10. n + remaining <= BufLength
  BY <1>1, <1>2, <1>3, Constants
<1>11. Filled(b, n)
  BY <1>5, <1>6 DEF Filled
<1>12. taken' \in Nat
  BY <1>1, <1>2, <1>3
<1> QED
  BY <1>1, <1>2, <1>3, <1>7, <1>8, <1>9, <1>10, <1>11, <1>12

\* A recv() starts the loop, or what it returned is dropped.
LEMMA ReceivedFacts ==
    ASSUME NEW b, NEW n \in Int, Received(b, n)
    PROVE  /\ stream' = stream /\ connected' = connected /\ handled' = handled
           /\ (n <= 0) => closing' = TRUE
           /\ ~(n <= 0) => closing' = FALSE
           /\ \/ /\ n > PREAMBLE \/ remaining > PREAMBLE
                 /\ buf' = b /\ remaining' = remaining + n /\ done' = 0 /\ ptr' = PREAMBLE
                 /\ header' \in HeadersAt(b, 0) /\ pc' = "loop"
              \/ /\ ~(n > PREAMBLE \/ remaining > PREAMBLE)
                 /\ pc' = (IF n > 0 THEN "recv" ELSE "ended")
                 /\ buf' = buf /\ remaining' = remaining /\ done' = done /\ ptr' = ptr
                 /\ header' = header
<1>1. closing' = (n <= 0)
  BY DEF Received
<1>2. ((n <= 0) => closing' = TRUE) /\ (~(n <= 0) => closing' = FALSE)
  <2>1. CASE n <= 0
    <3>1. (n <= 0) = TRUE
      BY <2>1
    <3> QED
      BY <1>1, <3>1, Zenon
  <2>2. CASE ~(n <= 0)
    <3>1. (n <= 0) = FALSE
      BY <2>2
    <3> QED
      BY <1>1, <3>1, Zenon
  <2> QED
    BY <2>1, <2>2
<1> QED
  BY <1>2, Zenon DEF Received

LEMMA PlacesSame == ASSUME stream' = stream
                    PROVE  /\ posted' = posted /\ Messages' = Messages /\ StreamOK' = StreamOK
                           /\ \A m : Start(m)' = Start(m) /\ End(m)' = End(m)
  BY DEF posted, Messages, StreamOK, Start, End

\* The loop starts with a header.
LEMMA LoopStarts ==
    ASSUME BufInv, NEW b \in Seq(Nat), NEW n \in Int, stream' = stream, connected' = connected,
           taken' \in Nat, taken' < stream[Len(stream)], Ascending(b, taken'),
           buf' = b, remaining' = remaining + n, remaining' \in Nat, remaining' <= BufLength,
           done' = 0, ptr' = PREAMBLE, header' \in HeadersAt(b, 0), pc' = "loop",
           IF n <= 0 THEN closing' = TRUE ELSE closing' = FALSE, n > 0 => Len(b) = remaining + n
    PROVE  BufInv'
<1>1. StreamOK /\ StreamOK'
  BY PlacesSame DEF BufInv
<1>2. Counters'
  <2>1. done' + remaining' <= BufLength /\ done' \in Nat /\ ptr' \in Nat
    BY Constants
  <2>2. taken' < stream'[Len(stream')] /\ connected' \in BOOLEAN /\ closing' \in BOOLEAN
    BY DEF BufInv, Counters
  <2>3. buf' \in Seq(Nat) /\ Ascending(buf', taken')
    OBVIOUS
  <2> QED
    BY <2>1, <2>2, <2>3 DEF Counters
<1>3. /\ header'.msg \in 0 .. posted /\ header'.size \in Nat
      /\ header'.msg # 0 =>
           header'.size = Sizes[header'.msg] /\ Holds(b, 0, PREAMBLE, Start(header'.msg))
  BY <1>1, Decoded
<1>4. HeaderOK'
  BY <1>3, PlacesSame DEF HeaderOK
<1>5. header'.msg # 0 => Holds(buf, done, PREAMBLE, Start(header.msg))'
  BY <1>3 DEF Holds, Start
<1>6. ~closing' => Len(buf') = done' + remaining'
  <2>1. ~closing' => n > 0
    OBVIOUS
  <2> QED
    BY <2>1 DEF BufInv, Counters
<1>7. InLoop' /\ AtRecv'
  BY <1>5, <1>6 DEF InLoop, AtRecv
<1> QED
  BY <1>1, <1>2, <1>4, <1>7 DEF BufInv

LEMMA RecvBuf == ASSUME BufInv, NEW n \in 1 .. BufLength, Recv(n) PROVE BufInv'
<1>1. /\ pc = "recv" /\ Len(buf) = remaining /\ stream' = stream /\ n \in Nat /\ n > 0
      /\ taken' = taken + n /\ taken' \in Nat /\ taken' < stream[Len(stream)]
      /\ n + remaining <= BufLength
  BY RecvFacts
<1>2. PICK b : Filled(b, n) /\ Received(b, n)
  BY RecvFacts
<1>3. remaining \in Nat /\ taken \in Nat /\ buf \in Seq(Nat)
  BY DEF BufInv, Counters
<1>4. connected' = connected /\ closing' = FALSE /\ ~(n <= 0)
  <2>1. ~(n <= 0) /\ n \in Int
    BY <1>1
  <2> QED
    BY <1>2, <2>1, ReceivedFacts
<1>5. CASE /\ buf' = b /\ remaining' = remaining + n /\ done' = 0 /\ ptr' = PREAMBLE
           /\ header' \in HeadersAt(b, 0) /\ pc' = "loop"
  <2>1. remaining' \in Nat /\ remaining' <= BufLength
    BY <1>1, <1>3, <1>5, Constants
  <2>2. b \in Seq(Nat) /\ Len(b) = remaining + n /\ Ascending(b, taken')
    BY <1>1, <1>2 DEF Filled
  <2>3. n \in Int /\ n > 0 /\ ~(n <= 0)
    BY <1>1
  <2>4. stream' = stream /\ taken' \in Nat /\ taken' < stream[Len(stream)]
    BY <1>1
  <2> QED
    BY <1>4, <1>5, <2>1, <2>2, <2>3, <2>4, LoopStarts
<1>6. CASE /\ pc' = (IF n > 0 THEN "recv" ELSE "ended")
           /\ buf' = buf /\ remaining' = remaining /\ done' = done /\ ptr' = ptr
           /\ header' = header
  <2>1. Ascending(buf, taken')
    BY <1>1, <1>3, AscendingMore DEF BufInv, Counters
  <2>2. pc' = "recv" /\ closing' = FALSE
    BY <1>1, <1>4, <1>6
  <2>3. Counters'
    BY <1>1, <1>4, <1>6, <2>1, <2>2 DEF BufInv, Counters
  <2>4. HeaderOK' /\ StreamOK'
    BY <1>1, <1>6, PlacesSame DEF BufInv, HeaderOK
  <2>5. AtRecv' /\ InLoop'
    BY <1>1, <1>6, <2>2 DEF BufInv, AtRecv, InLoop
  <2> QED
    BY <2>3, <2>4, <2>5 DEF BufInv
<1>7. n \in Int
  OBVIOUS
<1> QED
  BY <1>2, <1>5, <1>6, <1>7, ReceivedFacts

LEMMA RecvEndsBuf == ASSUME BufInv, NEW n \in {-1, 0}, RecvEnds(n) PROVE BufInv'
<1>1. pc = "recv" /\ taken' = taken /\ Received(buf, n)
  BY DEF RecvEnds
<1>2. remaining \in Nat /\ taken \in Nat /\ buf \in Seq(Nat) /\ Ascending(buf, taken)
      /\ taken < stream[Len(stream)] /\ remaining <= BufLength
  BY Constants DEF BufInv, Counters
<1>3. connected' = connected /\ closing' = TRUE /\ n <= 0 /\ stream' = stream
  <2>1. n <= 0 /\ n \in Int
    OBVIOUS
  <2> QED
    BY <1>1, <2>1, ReceivedFacts
<1>4. CASE /\ n > PREAMBLE \/ remaining > PREAMBLE
           /\ buf' = buf /\ remaining' = remaining + n /\ done' = 0 /\ ptr' = PREAMBLE
           /\ header' \in HeadersAt(buf, 0) /\ pc' = "loop"
  <2>1. remaining' \in Nat /\ remaining' <= BufLength /\ n \in Int /\ ~(n > 0)
    BY <1>2, <1>4, Constants
  <2> QED
    BY <1>1, <1>2, <1>3, <1>4, <2>1, LoopStarts
<1>5. CASE /\ pc' = (IF n > 0 THEN "recv" ELSE "ended")
           /\ buf' = buf /\ remaining' = remaining /\ done' = done /\ ptr' = ptr
           /\ header' = header
  <2>1. pc' = "ended" /\ closing' = TRUE
    BY <1>3, <1>5
  <2>2. Counters'
    BY <1>1, <1>3, <1>5, <2>1 DEF BufInv, Counters
  <2>3. HeaderOK' /\ StreamOK'
    BY <1>3, <1>5, PlacesSame DEF BufInv, HeaderOK
  <2> QED
    BY <2>1, <2>2, <2>3 DEF BufInv, AtRecv, InLoop
<1>6. n \in Int
  OBVIOUS
<1> QED
  BY <1>1, <1>4, <1>5, <1>6, ReceivedFacts

\* One turn of the loop hands on a message and decodes the next header.
LEMMA HandleFacts ==
    ASSUME BufInv, Handle
    PROVE  /\ pc = "loop" /\ stream' = stream /\ connected' = connected /\ taken' = taken
           /\ buf' = buf /\ closing' = closing /\ whole' = whole
           /\ remaining >= Total(header.size) /\ pc' \in {"send", "loop", "ended"}
           /\ done' = done + Total(header.size) /\ done' \in Nat
           /\ remaining' = remaining - Total(header.size) /\ remaining' \in Nat
           /\ ptr' = done' + 1 /\ done' + remaining' = done + remaining
           /\ \/ Endless /\ done' = done /\ header' = header
              \/ ~Endless /\ done' > 0 /\ header' \in HeadersAt(buf, done')
<1>1. header.size \in Nat /\ done \in Nat /\ remaining \in Nat
  BY DEF BufInv, HeaderOK, Counters
<1>2. PICK x \in Nat : x = Total(header.size)
  BY <1>1, TotalNat
<1>3. done' = done + x /\ remaining' = remaining - x /\ remaining >= x
  BY <1>2 DEF Handle
<1>4. done' \in Nat /\ remaining' \in Nat /\ done' + remaining' = done + remaining
  BY <1>1, <1>3
<1>5. \/ Endless /\ done' = done /\ header' = header
      \/ ~Endless /\ done' > 0 /\ header' \in HeadersAt(buf, done')
  <2>1. CASE Endless
    <3>1. x = 0
      BY <1>2, <2>1 DEF Endless
    <3>2. header' \in {header}
      BY <2>1, Zenon DEF Handle
    <3> QED
      BY <1>1, <1>3, <2>1, <3>1, <3>2
  <2>2. CASE ~Endless
    <3>1. x # 0
      BY <1>2, <2>2 DEF Endless
    <3>2. header' \in HeadersAt(buf, done')
      BY <2>2, Zenon DEF Handle
    <3> QED
      BY <1>1, <1>3, <2>2, <3>1, <3>2
  <2> QED
    BY <2>1, <2>2
<1>6. pc' \in {"send", "loop", "ended"}
  BY DEF Handle
<1> QED
  BY <1>2, <1>3, <1>4, <1>5, <1>6 DEF Handle

LEMMA HandleBuf == ASSUME BufInv, Handle PROVE BufInv'
<1>1. /\ pc = "loop" /\ stream' = stream /\ connected' = connected /\ taken' = taken
      /\ buf' = buf /\ closing' = closing
      /\ pc' \in {"send", "loop", "ended"}
      /\ done' \in Nat /\ remaining' \in Nat
      /\ ptr' = done' + 1
      /\ done' + remaining' = done + remaining
      /\ \/ Endless /\ done' = done /\ header' = header
         \/ done' > 0 /\ header' \in HeadersAt(buf, done')
  BY HandleFacts
<1>2. StreamOK /\ StreamOK'
  BY <1>1, PlacesSame DEF BufInv
<1>3. Counters'
  <2>1. ptr' \in Nat
    <3>1. done' \in Nat /\ ptr' = done' + 1
      BY <1>1
    <3>2. \A d \in Nat : d + 1 \in Nat
      OBVIOUS
    <3> QED
      BY <3>1, <3>2, Zenon
  <2> QED
    BY <1>1, <2>1 DEF BufInv, Counters
<1>4. /\ header'.msg \in 0 .. posted /\ header'.size \in Nat
      /\ header'.msg # 0 =>
           header'.size = Sizes[header'.msg] /\ Holds(buf, done', PREAMBLE, Start(header'.msg))
  <2>1. CASE header' \in HeadersAt(buf, done')
    BY <1>2, <2>1, Decoded
  <2>2. CASE done' = done /\ header' = header
    BY <1>1, <2>2 DEF BufInv, HeaderOK, InLoop
  <2> QED
    BY <1>1, <2>1, <2>2
<1>5. HeaderOK'
  BY <1>1, <1>4, PlacesSame DEF HeaderOK
<1>6. header'.msg # 0 => Holds(buf, done, PREAMBLE, Start(header.msg))'
  BY <1>1, <1>4 DEF Holds, Start
<1>7. InLoop' /\ AtRecv'
  <2>1. (done > 0 \/ Endless)' /\ pc = "loop" /\ ptr' = done' + 1
    BY <1>1 DEF Endless
  <2>2. (~closing => Len(buf) = done + remaining)'
    BY <1>1 DEF BufInv, InLoop
  <2> QED
    BY <1>1, <1>6, <2>1, <2>2 DEF InLoop, AtRecv
<1> QED
  BY <1>2, <1>3, <1>5, <1>7 DEF BufInv

\* The end of the loop moves what is left, from beyond its first byte.
LEMMA MoveFacts ==
    ASSUME BufInv, Move
    PROVE  /\ pc = "loop" /\ stream' = stream /\ connected' = connected /\ taken' = taken
           /\ closing' = closing /\ whole' = whole /\ handled' = handled
           /\ remaining < Total(header.size)
           /\ remaining' = remaining /\ done' = done /\ ptr' = ptr /\ header' = header
           /\ ptr \in Nat /\ ptr > 0 /\ remaining \in Nat /\ buf \in Seq(Nat)
           /\ buf' \in Seq(Nat) /\ Len(buf') = remaining
           /\ \A i \in 1 .. remaining :
                buf'[i] = IF ptr + i \in 1 .. Len(buf) THEN buf[ptr + i] ELSE 0
           /\ pc' \in {"recv", "ended"} /\ (pc' = "recv" => ~closing)
<1>1. ptr \in Nat /\ remaining \in Nat /\ buf \in Seq(Nat) /\ pc = "loop"
  BY DEF BufInv, Counters, Move
<1>2. ptr > 0
  BY <1>1, Constants DEF BufInv, InLoop, Counters
<1>3. buf' = Bytes(buf, ptr, remaining)
  BY DEF Move
<1>4. /\ buf' \in Seq(Nat) /\ Len(buf') = remaining
      /\ \A i \in 1 .. remaining :
           buf'[i] = IF ptr + i \in 1 .. Len(buf) THEN buf[ptr + i] ELSE 0
  <2>1. /\ Bytes(buf, ptr, remaining) \in Seq(Nat) /\ Len(Bytes(buf, ptr, remaining)) = remaining
        /\ \A i \in 1 .. remaining : Bytes(buf, ptr, remaining)[i] =
             IF ptr + i \in 1 .. Len(buf) THEN buf[ptr + i] ELSE 0
    BY <1>1, MovedBytes
  <2> QED
    BY <1>3, <2>1
<1>5. pc' \in {"recv", "ended"} /\ (pc' = "recv" => ~closing)
  BY DEF Move
<1> QED
  BY <1>1, <1>2, <1>4, <1>5 DEF Move

LEMMA MoveBuf == ASSUME BufInv, Move PROVE BufInv'
<1>1. /\ pc = "loop" /\ stream' = stream /\ connected' = connected /\ taken' = taken
      /\ closing' = closing
      /\ remaining' = remaining /\ done' = done /\ ptr' = ptr /\ header' = header
      /\ ptr \in Nat /\ ptr > 0 /\ remaining \in Nat /\ buf \in Seq(Nat)
      /\ buf' \in Seq(Nat) /\ Len(buf') = remaining
      /\ pc' \in {"recv", "ended"} /\ (pc' = "recv" => ~closing)
  BY MoveFacts
<1>2. Ascending(buf', taken')
  BY <1>1, AscendingMoved DEF BufInv, Counters, Move
<1>3. Counters'
  BY <1>1, <1>2 DEF BufInv, Counters
<1>4. HeaderOK' /\ StreamOK'
  BY <1>1, PlacesSame DEF BufInv, HeaderOK
<1>5. ASSUME pc' = "recv", remaining > 0 PROVE buf'[remaining] = 0
  <2>1. Len(buf) = done + remaining /\ done \in Nat /\ ptr > done
    BY <1>1, <1>5, Constants DEF BufInv, InLoop, Counters
  <2>2. remaining \in 1 .. remaining /\ ~(ptr + remaining \in 1 .. Len(buf))
    BY <1>1, <1>5, <2>1
  <2> QED
    BY <2>2, MoveFacts
<1>6. AtRecv' /\ InLoop'
  BY <1>1, <1>5 DEF AtRecv, InLoop
<1> QED
  BY <1>3, <1>4, <1>6 DEF BufInv

\* The steps that leave the buffer alone.
LEMMA QuietBuf ==
    ASSUME BufInv, UNCHANGED receiveVars, UNCHANGED stream,
           connected' \in BOOLEAN,
           \/ pc' = pc \/ (pc = "send" /\ pc' = "loop") \/ (pc = "connect" /\ pc' = "recv")
           \/ pc' = "ended"
    PROVE  BufInv'
<1>1. /\ stream' = stream /\ taken' = taken /\ buf' = buf /\ remaining' = remaining /\ done' = done
      /\ ptr' = ptr /\ header' = header /\ closing' = closing
  BY DEF receiveVars
<1>2. StreamOK' /\ HeaderOK'
  BY <1>1, PlacesSame DEF BufInv, HeaderOK
<1>3. Counters'
  BY <1>1 DEF BufInv, Counters
<1>4. AtRecv'
  BY <1>1 DEF BufInv, AtRecv
<1>5. /\ Holds(buf, done, PREAMBLE, Start(header.msg))' = Holds(buf, done, PREAMBLE, Start(header.msg))
      /\ Endless' = Endless
  BY <1>1 DEF Holds, Start, Endless
<1>6. InLoop'
  BY <1>1, <1>5 DEF BufInv, InLoop
<1> QED
  BY <1>2, <1>3, <1>4, <1>6 DEF BufInv

LEMMA SentBuf == ASSUME BufInv, ServerSend PROVE BufInv'
<1>1. /\ StreamOK' /\ Len(stream') = Len(stream) + 1
      /\ \A i \in 1 .. Len(stream) : stream'[i] = stream[i]
      /\ stream[Len(stream)] < stream'[Len(stream')]
  BY StreamGrows DEF BufInv
<1>2. /\ taken' = taken /\ buf' = buf /\ remaining' = remaining /\ done' = done
      /\ ptr' = ptr /\ header' = header /\ closing' = closing /\ pc' = pc
      /\ connected' = connected
  BY DEF ServerSend, receiveVars
<1>3. stream[Len(stream)] \in Nat /\ Len(stream) \in Nat /\ posted + 1 = Len(stream) /\ posted \in Nat
  BY EndFacts DEF BufInv
<1>4. stream'[Len(stream')] \in Nat /\ posted' = posted + 1
  BY <1>1, <1>3, EndFacts DEF posted, StreamOK
<1>5. Counters'
  <2>1. taken \in Nat /\ taken < stream[Len(stream)]
    BY DEF BufInv, Counters
  <2>2. taken' < stream'[Len(stream')]
    BY <1>1, <1>2, <1>3, <1>4, <2>1
  <2> QED
    BY <1>2, <2>2 DEF BufInv, Counters
<1>6. HeaderOK'
  BY <1>2, <1>3, <1>4 DEF BufInv, HeaderOK
<1>7. AtRecv'
  BY <1>2 DEF BufInv, AtRecv
<1>8. header.msg # 0 => Holds(buf, done, PREAMBLE, Start(header.msg))' =
                        Holds(buf, done, PREAMBLE, Start(header.msg))
  <2>1. header.msg # 0 => stream'[header.msg] = stream[header.msg]
    BY <1>1, <1>3 DEF BufInv, HeaderOK
  <2> QED
    BY <1>2, <2>1 DEF Holds, Start
<1>9. InLoop'
  BY <1>2, <1>8 DEF BufInv, InLoop, Endless
<1> QED
  BY <1>1, <1>5, <1>6, <1>7, <1>9 DEF BufInv

\* The steps of n_connect and n_send, and those that do nothing.
Aside ==
    \/ Connect \/ NoAddress \/ SendFails \/ SendReturns \/ UNCHANGED vars
    \/ \E n \in 1 .. ReplySize : SendPart(n)

LEMMA AsideFacts ==
    ASSUME Aside
    PROVE  /\ receiveVars' = receiveVars /\ stream' = stream /\ handled' = handled
           /\ \/ pc' = pc \/ (pc = "send" /\ pc' = "loop") \/ (pc = "connect" /\ pc' = "recv")
              \/ pc' = "ended"
<1>1. CASE Connect
  BY <1>1 DEF Connect
<1>2. CASE NoAddress
  BY <1>2 DEF NoAddress
<1>3. CASE SendFails
  <2>1. receiveVars' = receiveVars /\ stream' = stream /\ handled' = handled
    BY <1>3 DEF SendFails, receiveVars
  <2>2. pc' = pc
    BY <1>3 DEF SendFails
  <2> QED
    BY <2>1, <2>2
<1>4. CASE SendReturns
  <2>1. receiveVars' = receiveVars /\ stream' = stream /\ handled' = handled
    BY <1>4 DEF SendReturns, receiveVars
  <2>2. pc = "send" /\ pc' = "loop"
    BY <1>4 DEF SendReturns
  <2> QED
    BY <2>1, <2>2
<1>5. CASE UNCHANGED vars
  <2>1. receiveVars' = receiveVars /\ stream' = stream /\ handled' = handled
    BY <1>5 DEF vars, receiveVars
  <2>2. pc' = pc
    BY <1>5 DEF vars
  <2> QED
    BY <2>1, <2>2
<1>6. CASE \E n \in 1 .. ReplySize : SendPart(n)
  <2>1. receiveVars' = receiveVars /\ stream' = stream /\ handled' = handled
    BY <1>6 DEF SendPart, receiveVars
  <2>2. pc' = pc
    BY <1>6 DEF SendPart
  <2> QED
    BY <2>1, <2>2
<1> QED
  BY <1>1, <1>2, <1>3, <1>4, <1>5, <1>6 DEF Aside

LEMMA AsideConnected == ASSUME Aside, connected \in BOOLEAN PROVE connected' \in BOOLEAN
<1>1. CASE Connect
  BY <1>1, Zenon DEF Connect
<1>2. CASE ~Connect
  <2>1. connected' = connected
    BY <1>2 DEF Aside, NoAddress, SendFails, SendReturns, SendPart, vars
  <2> QED
    BY <2>1, Zenon
<1> QED
  BY <1>1, <1>2

LEMMA NextSteps ==
    ASSUME [Next]_vars
    PROVE  \/ Aside \/ ServerSend \/ Handle \/ Move
           \/ (\E n \in 1 .. BufLength : Recv(n)) \/ (\E n \in {-1, 0} : RecvEnds(n))
  BY DEF Next, n_connect, n_receieve, n_send, Aside

LEMMA BufStep == BufInv /\ [Next]_vars => BufInv'
<1> SUFFICES ASSUME BufInv, [Next]_vars PROVE BufInv'
  OBVIOUS
<1>1. CASE Aside
  <2>1. connected' \in BOOLEAN
    BY <1>1, AsideConnected DEF BufInv, Counters
  <2> QED
    BY <1>1, <2>1, AsideFacts, QuietBuf
<1> QED
  BY <1>1, NextSteps, SentBuf, HandleBuf, MoveBuf, RecvBuf, RecvEndsBuf

-----------------------------------------------------------------------------
(* Which messages can be handed on as they were sent. *)

\* Message m lies in the buffer from place p on.
Carries(b, p, m) == Holds(b, p, PREAMBLE + Sizes[m], Start(m))

WholeOK == whole \subseteq Messages /\ \A m \in whole : End(m) <= taken + 1

\* No message that two recv() returned lies in the buffer: a byte is missing between the two.
WindowOK == \A m \in Messages, p \in Nat : Carries(buf, p, m) => m \in whole

Entry == [msg : Nat, first : BOOLEAN, intact : BOOLEAN]

HandledOK ==
    /\ handled \in Seq(Entry)
    /\ \A i \in 1 .. Len(handled) : handled[i].intact => handled[i].msg \in whole

\* What lies in the buffer was sent after place s, but for the first byte of a buffer whose
\* first message has been handed on.
Passed(s) ==
    \A p \in 1 .. Len(buf) :
        (buf[p] # 0 /\ (p > 1 \/ done = 0 \/ pc \in {"connect", "recv"})) => s < buf[p]

PastOK ==
    pc # "ended" =>
        \A i \in 1 .. Len(handled) : handled[i].intact => Passed(Start(handled[i].msg))

OrderOK ==
    \A i, j \in 1 .. Len(handled) :
        (handled[i].intact /\ handled[j].intact /\ i < j) => handled[i].msg < handled[j].msg

FrameInv == WholeOK /\ WindowOK /\ HandledOK /\ PastOK /\ OrderOK

LEMMA FrameInit == Init => FrameInv
<1> SUFFICES ASSUME Init PROVE FrameInv
  OBVIOUS
<1>1. Messages = {} /\ whole = {}
  BY DEF Init, Messages, posted
<1>2. handled = <<>> /\ Len(handled) = 0 /\ handled \in Seq(Entry)
  BY DEF Init
<1> QED
  BY <1>1, <1>2 DEF FrameInv, WholeOK, WindowOK, HandledOK, PastOK, OrderOK

\* A message's place does not change.
LEMMA CarriesSame ==
    ASSUME NEW m, stream'[m] = stream[m], NEW b, buf' = b, NEW p
    PROVE  Carries(buf, p, m)' <=> Carries(b, p, m)
  BY DEF Carries, Holds, Start

\* What a buffer that carries a message holds.
LEMMA CarriedBytes ==
    ASSUME StreamOK, NEW m \in Messages, NEW b \in Seq(Nat), NEW p \in Nat, Carries(b, p, m)
    PROVE  /\ \A i \in 1 .. PREAMBLE + Sizes[m] : p + i \in 1 .. Len(b) /\ b[p + i] = Start(m) + i - 1
           /\ PREAMBLE + Sizes[m] \in Nat /\ PREAMBLE + Sizes[m] > 0
           /\ p + PREAMBLE + Sizes[m] <= Len(b)
<1>1. PREAMBLE + Sizes[m] \in Nat /\ PREAMBLE + Sizes[m] > 0
  BY MessageFacts, Constants
<1>2. DOMAIN b = 1 .. Len(b)
  OBVIOUS
<1>3. \A i \in 1 .. PREAMBLE + Sizes[m] : p + i \in 1 .. Len(b) /\ b[p + i] = Start(m) + i - 1
  BY <1>2 DEF Carries, Holds
<1>4. PREAMBLE + Sizes[m] \in 1 .. PREAMBLE + Sizes[m]
  BY <1>1
<1>5. p + (PREAMBLE + Sizes[m]) \in 1 .. Len(b)
  BY <1>3, <1>4
<1>6. PREAMBLE \in Nat /\ Sizes[m] \in Nat /\ Len(b) \in Nat
  BY Constants, MessageFacts
<1> QED
  BY <1>1, <1>3, <1>5, <1>6

\* The other way around.
LEMMA BytesCarried ==
    ASSUME NEW m, NEW b \in Seq(Nat), NEW p,
           \A i \in 1 .. PREAMBLE + Sizes[m] : p + i \in 1 .. Len(b) /\ b[p + i] = Start(m) + i - 1
    PROVE  Carries(b, p, m)
<1>1. DOMAIN b = 1 .. Len(b)
  OBVIOUS
<1> QED
  BY <1>1 DEF Carries, Holds

\* A message in a buffer that recv() has filled lies on one side.
LEMMA OneSide ==
    ASSUME BufInv, FrameInv, pc = "recv", NEW n \in Nat, taken + n < stream[Len(stream)],
           NEW b, Filled(b, n), NEW m \in Messages, NEW p \in Nat, Carries(b, p, m)
    PROVE  m \in whole \/ (taken < Start(m) /\ End(m) <= taken + n + 1)
<1>1. remaining \in Nat /\ taken \in Nat /\ buf \in Seq(Nat) /\ Len(buf) = remaining /\ StreamOK
  BY DEF BufInv, AtRecv, Counters
<1>2. /\ b \in Seq(Nat) /\ Len(b) = remaining + n
      /\ \A q \in 1 .. remaining : b[q] = buf[q]
      /\ \A q \in remaining + 1 .. remaining + n : b[q] = taken + (q - remaining)
  BY DEF Filled
<1>3. PICK l \in Nat : l = PREAMBLE + Sizes[m] /\ l > 0
  BY <1>1, MessageFacts, Constants
<1>4. PICK s \in Nat : s = Start(m) /\ s > 0 /\ End(m) = s + l
  BY <1>1, <1>3, MessageFacts, Constants
<1>5. \A i \in 1 .. l : p + i \in 1 .. remaining + n /\ b[p + i] = s + i - 1
  <2>1. \A i \in 1 .. PREAMBLE + Sizes[m] : p + i \in 1 .. Len(b) /\ b[p + i] = Start(m) + i - 1
    BY <1>1, <1>2, CarriedBytes
  <2> QED
    BY <1>2, <1>3, <1>4, <2>1
<1>6. CASE p + l <= remaining
  <2>1. \A i \in 1 .. l : p + i \in 1 .. Len(buf) /\ buf[p + i] = s + i - 1
    <3> SUFFICES ASSUME NEW i \in 1 .. l
                 PROVE  p + i \in 1 .. Len(buf) /\ buf[p + i] = s + i - 1
      OBVIOUS
    <3>1. p + i \in 1 .. remaining /\ b[p + i] = s + i - 1
      BY <1>1, <1>3, <1>5, <1>6
    <3> QED
      BY <1>1, <1>2, <3>1
  <2>2. Carries(buf, p, m)
    BY <1>1, <1>3, <1>4, <2>1, BytesCarried
  <2> QED
    BY <2>2 DEF FrameInv, WindowOK
<1>7. CASE p >= remaining
  <2>1. 1 \in 1 .. l /\ l \in 1 .. l
    BY <1>3
  <2>2. PICK x \in Nat : x = p + 1
    OBVIOUS
  <2>3. PICK y \in Nat : y = p + l
    OBVIOUS
  <2>4. /\ x \in 1 .. remaining + n /\ b[x] = s + 1 - 1
        /\ y \in 1 .. remaining + n /\ b[y] = s + l - 1
    BY <1>5, <2>1, <2>2, <2>3
  <2>5. x \in remaining + 1 .. remaining + n /\ y \in remaining + 1 .. remaining + n
    BY <1>1, <1>3, <1>7, <2>4, <2>2, <2>3
  <2>6. b[x] = taken + (x - remaining) /\ b[y] = taken + (y - remaining)
    BY <1>2, <2>5
  <2>7. s = taken + (x - remaining) /\ s + l - 1 = taken + (y - remaining)
    BY <1>4, <2>4, <2>6
  <2>8. taken < s
    BY <1>1, <2>5, <2>7
  <2>9. s + l <= taken + n + 1
    BY <1>1, <1>3, <1>4, <2>5, <2>7
  <2> QED
    BY <1>4, <2>8, <2>9
<1>8. CASE p < remaining /\ remaining < p + l
  <2>1. remaining - p \in 1 .. l /\ p + (remaining - p) = remaining /\ remaining \in 1 .. remaining
    BY <1>1, <1>3, <1>8
  <2>2. b[remaining] = s + (remaining - p) - 1
    BY <1>5, <2>1
  <2>3. b[remaining] = buf[remaining] /\ buf[remaining] = 0
    BY <1>1, <1>2, <2>1 DEF BufInv, AtRecv
  <2> QED
    BY <1>1, <1>4, <2>1, <2>2, <2>3
<1> QED
  BY <1>1, <1>3, <1>6, <1>7, <1>8

\* Only the first message of a recv() can be intact, and its header and body are next to
\* each other.
LEMMA IntactIsFirst ==
    ASSUME BufInv, pc = "loop", header.msg # 0,
           Holds(buf, ptr, header.size, Start(header.msg) + PREAMBLE)
    PROVE  /\ done = 0 /\ header.msg \in Messages /\ header.size = Sizes[header.msg]
           /\ Carries(buf, 0, header.msg)
<1>1. StreamOK /\ header.msg \in Messages /\ header.size = Sizes[header.msg]
  BY EndFacts DEF BufInv, HeaderOK
<1>2. PICK m \in Messages : m = header.msg
  BY <1>1
<1>3. PICK s \in Nat : s = Start(m) /\ s > 0
  BY <1>1, MessageFacts
<1>4. PICK z \in Nat : z = Sizes[m] /\ z > 0
  BY <1>1, MessageFacts
<1>5. buf \in Seq(Nat) /\ DOMAIN buf = 1 .. Len(buf) /\ done \in Nat
  BY DEF BufInv, Counters
<1>6. \A i \in 1 .. PREAMBLE : done + i \in 1 .. Len(buf) /\ buf[done + i] = s + i - 1
  BY <1>1, <1>2, <1>3, <1>5 DEF BufInv, InLoop, Holds
<1>7. \A i \in 1 .. z : ptr + i \in 1 .. Len(buf) /\ buf[ptr + i] = s + PREAMBLE + i - 1
  BY <1>1, <1>2, <1>3, <1>4, <1>5 DEF Holds
<1>8. (done = 0 /\ ptr = PREAMBLE) \/ ((done > 0 \/ Endless) /\ ptr = done + 1)
  BY DEF BufInv, InLoop
<1>9. done = 0 /\ ptr = PREAMBLE
  <2> SUFFICES ASSUME ptr = done + 1 PROVE FALSE
    BY <1>8
  <2>1. 2 \in 1 .. PREAMBLE /\ 1 \in 1 .. z /\ ptr + 1 = done + 2
    BY <1>4, <1>5, Constants
  <2>2. buf[done + 2] = s + 2 - 1 /\ buf[done + 2] = s + PREAMBLE + 1 - 1
    BY <1>6, <1>7, <2>1
  <2> QED
    BY <1>3, <2>2, Constants
<1>10. \A i \in 1 .. PREAMBLE + z : 0 + i \in 1 .. Len(buf) /\ buf[0 + i] = s + i - 1
  <2> SUFFICES ASSUME NEW i \in 1 .. PREAMBLE + z
               PROVE  0 + i \in 1 .. Len(buf) /\ buf[0 + i] = s + i - 1
    OBVIOUS
  <2>1. CASE i <= PREAMBLE
    <3>1. i \in 1 .. PREAMBLE /\ done + i = i /\ 0 + i = i
      BY <1>9, <2>1, Constants
    <3> QED
      BY <1>6, <3>1
  <2>2. CASE i > PREAMBLE
    <3>1. i - PREAMBLE \in 1 .. z /\ PREAMBLE + (i - PREAMBLE) = i /\ 0 + i = i
      BY <1>4, <2>2, Constants
    <3>2. ptr + (i - PREAMBLE) = i
      BY <1>9, <3>1
    <3>3. i \in 1 .. Len(buf) /\ buf[i] = s + PREAMBLE + (i - PREAMBLE) - 1
      BY <1>7, <3>1, <3>2
    <3> QED
      BY <1>3, <3>1, <3>3, Constants
  <2> QED
    BY <2>1, <2>2, Constants
<1>11. Carries(buf, 0, m)
  BY <1>3, <1>4, <1>5, <1>10, BytesCarried
<1> QED
  BY <1>1, <1>2, <1>9, <1>11

\* The header of a message that was sent does not wrap.
LEMMA IntactNotEndless == ASSUME BufInv, header.msg # 0 PROVE ~Endless
<1>1. header.msg \in Messages /\ header.size = Sizes[header.msg]
  BY EndFacts DEF BufInv, HeaderOK
<1>2. header.msg \in 1 .. Len(Sizes)
  BY <1>1, Constants DEF BufInv, StreamOK, Messages, posted
<1> QED
  BY <1>1, <1>2, TotalSent DEF Endless

LEMMA FirstPtr == ASSUME BufInv, pc = "loop", done = 0, header.msg # 0 PROVE ptr = PREAMBLE
  BY IntactNotEndless DEF BufInv, InLoop

\* The parts of FrameInv that speak of the buffer, after a recv().
LEMMA RecvFrame == ASSUME BufInv, FrameInv, NEW n \in 1 .. BufLength, Recv(n) PROVE FrameInv'
<1>1. /\ pc = "recv" /\ Len(buf) = remaining /\ stream' = stream /\ n \in Nat /\ n > 0
      /\ taken' = taken + n /\ taken' \in Nat /\ taken' < stream[Len(stream)]
  BY RecvFacts
<1>2. PICK b : Filled(b, n) /\ Received(b, n)
  BY RecvFacts
<1>3. whole' = whole \cup {m \in Messages : taken < Start(m) /\ End(m) <= taken + n + 1}
  BY DEF Recv
<1>4. /\ StreamOK /\ remaining \in Nat /\ taken \in Nat /\ buf \in Seq(Nat)
      /\ Messages' = Messages /\ handled' = handled
  <2>1. n \in Int /\ Received(b, n)
    BY <1>1, <1>2
  <2>2. handled' = handled
    BY <2>1, ReceivedFacts
  <2>3. Messages' = Messages
    BY <1>1, PlacesSame
  <2> QED
    BY <2>2, <2>3 DEF BufInv, Counters
<1>5. \A m \in Messages : Start(m) \in Nat /\ End(m) \in Nat /\ Start(m) < End(m)
  <2> SUFFICES ASSUME NEW m \in Messages PROVE Start(m) \in Nat /\ End(m) \in Nat /\ Start(m) < End(m)
    OBVIOUS
  <2> QED
    BY <1>4, MessageFacts, Constants
<1>6. WholeOK'
  <2>1. \A m \in whole' : m \in Messages /\ End(m) <= taken + n + 1
    BY <1>1, <1>3, <1>4, <1>5 DEF FrameInv, WholeOK
  <2>2. \A m \in whole' : End(m)' <= taken' + 1
    BY <1>1, <1>4, <2>1 DEF End
  <2> QED
    BY <1>4, <2>1, <2>2 DEF WholeOK
<1>7. /\ \/ buf' = b /\ pc' = "loop" /\ done' = 0
         \/ buf' = buf /\ pc' = "recv" /\ done' = done
  <2>1. n \in Int /\ n > 0
    BY <1>1
  <2> QED
    BY <1>2, <2>1, ReceivedFacts
<1>8. WindowOK'
  <2> SUFFICES ASSUME NEW m \in Messages, NEW p \in Nat, Carries(buf, p, m)' PROVE m \in whole'
    BY <1>4 DEF WindowOK
  <2>1. CASE buf' = b
    <3>1. Carries(b, p, m)
      BY <1>1, <2>1, CarriesSame
    <3>2. m \in whole \/ (taken < Start(m) /\ End(m) <= taken + n + 1)
      BY <1>1, <1>2, <3>1, OneSide
    <3> QED
      BY <1>3, <3>2
  <2>2. CASE buf' = buf
    <3>1. Carries(buf, p, m)
      BY <1>1, <2>2, CarriesSame
    <3> QED
      BY <1>3, <3>1 DEF FrameInv, WindowOK
  <2> QED
    BY <1>7, <2>1, <2>2
<1>9. HandledOK'
  BY <1>3, <1>4 DEF FrameInv, HandledOK
<1>10. ASSUME NEW i \in 1 .. Len(handled), handled[i].intact
       PROVE  Passed(Start(handled[i].msg))'
  <2>1. PICK s : s = Start(handled[i].msg)
    OBVIOUS
  <2>2. Passed(s)
    BY <1>1, <1>10, <2>1 DEF FrameInv, PastOK
  <2>3. \A p \in 1 .. Len(buf) : buf[p] # 0 => s < buf[p]
    BY <1>1, <2>2 DEF Passed
  <2>4. s \in Nat /\ s <= taken
    <3>1. handled[i].msg \in Messages /\ End(handled[i].msg) <= taken + 1
      BY <1>10 DEF FrameInv, HandledOK, WholeOK
    <3> QED
      BY <1>4, <1>5, <2>1, <3>1
  <2>5. ASSUME buf' = b, NEW p \in 1 .. Len(b), b[p] # 0 PROVE s < b[p]
    <3>1. Len(b) = remaining + n
      BY <1>2 DEF Filled
    <3>2. CASE p \in 1 .. remaining
      <4>1. p \in 1 .. Len(buf) /\ b[p] = buf[p]
        BY <1>1, <1>2, <3>2 DEF Filled
      <4> QED
        BY <2>3, <2>5, <4>1
    <3>3. CASE p \in remaining + 1 .. remaining + n
      <4>1. b[p] = taken + (p - remaining)
        BY <1>2, <3>3 DEF Filled
      <4> QED
        BY <1>4, <2>4, <3>3, <4>1
    <3> QED
      BY <1>1, <1>4, <3>1, <3>2, <3>3
  <2>6. \A p \in 1 .. Len(buf') : buf'[p] # 0 => s < buf'[p]
    BY <1>7, <2>3, <2>5
  <2>7. Start(handled[i].msg)' = s
    BY <1>1, <1>4, <2>1 DEF Start
  <2> QED
    BY <2>6, <2>7 DEF Passed
<1>11. PastOK'
  BY <1>4, <1>10 DEF PastOK
<1>12. OrderOK'
  BY <1>4 DEF FrameInv, OrderOK
<1> QED
  BY <1>6, <1>8, <1>9, <1>11, <1>12 DEF FrameInv

LEMMA RecvEndsFrame == ASSUME BufInv, FrameInv, NEW n \in {-1, 0}, RecvEnds(n) PROVE FrameInv'
<1>1. pc = "recv" /\ taken' = taken /\ whole' = whole /\ Received(buf, n)
  BY DEF RecvEnds
<1>2. n \in Int /\ ~(n > 0)
  OBVIOUS
<1>3. /\ stream' = stream /\ handled' = handled /\ Messages' = Messages
      /\ buf' = buf /\ pc' \in {"loop", "ended"}
  BY <1>1, <1>2, ReceivedFacts, PlacesSame
<1>4. WholeOK' /\ HandledOK' /\ OrderOK'
  BY <1>1, <1>3, PlacesSame DEF FrameInv, WholeOK, HandledOK, OrderOK
<1>5. \A m, p : Carries(buf, p, m)' <=> Carries(buf, p, m)
  BY <1>3, CarriesSame
<1>6. WindowOK'
  BY <1>1, <1>3, <1>5 DEF FrameInv, WindowOK
<1>7. \A m : Passed(Start(m)) => Passed(Start(m))'
  BY <1>1, <1>3 DEF Passed, Start
<1>8. PastOK'
  BY <1>1, <1>3, <1>7 DEF FrameInv, PastOK, Start
<1> QED
  BY <1>4, <1>6, <1>8 DEF FrameInv

\* The end of the loop.
LEMMA MoveFrame == ASSUME BufInv, FrameInv, Move PROVE FrameInv'
<1>1. /\ pc = "loop" /\ stream' = stream /\ taken' = taken /\ whole' = whole /\ handled' = handled
      /\ ptr \in Nat /\ ptr > 0 /\ remaining \in Nat /\ buf \in Seq(Nat)
      /\ buf' \in Seq(Nat) /\ Len(buf') = remaining
      /\ \A i \in 1 .. remaining :
           buf'[i] = IF ptr + i \in 1 .. Len(buf) THEN buf[ptr + i] ELSE 0
  BY MoveFacts
<1>2. StreamOK /\ Messages' = Messages
  BY <1>1, PlacesSame DEF BufInv
<1>3. WholeOK' /\ HandledOK' /\ OrderOK'
  BY <1>1, PlacesSame DEF FrameInv, WholeOK, HandledOK, OrderOK
<1>4. ASSUME NEW i \in 1 .. remaining, buf'[i] # 0
      PROVE  ptr + i \in 1 .. Len(buf) /\ buf'[i] = buf[ptr + i]
  BY <1>1, <1>4
<1>5. WindowOK'
  <2> SUFFICES ASSUME NEW m \in Messages, NEW p \in Nat, Carries(buf, p, m)' PROVE m \in whole
    BY <1>1, <1>2 DEF WindowOK
  <2>1. PICK c : c = buf'
    OBVIOUS
  <2>2. c \in Seq(Nat) /\ Len(c) = remaining /\ Carries(c, p, m)
    BY <1>1, <2>1, CarriesSame
  <2>3. \A i \in 1 .. PREAMBLE + Sizes[m] : p + i \in 1 .. Len(c) /\ c[p + i] = Start(m) + i - 1
    BY <1>2, <2>2, CarriedBytes
  <2>4. Start(m) \in Nat /\ Start(m) > 0 /\ Sizes[m] \in Nat
    BY <1>2, MessageFacts
  <2>5. PICK r \in Nat : r = ptr + p
    BY <1>1
  <2>6. ASSUME NEW i \in 1 .. PREAMBLE + Sizes[m]
        PROVE  r + i \in 1 .. Len(buf) /\ buf[r + i] = Start(m) + i - 1
    <3>1. PICK q \in Nat : q = p + i
      BY <2>4, Constants
    <3>2. q \in 1 .. remaining /\ c[q] = Start(m) + i - 1 /\ c[q] # 0
      BY <2>2, <2>3, <2>4, <3>1
    <3>3. ptr + q \in 1 .. Len(buf) /\ c[q] = buf[ptr + q]
      BY <1>4, <2>1, <3>2
    <3>4. r + i = ptr + q
      BY <1>1, <2>4, <2>5, <3>1, Constants
    <3> QED
      BY <3>2, <3>3, <3>4
  <2>7. Carries(buf, r, m)
    BY <1>1, <2>6, BytesCarried
  <2> QED
    BY <2>7 DEF FrameInv, WindowOK
<1>6. ASSUME NEW i \in 1 .. Len(handled), handled[i].intact
      PROVE  Passed(Start(handled[i].msg))'
  <2>1. PICK s : s = Start(handled[i].msg)
    OBVIOUS
  <2>2. Passed(s)
    BY <1>1, <1>6, <2>1 DEF FrameInv, PastOK
  <2>3. ASSUME NEW p \in 1 .. remaining, buf'[p] # 0 PROVE s < buf'[p]
    <3>1. PICK q \in Nat : q = ptr + p
      BY <1>1
    <3>2. q \in 1 .. Len(buf) /\ buf'[p] = buf[q] /\ q > 1
      BY <1>1, <1>4, <2>3, <3>1
    <3> QED
      BY <2>2, <2>3, <3>2 DEF Passed
  <2>4. Start(handled[i].msg)' = s
    BY <1>1, <2>1 DEF Start
  <2> QED
    BY <1>1, <2>3, <2>4 DEF Passed
<1>7. PastOK'
  BY <1>1, <1>6 DEF PastOK
<1> QED
  BY <1>3, <1>5, <1>7 DEF FrameInv

\* What Handle adds to the record of what was handed on.
LEMMA HandledMore ==
    ASSUME BufInv, HandledOK, Handle
    PROVE  \E e \in Entry :
              /\ handled' = Append(handled, e)
              /\ e.msg = header.msg /\ (e.first <=> done = 0)
              /\ e.intact <=> Intact
              /\ handled' \in Seq(Entry) /\ Len(handled') = Len(handled) + 1
              /\ handled'[Len(handled) + 1] = e
              /\ \A i \in 1 .. Len(handled) : handled'[i] = handled[i]
<1>1. PICK x : x = Intact
  OBVIOUS
<1>2. PICK f : f = (done = 0)
  OBVIOUS
<1>3. x \in BOOLEAN /\ f \in BOOLEAN
  BY <1>1, <1>2, Zenon DEF Intact
<1>4. PICK e : e = [msg |-> header.msg, first |-> f, intact |-> x]
  OBVIOUS
<1>5. handled' = Append(handled, e)
  BY <1>1, <1>2, <1>4, Zenon DEF Handle
<1>6. header.msg \in Nat
  BY EndFacts DEF BufInv, HeaderOK
<1>7. e \in Entry
  BY <1>3, <1>4, <1>6 DEF Entry
<1>8. e.msg = header.msg /\ e.first = f /\ e.intact = x
  BY <1>4
<1>9. (e.first <=> done = 0) /\ (e.intact <=> Intact)
  BY <1>1, <1>2, <1>8, Zenon DEF Intact
<1>10. handled \in Seq(Entry)
  BY DEF HandledOK
<1>11. /\ handled' \in Seq(Entry) /\ Len(handled') = Len(handled) + 1
       /\ handled'[Len(handled) + 1] = e
       /\ \A i \in 1 .. Len(handled) : handled'[i] = handled[i]
  BY <1>5, <1>7, <1>10
<1> QED
  BY <1>5, <1>7, <1>8, <1>9, <1>11

\* One turn of the loop.
LEMMA HandleFrame == ASSUME BufInv, FrameInv, Handle PROVE FrameInv'
<1>1. /\ pc = "loop" /\ stream' = stream /\ taken' = taken /\ buf' = buf /\ whole' = whole
      /\ pc' \in {"send", "loop", "ended"} /\ done \in Nat /\ done' \in Nat
      /\ done' = 0 => Endless /\ done = 0
  BY HandleFacts DEF BufInv, Counters
<1>2. PICK e \in Entry :
              /\ e.msg = header.msg
              /\ e.intact <=> Intact
              /\ handled' \in Seq(Entry) /\ Len(handled') = Len(handled) + 1
              /\ handled'[Len(handled) + 1] = e
              /\ \A i \in 1 .. Len(handled) : handled'[i] = handled[i]
  BY HandledMore DEF FrameInv
<1>3. PICK k \in Nat : k = Len(handled)
  BY DEF FrameInv, HandledOK
<1>4. StreamOK /\ Messages' = Messages /\ buf \in Seq(Nat) /\ Ascending(buf, taken)
  BY <1>1, PlacesSame DEF BufInv, Counters
<1>5. WholeOK'
  BY <1>1, <1>4, PlacesSame DEF FrameInv, WholeOK
<1>6. \A m, p : Carries(buf, p, m)' <=> Carries(buf, p, m)
  BY <1>1, CarriesSame
<1>7. WindowOK'
  BY <1>1, <1>4, <1>6 DEF FrameInv, WindowOK
<1>8. ASSUME e.intact
      PROVE  /\ done = 0 /\ e.msg \in Messages /\ e.msg \in whole
             /\ Start(e.msg) \in Nat /\ Start(e.msg) > 0
             /\ 1 \in 1 .. Len(buf) /\ buf[1] = Start(e.msg)
  <2>1. done = 0 /\ e.msg \in Messages /\ Carries(buf, 0, e.msg)
    BY <1>1, <1>2, <1>8, IntactIsFirst DEF Intact
  <2>2. Start(e.msg) \in Nat /\ Start(e.msg) > 0
    BY <1>4, <2>1, MessageFacts
  <2>3. /\ \A i \in 1 .. PREAMBLE + Sizes[e.msg] :
             0 + i \in 1 .. Len(buf) /\ buf[0 + i] = Start(e.msg) + i - 1
        /\ PREAMBLE + Sizes[e.msg] \in Nat /\ PREAMBLE + Sizes[e.msg] > 0
    <3>1. 0 \in Nat
      OBVIOUS
    <3> QED
      BY <1>4, <2>1, <3>1, CarriedBytes
  <2>4. 1 \in 1 .. PREAMBLE + Sizes[e.msg] /\ 0 + 1 = 1 /\ Start(e.msg) + 1 - 1 = Start(e.msg)
    BY <2>2, <2>3
  <2>5. 1 \in 1 .. Len(buf) /\ buf[1] = Start(e.msg)
    BY <2>3, <2>4
  <2>6. e.msg \in whole
    BY <2>1 DEF FrameInv, WindowOK
  <2> QED
    BY <2>1, <2>2, <2>5, <2>6
<1>9. ASSUME NEW i \in 1 .. Len(handled'), handled'[i].intact
      PROVE  (i \in 1 .. k /\ handled'[i] = handled[i] /\ handled[i].intact)
             \/ (i = k + 1 /\ handled'[i] = e /\ e.intact)
  BY <1>2, <1>3, <1>9
<1>10. HandledOK'
  <2>1. \A i \in 1 .. Len(handled') : handled'[i].intact => handled'[i].msg \in whole
    <3> SUFFICES ASSUME NEW i \in 1 .. Len(handled'), handled'[i].intact
                 PROVE  handled'[i].msg \in whole
      OBVIOUS
    <3> QED
      BY <1>3, <1>8, <1>9 DEF FrameInv, HandledOK
  <2> QED
    BY <1>1, <1>2, <2>1 DEF HandledOK
<1>11. ASSUME NEW i \in 1 .. k, handled[i].intact, e.intact
       PROVE  handled[i].msg < e.msg
  <2>1. PICK m : m = handled[i].msg
    OBVIOUS
  <2>2. m \in Messages
    BY <1>3, <1>11, <2>1 DEF FrameInv, HandledOK, WholeOK
  <2>3. Passed(Start(m))
    BY <1>1, <1>3, <1>11, <2>1 DEF FrameInv, PastOK
  <2>4. Start(m) < Start(e.msg)
    BY <1>8, <1>11, <2>3 DEF Passed
  <2>5. m \in Nat /\ e.msg \in Nat /\ m \in 1 .. Len(stream) /\ e.msg \in 1 .. Len(stream)
        /\ stream[m] \in Nat /\ stream[e.msg] \in Nat
    <3>1. m \in Nat /\ m \in 1 .. Len(stream) /\ Start(m) \in Nat
      BY <1>4, <2>2, MessageFacts
    <3>2. e.msg \in Nat /\ e.msg \in 1 .. Len(stream) /\ Start(e.msg) \in Nat
      BY <1>4, <1>8, <1>11, MessageFacts
    <3> QED
      BY <3>1, <3>2 DEF Start
  <2>6. stream[m] < stream[e.msg]
    BY <2>4 DEF Start
  <2>7. e.msg < m => stream[e.msg] < stream[m]
    BY <1>4, <2>5 DEF StreamOK
  <2>8. e.msg = m => stream[e.msg] = stream[m]
    OBVIOUS
  <2> QED
    BY <2>1, <2>5, <2>6, <2>7, <2>8
<1>12. OrderOK'
  <2> SUFFICES ASSUME NEW i \in 1 .. Len(handled'), NEW j \in 1 .. Len(handled'),
                      handled'[i].intact, handled'[j].intact, i < j
               PROVE  handled'[i].msg < handled'[j].msg
    BY DEF OrderOK
  <2>1. i \in 1 .. k /\ handled'[i] = handled[i] /\ handled[i].intact
    BY <1>2, <1>3, <1>9
  <2>2. CASE j \in 1 .. k
    <3>1. handled'[j] = handled[j] /\ handled[j].intact
      BY <1>2, <1>3, <2>2
    <3> QED
      BY <1>3, <2>1, <2>2, <3>1 DEF FrameInv, OrderOK
  <2>3. CASE j = k + 1
    <3>1. handled'[j] = e /\ e.intact
      BY <1>2, <1>3, <2>3
    <3> QED
      BY <1>11, <2>1, <3>1
  <2> QED
    BY <1>2, <1>3, <2>2, <2>3
<1>13. ASSUME NEW i \in 1 .. Len(handled'), handled'[i].intact
       PROVE  Passed(Start(handled[i].msg))'
  <2>1. PICK s : s = Start(handled'[i].msg)
    OBVIOUS
  <2>2. ASSUME NEW p \in 1 .. Len(buf), buf[p] # 0, p > 1 \/ done' = 0
        PROVE  s < buf[p]
    <3>1. CASE i \in 1 .. k /\ handled'[i] = handled[i] /\ handled[i].intact
      <4>1. Passed(s)
        BY <1>1, <1>3, <2>1, <3>1 DEF FrameInv, PastOK
      <4> QED
        BY <1>1, <2>2, <4>1 DEF Passed
    <3>2. CASE handled'[i] = e /\ e.intact
      <4>1. 1 \in 1 .. Len(buf) /\ buf[1] = s /\ buf[1] # 0
        BY <1>8, <2>1, <3>2
      <4>2. ~Endless
        BY <1>2, <3>2, IntactNotEndless DEF Intact
      <4> QED
        BY <1>1, <1>4, <2>2, <4>1, <4>2 DEF Ascending
    <3> QED
      BY <1>9, <1>13, <3>1, <3>2
  <2>3. Start(handled[i].msg)' = s
    BY <1>1, <2>1 DEF Start
  <2>4. ~(pc' \in {"connect", "recv"})
    BY <1>1
  <2> QED
    BY <1>1, <2>2, <2>3, <2>4 DEF Passed
<1>14. PastOK'
  BY <1>13 DEF PastOK
<1> QED
  BY <1>5, <1>7, <1>10, <1>12, <1>14 DEF FrameInv

\* The server sends one more message, of which nothing has arrived yet.
LEMMA SentFrame == ASSUME BufInv, FrameInv, ServerSend PROVE FrameInv'
<1>1. /\ \A i \in 1 .. Len(stream) : stream'[i] = stream[i]
      /\ Messages' = Messages \cup {Len(stream)}
  BY StreamGrows DEF BufInv
<1>2. /\ taken' = taken /\ buf' = buf /\ done' = done /\ pc' = pc /\ whole' = whole
      /\ handled' = handled
  BY DEF ServerSend, receiveVars
<1>3. StreamOK /\ Len(stream) \in 1 .. Len(stream) /\ buf \in Seq(Nat) /\ Ascending(buf, taken)
      /\ taken \in Nat /\ taken < stream[Len(stream)]
  BY EndFacts DEF BufInv, Counters, StreamOK
<1>4. \A m \in Messages : stream'[m] = stream[m] /\ stream'[m + 1] = stream[m + 1]
  BY <1>1, <1>3, MessageFacts
<1>5. WholeOK'
  <2>1. \A m \in whole : m \in Messages /\ stream[m + 1] <= taken + 1
    BY DEF FrameInv, WholeOK, End
  <2>2. whole' \subseteq Messages'
    BY <1>1, <1>2, <2>1
  <2>3. \A m \in whole' : End(m)' <= taken' + 1
    BY <1>2, <1>4, <2>1 DEF End
  <2> QED
    BY <2>2, <2>3 DEF WholeOK
<1>6. WindowOK'
  <2> SUFFICES ASSUME NEW m \in Messages', NEW p \in Nat, Carries(buf, p, m)' PROVE m \in whole
    BY <1>2 DEF WindowOK
  <2>1. CASE m \in Messages
    <3>1. Carries(buf, p, m)
      BY <1>2, <1>4, <2>1, CarriesSame
    <3> QED
      BY <2>1, <3>1 DEF FrameInv, WindowOK
  <2>2. CASE m = Len(stream)
    <3>1. Carries(buf, p, m)
      BY <1>1, <1>2, <1>3, <2>2, CarriesSame
    <3>2. Sizes[m] \in Nat
      <4>1. m \in 1 .. Len(Sizes)
        BY <1>3, <2>2, EndFacts DEF ServerSend
      <4> QED
        BY <4>1, Constants
    <3>3. 1 \in 1 .. PREAMBLE + Sizes[m]
      BY <3>2, Constants
    <3>4. p + 1 \in DOMAIN buf /\ buf[p + 1] = Start(m) + 1 - 1
      BY <3>1, <3>3 DEF Carries, Holds
    <3>5. Start(m) = stream[Len(stream)] /\ stream[Len(stream)] \in Nat
      BY <1>3, <2>2, EndFacts DEF Start
    <3>6. PICK q \in Nat : q = p + 1
      OBVIOUS
    <3>7. q \in 1 .. Len(buf) /\ buf[q] = stream[Len(stream)]
      BY <1>3, <3>4, <3>5, <3>6
    <3>8. buf[q] <= taken
      BY <1>3, <3>7 DEF Ascending
    <3> QED
      BY <1>3, <3>5, <3>7, <3>8
  <2> QED
    BY <1>1, <2>1, <2>2
<1>7. HandledOK' /\ OrderOK'
  BY <1>2 DEF FrameInv, HandledOK, OrderOK
<1>8. ASSUME pc # "ended", NEW i \in 1 .. Len(handled), handled[i].intact
      PROVE  Passed(Start(handled[i].msg))'
  <2>1. PICK m : m = handled[i].msg
    OBVIOUS
  <2>2. m \in Messages /\ Passed(Start(m))
    BY <1>8, <2>1 DEF FrameInv, HandledOK, WholeOK, PastOK
  <2>3. stream'[m] = stream[m]
    BY <1>4, <2>2
  <2>4. Passed(Start(m))'
    BY <1>2, <2>2, <2>3 DEF Passed, Start
  <2> QED
    BY <1>2, <2>1, <2>4
<1>9. PastOK'
  BY <1>2, <1>8 DEF PastOK
<1> QED
  BY <1>5, <1>6, <1>7, <1>9 DEF FrameInv

\* The steps that leave the buffer alone.
LEMMA AsideFrame == ASSUME BufInv, FrameInv, Aside PROVE FrameInv'
<1>1. /\ receiveVars' = receiveVars /\ stream' = stream /\ handled' = handled
      /\ \/ pc' = pc \/ (pc = "send" /\ pc' = "loop") \/ (pc = "connect" /\ pc' = "recv")
         \/ pc' = "ended"
  BY AsideFacts
<1>2. /\ taken' = taken /\ buf' = buf /\ done' = done /\ whole' = whole
  BY <1>1 DEF receiveVars
<1>3. Messages' = Messages
  BY <1>1, PlacesSame
<1>4. WholeOK' /\ HandledOK' /\ OrderOK'
  BY <1>1, <1>2, <1>3, PlacesSame DEF FrameInv, WholeOK, HandledOK, OrderOK
<1>5. \A m, p : Carries(buf, p, m)' <=> Carries(buf, p, m)
  BY <1>1, <1>2, CarriesSame
<1>6. WindowOK'
  BY <1>2, <1>3, <1>5 DEF FrameInv, WindowOK
<1>7. ASSUME pc' # "ended", NEW m, Passed(Start(m)) PROVE Passed(Start(m))'
  BY <1>1, <1>2, <1>7 DEF Passed, Start
<1>8. pc' # "ended" => pc # "ended"
  BY <1>1
<1>9. ASSUME pc' # "ended", NEW i \in 1 .. Len(handled), handled[i].intact
      PROVE  Passed(Start(handled[i].msg))'
  <2>1. PICK m : m = handled[i].msg
    OBVIOUS
  <2>2. Passed(Start(m))
    BY <1>8, <1>9, <2>1 DEF FrameInv, PastOK
  <2>3. Passed(Start(m))'
    BY <1>7, <1>9, <2>2
  <2> QED
    BY <1>1, <2>1, <2>3 DEF Passed, Start
<1>10. PastOK'
  BY <1>1, <1>9 DEF PastOK
<1> QED
  BY <1>4, <1>6, <1>10 DEF FrameInv

LEMMA FrameStep == BufInv /\ FrameInv /\ [Next]_vars => FrameInv'
<1> SUFFICES ASSUME BufInv, FrameInv, [Next]_vars PROVE FrameInv'
  OBVIOUS
<1> QED
  BY NextSteps, AsideFrame, SentFrame, HandleFrame, MoveFrame, RecvFrame, RecvEndsFrame

LEMMA Framed == Spec => [](BufInv /\ FrameInv)
<1>1. Init => BufInv /\ FrameInv
  BY BufInit, FrameInit
<1>2. BufInv /\ FrameInv /\ [Next]_vars => (BufInv /\ FrameInv)'
  BY BufStep, FrameStep
<1> QED
  BY <1>1, <1>2, PTL DEF Spec

\* However the stream is cut and whatever the misplaced headers decode to, n_receieve hands
\* a message on as it was sent at most once, and in the order of the server.
THEOREM HandedOnWhole == Spec => []IntactInOrder
<1>1. FrameInv => IntactInOrder
  <2> SUFFICES ASSUME FrameInv PROVE IntactInOrder
    OBVIOUS
  <2>1. handled \in Seq(Entry)
    BY DEF FrameInv, HandledOK
  <2>2. DOMAIN handled = 1 .. Len(handled)
    BY <2>1
  <2> QED
    BY <2>2 DEF FrameInv, HandledOK, OrderOK, IntactInOrder
<1> QED
  BY <1>1, Framed, PTL

-----------------------------------------------------------------------------
(* As long as every recv() ends between two messages. *)

Uncut == \A m \in Messages : Start(m) <= taken => m \in whole

\* The buffer holds the stream up to place t, without a gap.
Contiguous(b, t) == \A p \in 1 .. Len(b) : b[p] + Len(b) = t + p

\* Nothing is left in the buffer, and the next byte starts the next message.
Idle ==
    pc \in {"connect", "recv"} => remaining = 0 /\ stream[Len(handled) + 1] = taken + 1

\* What is left in the buffer starts with the next message.
Busy ==
    pc \in {"loop", "send"} =>
        /\ closing = FALSE /\ Contiguous(buf, taken)
        /\ stream[Len(handled) + 1] + remaining = taken + 1
        /\ remaining > 0 => header.msg = Len(handled) + 1

HandedAll ==
    \A i \in 1 .. Len(handled) :
        handled[i].msg = i /\ (handled[i].first => handled[i].intact)

Fed == Len(handled) + 1 \in 1 .. Len(stream) /\ Idle /\ Busy /\ HandedAll

\* What was decoded after the last message wraps: the loop does not end.
Spinning ==
    /\ pc \in {"loop", "send", "ended"} /\ Endless /\ header.msg = 0
    /\ \A i \in 1 .. Len(handled) :
         \/ handled[i].msg = i /\ (handled[i].first => handled[i].intact)
         \/ handled[i].msg = 0

UncutInv == Uncut => Fed \/ Spinning

LEMMA UncutInit == Init => UncutInv
<1> SUFFICES ASSUME Init PROVE Fed
  BY DEF UncutInv
<1>1. Len(handled) = 0 /\ Len(stream) = 1 /\ stream[1] = 1 /\ taken = 0 /\ remaining = 0
      /\ pc = "connect"
  BY DEF Init
<1> QED
  BY <1>1 DEF Fed, Idle, Busy, HandedAll

\* A message that was cut stays cut.
LEMMA UncutBefore == ASSUME BufInv, FrameInv, [Next]_vars, Uncut' PROVE Uncut
<1>1. CASE \/ Handle \/ Move \/ Aside \/ \E n \in {-1, 0} : RecvEnds(n)
  <2>1. taken' = taken /\ whole' = whole /\ stream' = stream
    <3>1. CASE Aside
      BY <3>1, AsideFacts DEF receiveVars
    <3>2. CASE Handle
      BY <3>2, HandleFacts
    <3>3. CASE Move
      BY <3>3, MoveFacts
    <3>4. ASSUME NEW n \in {-1, 0}, RecvEnds(n) PROVE taken' = taken /\ whole' = whole /\ stream' = stream
      BY <3>4 DEF RecvEnds, Received
    <3> QED
      BY <1>1, <3>1, <3>2, <3>3, <3>4
  <2> QED
    BY <2>1, PlacesSame DEF Uncut, Start
<1>2. CASE ServerSend
  <2>1. /\ \A i \in 1 .. Len(stream) : stream'[i] = stream[i]
        /\ Messages' = Messages \cup {Len(stream)}
    BY <1>2, StreamGrows DEF BufInv
  <2>2. taken' = taken /\ whole' = whole
    BY <1>2 DEF ServerSend, receiveVars
  <2>3. \A m \in Messages : stream'[m] = stream[m]
    BY <2>1, MessageFacts DEF BufInv
  <2> QED
    BY <2>1, <2>2, <2>3 DEF Uncut, Start
<1>3. ASSUME NEW n \in 1 .. BufLength, Recv(n) PROVE Uncut
  <2>1. /\ stream' = stream /\ taken' = taken + n /\ n \in Nat
        /\ whole' = whole \cup {m \in Messages : taken < Start(m) /\ End(m) <= taken + n + 1}
    BY <1>3, RecvFacts DEF Recv
  <2>2. taken \in Nat
    BY DEF BufInv, Counters
  <2> SUFFICES ASSUME NEW m \in Messages, Start(m) <= taken PROVE m \in whole
    BY DEF Uncut
  <2>3. Start(m) \in Nat
    BY MessageFacts DEF BufInv
  <2>4. Start(m) <= taken + n /\ ~(taken < Start(m))
    BY <2>1, <2>2, <2>3
  <2>5. m \in Messages' /\ Start(m)' = Start(m)
    BY <2>1, PlacesSame
  <2>6. m \in whole'
    BY <2>1, <2>4, <2>5 DEF Uncut, Start
  <2> QED
    BY <2>1, <2>4, <2>6
<1> QED
  BY <1>1, <1>2, <1>3, NextSteps

\* What starts before the end of an uncut stream ends before it.
LEMMA WholeAhead ==
    ASSUME StreamOK, NEW t \in Nat, t < stream[Len(stream)],
           \A m \in Messages : stream[m] <= t => stream[m + 1] <= t + 1,
           NEW r \in Nat, r > 0, NEW k \in 1 .. Len(stream), stream[k] + r = t + 1
    PROVE  /\ k \in Messages /\ PREAMBLE + Sizes[k] <= r
           /\ Start(k) = stream[k] /\ stream[k] \in Nat /\ k \in Nat
<1>1. stream[k] \in Nat /\ stream[Len(stream)] \in Nat /\ Len(stream) \in Nat /\ k \in Nat
  <2>1. stream \in Seq(Nat)
    BY DEF StreamOK
  <2>2. stream[Len(stream)] \in Nat /\ Len(stream) \in Nat
    BY EndFacts
  <2>3. stream[k] \in Nat /\ k \in Nat
    BY <2>1
  <2> QED
    BY <2>2, <2>3
<1>2. k # Len(stream) /\ stream[k] <= t
  BY <1>1
<1>3. k \in Messages
  BY <1>1, <1>2, EndFacts
<1>4. Start(k) = stream[k] /\ End(k) = stream[k] + PREAMBLE + Sizes[k] /\ Sizes[k] \in Nat
      /\ stream[k] > 0
  BY <1>3, MessageFacts DEF Start
<1>5. PREAMBLE + Sizes[k] <= r
  <2>1. stream[k + 1] <= t + 1
    BY <1>2, <1>3
  <2> QED
    BY <1>1, <1>4, <2>1, Constants DEF End
<1> QED
  BY <1>1, <1>3, <1>4, <1>5

\* The last r bytes of the buffer b are those of an uncut stream up to place t, from the
\* start of message k on.
Front(b, d, r, k, t) ==
    /\ b \in Seq(Nat) /\ d \in Nat /\ r \in Nat /\ t \in Nat /\ k \in 1 .. Len(stream)
    /\ r > 0 /\ Len(b) = d + r /\ stream[k] + r = t + 1 /\ Contiguous(b, t)
    /\ t < stream[Len(stream)]
    /\ \A m \in Messages : stream[m] <= t => stream[m + 1] <= t + 1

\* What lies there is a whole message, and its header says so.
LEMMA HeaderFound ==
    ASSUME StreamOK, NEW b, NEW d, NEW r, NEW k, NEW t, Front(b, d, r, k, t),
           NEW h \in HeadersAt(b, d)
    PROVE  h.msg = k /\ h.size = Sizes[k]
<1>0. /\ b \in Seq(Nat) /\ d \in Nat /\ r \in Nat /\ t \in Nat /\ k \in 1 .. Len(stream)
      /\ r > 0 /\ Len(b) = d + r /\ stream[k] + r = t + 1 /\ Contiguous(b, t)
  BY DEF Front
<1>1. /\ k \in Messages /\ PREAMBLE + Sizes[k] <= r
      /\ Start(k) = stream[k] /\ stream[k] \in Nat /\ k \in Nat
  BY WholeAhead DEF Front
<1>3. k \in Messages
  BY <1>1
<1>4. Start(k) = stream[k] /\ Sizes[k] \in Nat
  BY <1>1, MessageFacts
<1>5. PREAMBLE + Sizes[k] <= r
  BY <1>1
<1>6. DOMAIN b = 1 .. Len(b)
  BY <1>0
<1>7. Holds(b, d, PREAMBLE, Start(k))
  <2> SUFFICES ASSUME NEW i \in 1 .. PREAMBLE
               PROVE  d + i \in 1 .. Len(b) /\ b[d + i] = stream[k] + i - 1
    BY <1>4, <1>6 DEF Holds
  <2>1. PICK q \in Nat : q = d + i
    BY <1>0, Constants
  <2>2. q \in 1 .. Len(b)
    <3>1. i <= r
      BY <1>0, <1>4, <1>5, Constants
    <3>2. i \in Nat /\ i > 0
      BY Constants
    <3> QED
      BY <1>0, <2>1, <3>1, <3>2
  <2>3. b[q] + Len(b) = t + q /\ b[q] \in Nat
    <3>1. b[q] + Len(b) = t + q
      BY <1>0, <2>2, Zenon DEF Contiguous
    <3>2. b \in Seq(Nat)
      BY <1>0
    <3>3. b[q] \in Nat
      BY <2>2, <3>2
    <3> QED
      BY <3>1, <3>3
  <2>4. PICK x \in Nat, s \in Nat, l \in Nat : x = b[q] /\ s = stream[k] /\ l = Len(b)
    BY <1>0, <1>1, <2>3
  <2>5. x + l = t + q /\ l = d + r /\ s + r = t + 1 /\ q = d + i /\ i \in Nat
    BY <1>0, <2>1, <2>3, <2>4, Constants
  <2>6. x = s + i - 1
    <3>1. d \in Nat /\ r \in Nat /\ t \in Nat
      BY <1>0
    <3> QED
      BY <2>5, <3>1
  <2> QED
    BY <2>1, <2>2, <2>4, <2>6
<1>8. h.msg \in Messages /\ h.size = Sizes[h.msg] /\ Holds(b, d, PREAMBLE, Start(h.msg))
  <2>1. h.msg # 0 /\ h.msg \in 0 .. posted
    BY <1>3, <1>7, Decoded
  <2>2. h.size = Sizes[h.msg] /\ Holds(b, d, PREAMBLE, Start(h.msg))
    BY <2>1, Decoded
  <2> QED
    BY <2>1, <2>2, EndFacts
<1>9. Start(h.msg) = Start(k)
  <2>1. 1 \in 1 .. PREAMBLE
    BY Constants
  <2>2. b[d + 1] = Start(h.msg) + 1 - 1 /\ b[d + 1] = Start(k) + 1 - 1
    BY <1>7, <1>8, <2>1 DEF Holds
  <2>3. Start(h.msg) \in Nat /\ Start(k) \in Nat
    BY <1>3, <1>8, MessageFacts
  <2> QED
    BY <2>2, <2>3
<1>10. h.msg = k
  <2>1. h.msg \in Nat /\ h.msg \in 1 .. Len(stream) /\ stream[h.msg] \in Nat
    BY <1>8, MessageFacts DEF Start
  <2>2. stream[h.msg] = stream[k]
    BY <1>9 DEF Start
  <2>3. h.msg < k => stream[h.msg] < stream[k]
    BY <1>0, <2>1 DEF StreamOK
  <2>4. k < h.msg => stream[k] < stream[h.msg]
    BY <1>0, <2>1 DEF StreamOK
  <2> QED
    BY <1>1, <2>1, <2>2, <2>3, <2>4
<1> QED
  BY <1>8, <1>10

\* Uncut, in places of the stream.
LEMMA UncutPlaces ==
    ASSUME WholeOK, Uncut
    PROVE  \A m \in Messages : stream[m] <= taken => stream[m + 1] <= taken + 1
  BY DEF WholeOK, Uncut, Start, End

\* What recv() returns of an uncut stream starts with a message.
LEMMA RecvFed ==
    ASSUME BufInv, FrameInv, BufInv', FrameInv', Uncut', Fed,
           NEW n \in 1 .. BufLength, Recv(n)
    PROVE  Fed'
<1>1. /\ pc = "recv" /\ stream' = stream /\ n \in Nat /\ n > 0
      /\ taken' = taken + n /\ taken' \in Nat /\ taken' < stream[Len(stream)]
  BY RecvFacts
<1>2. PICK b : Filled(b, n) /\ Received(b, n)
  BY RecvFacts
<1>3. taken \in Nat /\ remaining = 0 /\ StreamOK
  BY <1>1 DEF BufInv, Counters, Fed, Idle
<1>4. PICK k \in 1 .. Len(stream) : k = Len(handled) + 1 /\ stream[k] = taken + 1
  BY <1>1 DEF Fed, Idle
<1>5. /\ b \in Seq(Nat) /\ Len(b) = n /\ \A p \in 1 .. n : b[p] = taken + p
  BY <1>1, <1>2, <1>3 DEF Filled
<1>6. PICK t \in Nat : t = taken'
  BY <1>1
<1>7. \A m \in Messages : stream[m] <= t => stream[m + 1] <= t + 1
  <2>1. (\A m \in Messages : stream[m] <= taken => stream[m + 1] <= taken + 1)'
    BY UncutPlaces DEF FrameInv, WholeOK, Uncut, Start, End
  <2> QED
    BY <1>1, <1>6, <2>1, PlacesSame
<1>8. Contiguous(b, t)
  <2> SUFFICES ASSUME NEW p \in 1 .. n PROVE b[p] + n = t + p
    BY <1>5 DEF Contiguous
  <2>1. b[p] = taken + p
    BY <1>5
  <2> QED
    BY <1>1, <1>3, <1>6, <2>1
<1>9. stream[k] + n = t + 1
  BY <1>1, <1>3, <1>4, <1>6
<1>10. t < stream[Len(stream)] /\ Len(b) = 0 + n /\ 0 \in Nat
  BY <1>1, <1>5, <1>6
<1>11. n > PREAMBLE
  <2>1. k \in Messages /\ PREAMBLE + Sizes[k] <= n
    BY <1>1, <1>3, <1>7, <1>9, <1>10, WholeAhead
  <2>2. Sizes[k] \in Nat /\ Sizes[k] > 0
    BY <1>3, <2>1, MessageFacts
  <2> QED
    BY <1>1, <2>1, <2>2, Constants
<1>12. n \in Int /\ ~(n <= 0) /\ (n > PREAMBLE \/ remaining > PREAMBLE)
  BY <1>1, <1>11
<1>13. /\ handled' = handled /\ closing' = FALSE /\ buf' = b /\ remaining' = n
       /\ header' \in HeadersAt(b, 0) /\ pc' = "loop"
  <2>1. handled' = handled /\ closing' = FALSE
    BY <1>2, <1>12, ReceivedFacts
  <2>2. /\ buf' = b /\ remaining' = remaining + n /\ header' \in HeadersAt(b, 0) /\ pc' = "loop"
    BY <1>2, <1>12, ReceivedFacts
  <2>3. remaining' = n
    BY <1>1, <1>3, <2>2
  <2> QED
    BY <2>1, <2>2, <2>3
<1>14. header'.msg = k
  <2>1. PICK d \in Nat : d = 0
    OBVIOUS
  <2>2. PICK h \in HeadersAt(b, d) : h = header'
    BY <1>13, <2>1
  <2>3. t < stream[Len(stream)] /\ Len(b) = d + n /\ n \in Nat /\ n > 0 /\ b \in Seq(Nat)
    BY <1>1, <1>5, <1>10, <2>1
  <2>4. Front(b, d, n, k, t)
    BY <1>7, <1>8, <1>9, <2>3 DEF Front
  <2>5. h.msg = k
    BY <1>3, <2>4, HeaderFound
  <2> QED
    BY <2>2, <2>5
<1>15. Busy'
  <2>1. Contiguous(buf, taken)'
    BY <1>6, <1>8, <1>13 DEF Contiguous
  <2> QED
    BY <1>1, <1>4, <1>6, <1>9, <1>13, <1>14, <2>1 DEF Busy
<1>16. Idle' /\ HandedAll' /\ (Len(handled) + 1 \in 1 .. Len(stream))'
  BY <1>1, <1>13 DEF Fed, Idle, HandedAll
<1> QED
  BY <1>15, <1>16 DEF Fed

\* When the connection ends, nothing is left.
LEMMA RecvEndsFed ==
    ASSUME BufInv, Fed, NEW n \in {-1, 0}, RecvEnds(n)
    PROVE  Fed'
<1>1. pc = "recv" /\ Received(buf, n)
  BY DEF RecvEnds
<1>2. remaining = 0
  BY <1>1 DEF Fed, Idle
<1>3. ~(n > PREAMBLE \/ remaining > PREAMBLE) /\ ~(n > 0) /\ n \in Int
  BY <1>2, Constants
<1>4. stream' = stream /\ handled' = handled /\ pc' = "ended"
  BY <1>1, <1>3, ReceivedFacts
<1> QED
  BY <1>4 DEF Fed, Idle, Busy, HandedAll

\* The loop ends when all that was received has been handed on.
LEMMA MoveFed == ASSUME BufInv, FrameInv, Uncut, Fed, Move PROVE Fed'
<1>1. /\ pc = "loop" /\ stream' = stream /\ taken' = taken /\ handled' = handled
      /\ remaining' = remaining /\ remaining < Total(header.size)
      /\ pc' \in {"recv", "ended"} /\ remaining \in Nat
  BY MoveFacts
<1>2. /\ Contiguous(buf, taken) /\ closing = FALSE
      /\ stream[Len(handled) + 1] + remaining = taken + 1
      /\ Len(handled) + 1 \in 1 .. Len(stream)
      /\ remaining > 0 => header.msg = Len(handled) + 1
  BY <1>1 DEF Fed, Busy
<1>3. remaining = 0
  <2> SUFFICES ASSUME remaining > 0 PROVE FALSE
    BY <1>1
  <2>1. PICK k \in 1 .. Len(stream) : k = Len(handled) + 1 /\ header.msg = k
    BY <1>2
  <2>2. stream[k] + remaining = taken + 1 /\ taken \in Nat /\ taken < stream[Len(stream)]
    BY <1>2, <2>1 DEF BufInv, Counters
  <2>3. k \in Messages /\ header.size = Sizes[k] /\ Total(header.size) = PREAMBLE + Sizes[k]
    <3>1. k \in Nat /\ k > 0 /\ header.msg \in 0 .. posted
      BY <2>1 DEF BufInv, HeaderOK
    <3>2. header.msg \in Messages
      BY <2>1, <3>1, EndFacts DEF BufInv
    <3>3. k \in 1 .. Len(Sizes)
      BY <2>1, <3>2, Constants DEF BufInv, StreamOK, Messages, posted
    <3> QED
      BY <2>1, <3>1, <3>2, <3>3, TotalSent DEF BufInv, HeaderOK
  <2>4. Start(k) = stream[k] /\ Start(k) \in Nat /\ End(k) = stream[k] + PREAMBLE + Sizes[k]
        /\ Sizes[k] \in Nat
    BY <2>3, MessageFacts DEF BufInv, Start
  <2>5. End(k) <= taken + 1
    <3>1. stream[k] <= taken
      BY <1>1, <2>2, <2>4
    <3> QED
      BY <2>3, <3>1, UncutPlaces DEF FrameInv, End
  <2> QED
    BY <1>1, <2>2, <2>3, <2>4, <2>5, Constants
<1>4. Idle'
  <2>1. taken \in Nat /\ stream[Len(handled) + 1] \in Nat
    BY <1>2 DEF BufInv, Counters, StreamOK
  <2> QED
    BY <1>1, <1>2, <1>3, <2>1 DEF Idle
<1> QED
  BY <1>1, <1>4 DEF Fed, Busy, HandedAll

\* The server sends another message, and the steps that leave the buffer alone.
LEMMA SentFed == ASSUME BufInv, Fed, ServerSend PROVE Fed'
<1>1. /\ \A i \in 1 .. Len(stream) : stream'[i] = stream[i]
      /\ Len(stream') = Len(stream) + 1
  BY StreamGrows DEF BufInv
<1>2. Len(stream) \in Nat
  BY EndFacts DEF BufInv
<1>3. /\ taken' = taken /\ buf' = buf /\ remaining' = remaining /\ header' = header
      /\ closing' = closing /\ pc' = pc /\ handled' = handled
  BY DEF ServerSend, receiveVars
<1>4. PICK k \in 1 .. Len(stream) : k = Len(handled) + 1
  BY DEF Fed
<1>5. k \in 1 .. Len(stream') /\ stream'[k] = stream[k]
  BY <1>1, <1>2
<1> QED
  BY <1>3, <1>4, <1>5 DEF Fed, Idle, Busy, HandedAll, Contiguous

LEMMA AsideFed == ASSUME BufInv, Fed, Aside PROVE Fed'
<1>1. /\ receiveVars' = receiveVars /\ stream' = stream /\ handled' = handled
      /\ \/ pc' = pc \/ (pc = "send" /\ pc' = "loop") \/ (pc = "connect" /\ pc' = "recv")
         \/ pc' = "ended"
  BY AsideFacts
<1>2. /\ taken' = taken /\ buf' = buf /\ remaining' = remaining /\ header' = header
      /\ closing' = closing
  BY <1>1 DEF receiveVars
<1>3. Idle' /\ Busy'
  BY <1>1, <1>2 DEF Fed, Idle, Busy, Contiguous
<1> QED
  BY <1>1, <1>3 DEF Fed, HandedAll

\* One turn of the loop hands on the next message, by its own header.
LEMMA HandleFed ==
    ASSUME BufInv, FrameInv, Uncut, Fed, Handle, ~Endless
    PROVE  Fed'
<1>1. /\ pc = "loop" /\ stream' = stream /\ taken' = taken /\ buf' = buf /\ closing' = closing
      /\ remaining >= Total(header.size) /\ pc' \in {"send", "loop", "ended"}
      /\ done' = done + Total(header.size) /\ done' \in Nat
      /\ remaining' = remaining - Total(header.size) /\ remaining' \in Nat
      /\ header' \in HeadersAt(buf, done') /\ done' + remaining' = done + remaining
  BY HandleFacts
<1>2. /\ Contiguous(buf, taken) /\ closing = FALSE
      /\ stream[Len(handled) + 1] + remaining = taken + 1
      /\ Len(handled) + 1 \in 1 .. Len(stream)
      /\ remaining > 0 => header.msg = Len(handled) + 1
  BY <1>1 DEF Fed, Busy
<1>3. PICK k \in 1 .. Len(stream) : k = Len(handled) + 1
  BY <1>2
<1>4. /\ StreamOK /\ buf \in Seq(Nat) /\ taken \in Nat /\ taken < stream[Len(stream)]
      /\ remaining \in Nat /\ header.size \in Nat
  BY DEF BufInv, Counters, HeaderOK
<1>5. remaining > 0
  <2>1. Total(header.size) \in Nat /\ Total(header.size) # 0
    BY <1>4, TotalNat DEF Endless
  <2> QED
    BY <1>1, <1>4, <2>1
<1>6. \A m \in Messages : stream[m] <= taken => stream[m + 1] <= taken + 1
  BY UncutPlaces DEF FrameInv
<1>7. k \in Messages /\ Start(k) = stream[k] /\ stream[k] \in Nat /\ k \in Nat
  BY <1>2, <1>3, <1>4, <1>5, <1>6, WholeAhead
<1>8. /\ header.msg = k /\ header.size = Sizes[k] /\ header.msg # 0
      /\ Total(header.size) = PREAMBLE + Sizes[k]
  <2>1. header.msg = k /\ header.size = Sizes[k] /\ header.msg # 0
    BY <1>2, <1>3, <1>5, <1>7, EndFacts DEF BufInv, HeaderOK
  <2>2. k \in 1 .. Len(Sizes)
    BY <1>4, <1>7, Constants DEF StreamOK, Messages, posted
  <2> QED
    BY <2>1, <2>2, TotalSent
<1>9. PICK j \in 1 .. Len(stream) : j = k + 1 /\ stream[j] = stream[k] + PREAMBLE + Sizes[k]
  BY <1>4, <1>7, MessageFacts DEF End
<1>10. PICK r \in Nat, d \in Nat : r = remaining' /\ d = done'
  BY <1>1
<1>11. stream[j] + r = taken + 1
  <2>1. stream[k] + remaining = taken + 1 /\ r = remaining - (PREAMBLE + Sizes[k])
    BY <1>1, <1>2, <1>3, <1>8, <1>10
  <2>2. Sizes[k] \in Nat
    BY <1>4, <1>8
  <2> QED
    BY <1>4, <1>7, <1>9, <2>1, <2>2, Constants
<1>12. Len(buf) = d + r
  BY <1>1, <1>2, <1>10 DEF BufInv, InLoop
<1>13. r > 0 => header'.msg = j
  <2> SUFFICES ASSUME r > 0 PROVE header'.msg = j
    OBVIOUS
  <2>1. PICK h \in HeadersAt(buf, d) : h = header'
    BY <1>1, <1>10
  <2>2. Front(buf, d, r, j, taken)
    BY <1>2, <1>4, <1>6, <1>11, <1>12 DEF Front
  <2>3. h.msg = j
    BY <1>4, <2>2, HeaderFound
  <2> QED
    BY <2>1, <2>3
<1>14. PICK e \in Entry :
              /\ e.msg = header.msg /\ (e.first <=> done = 0)
              /\ e.intact <=> Intact
              /\ Len(handled') = Len(handled) + 1
              /\ handled'[Len(handled) + 1] = e
              /\ \A i \in 1 .. Len(handled) : handled'[i] = handled[i]
  BY HandledMore DEF FrameInv
<1>15. e.first => e.intact
  <2>1. done = 0 => Holds(buf, ptr, header.size, Start(header.msg) + PREAMBLE)
    <3> SUFFICES ASSUME done = 0 PROVE Holds(buf, ptr, header.size, Start(header.msg) + PREAMBLE)
      OBVIOUS
    <3>1. ptr = PREAMBLE
      BY <1>1, <1>8, FirstPtr
    <3>2. DOMAIN buf = 1 .. Len(buf) /\ Len(buf) = remaining
      BY <1>1, <1>2, <1>4 DEF BufInv, InLoop
    <3>3. ASSUME NEW i \in 1 .. header.size
          PROVE  PREAMBLE + i \in 1 .. Len(buf) /\ buf[PREAMBLE + i] = (stream[k] + PREAMBLE) + i - 1
      <4>1. PICK q \in Nat : q = PREAMBLE + i
        BY <1>4, Constants
      <4>2. q \in 1 .. Len(buf)
        <5>1. PREAMBLE + header.size <= remaining /\ i <= header.size /\ i > 0 /\ i \in Nat
          BY <1>1, <1>4, <1>8
        <5> QED
          BY <1>4, <3>2, <4>1, <5>1, Constants
      <4>3. buf[q] + Len(buf) = taken + q /\ buf[q] \in Nat
        BY <1>2, <1>4, <4>2 DEF Contiguous
      <4>4. PICK x \in Nat, s \in Nat : x = buf[q] /\ s = stream[k]
        BY <1>7, <4>3
      <4>5. x + remaining = taken + q /\ s + remaining = taken + 1 /\ q = PREAMBLE + i
        BY <1>2, <1>3, <3>2, <4>1, <4>3, <4>4
      <4>6. x = (s + PREAMBLE) + i - 1
        BY <1>4, <4>5, Constants
      <4> QED
        BY <4>1, <4>2, <4>4, <4>6
    <3> QED
      BY <1>7, <1>8, <3>1, <3>2, <3>3 DEF Holds
  <2> QED
    BY <1>8, <1>14, <2>1 DEF Intact
<1>16. Len(handled') + 1 = j /\ Len(handled) \in Nat
  <2>1. Len(handled) \in Nat
    BY DEF FrameInv, HandledOK
  <2> QED
    BY <1>3, <1>9, <1>14, <2>1
<1>17. Busy'
  BY <1>1, <1>2, <1>10, <1>11, <1>13, <1>16 DEF Busy, Contiguous
<1>18. HandedAll'
  <2> SUFFICES ASSUME NEW i \in 1 .. Len(handled')
               PROVE  handled'[i].msg = i /\ (handled'[i].first => handled'[i].intact)
    BY DEF HandedAll
  <2>1. CASE i \in 1 .. Len(handled)
    BY <1>14, <2>1 DEF Fed, HandedAll
  <2>2. CASE i = Len(handled) + 1
    <3>1. handled'[i] = e /\ e.msg = i
      BY <1>3, <1>8, <1>14, <2>2
    <3> QED
      BY <1>15, <3>1
  <2> QED
    BY <1>14, <1>16, <2>1, <2>2
<1>19. Idle'
  BY <1>1 DEF Idle
<1>20. (Len(handled) + 1 \in 1 .. Len(stream))'
  BY <1>1, <1>16
<1> QED
  BY <1>17, <1>18, <1>19, <1>20 DEF Fed

\* A header whose size wraps is handed on again and again, and stays what it is.
LEMMA HandleSpins ==
    ASSUME BufInv, FrameInv, Fed \/ Spinning, Handle, Endless
    PROVE  Spinning'
<1>1. header.msg = 0
  BY IntactNotEndless
<1>2. pc' \in {"send", "loop", "ended"} /\ header' = header
  BY HandleFacts
<1>3. Endless'
  BY <1>2 DEF Endless
<1>4. PICK e \in Entry :
              /\ e.msg = header.msg
              /\ Len(handled') = Len(handled) + 1
              /\ handled'[Len(handled) + 1] = e
              /\ \A i \in 1 .. Len(handled) : handled'[i] = handled[i]
  BY HandledMore DEF FrameInv
<1>5. Len(handled) \in Nat
  BY DEF FrameInv, HandledOK
<1>6. ASSUME NEW i \in 1 .. Len(handled')
      PROVE  \/ handled'[i].msg = i /\ (handled'[i].first => handled'[i].intact)
             \/ handled'[i].msg = 0
  <2>1. CASE i \in 1 .. Len(handled)
    BY <1>4, <2>1 DEF Fed, HandedAll, Spinning
  <2>2. CASE i = Len(handled) + 1
    BY <1>1, <1>4, <2>2
  <2> QED
    BY <1>4, <1>5, <2>1, <2>2
<1> QED
  BY <1>1, <1>2, <1>3, <1>6 DEF Spinning

\* No other step of the loop follows.
LEMMA SpinsOn ==
    ASSUME BufInv, FrameInv, Spinning, [Next]_vars
    PROVE  Spinning'
<1>1. CASE Handle
  BY <1>1, HandleSpins DEF Spinning
<1>2. CASE Aside
  <2>1. /\ header' = header /\ handled' = handled
        /\ pc' = pc \/ (pc = "send" /\ pc' = "loop") \/ pc' = "ended"
    BY <1>2, AsideFacts DEF receiveVars, Spinning
  <2> QED
    BY <2>1 DEF Spinning, Endless
<1>3. CASE ServerSend
  <2>1. header' = header /\ handled' = handled /\ pc' = pc
    BY <1>3 DEF ServerSend, receiveVars
  <2> QED
    BY <2>1 DEF Spinning, Endless
<1>4. CASE Move
  <2>1. remaining < 0 /\ remaining \in Nat
    BY <1>4, MoveFacts DEF Spinning, Endless
  <2> QED
    BY <2>1
<1>5. ASSUME NEW n \in 1 .. BufLength, Recv(n) PROVE FALSE
  BY <1>5 DEF Recv, Spinning
<1>6. ASSUME NEW n \in {-1, 0}, RecvEnds(n) PROVE FALSE
  BY <1>6 DEF RecvEnds, Spinning
<1> QED
  BY <1>1, <1>2, <1>3, <1>4, <1>5, <1>6, NextSteps

LEMMA UncutStep ==
    /\ BufInv /\ FrameInv /\ UncutInv /\ BufInv' /\ FrameInv'
    /\ [Next]_vars
    => UncutInv'
<1> SUFFICES ASSUME BufInv, FrameInv, UncutInv, BufInv', FrameInv', [Next]_vars, Uncut'
             PROVE  (Fed \/ Spinning)'
  BY DEF UncutInv
<1>1. Uncut /\ (Fed \/ Spinning)
  BY UncutBefore DEF UncutInv
<1>2. CASE Spinning
  BY <1>2, SpinsOn
<1>3. CASE Fed /\ Handle /\ Endless
  BY <1>3, HandleSpins
<1>4. CASE Fed /\ ~(Handle /\ Endless)
  <2>1. Fed'
    BY <1>1, <1>4, NextSteps, AsideFed, SentFed, HandleFed, MoveFed, RecvFed, RecvEndsFed
  <2> QED
    BY <2>1
<1> QED
  BY <1>1, <1>2, <1>3, <1>4

\* As long as every recv() ends between two messages, n_receieve hands on each message that
\* arrived, once and in order, by its own header, and the first one of a recv() with the
\* body that was sent; nothing else is handed on, unless what is decoded after the last
\* message is a size that wraps.
THEOREM HandedOnInOrder == Spec => []AlignedWhileUncut
<1>1. Init => UncutInv
  BY UncutInit
<1>2. BufInv /\ FrameInv /\ UncutInv /\ BufInv' /\ FrameInv' /\ [Next]_vars => UncutInv'
  BY UncutStep
<1>3. FrameInv /\ UncutInv => AlignedWhileUncut
  <2> SUFFICES ASSUME FrameInv, UncutInv, Uncut PROVE
                 \A i \in DOMAIN handled :
                     \/ handled[i].msg = i /\ (handled[i].first => handled[i].intact)
                     \/ handled[i].msg = 0 /\ Endless
    BY DEF AlignedWhileUncut, Uncut
  <2>1. handled \in Seq(Entry)
    BY DEF FrameInv, HandledOK
  <2>2. DOMAIN handled = 1 .. Len(handled)
    BY <2>1
  <2> QED
    BY <2>2 DEF UncutInv, Fed, HandedAll, Spinning
<1> QED
  BY <1>1, <1>2, <1>3, Framed, PTL DEF Spec

-----------------------------------------------------------------------------
(* What n_send gives to send(). *)

LEMMA SizeInside == ASSUME NEW x \in Int, 0 <= x, x < SizeRange PROVE x % SizeRange = x
  BY Constants

LEMMA SizeBelow == (-1) % SizeRange = SizeRange - 1
  BY Constants

\* send() failed before it took a byte: total_sent is the last value of size_t, and the
\* loop ends.
Wrapped == total + 1 = SizeRange /\ left = ReplySize + 1 /\ errors > 0 /\ ReplySize > 0

\* total_sent and bytes_left make up the message; before the first one both are 0.
Parts ==
    /\ total \in Nat /\ left \in Nat /\ errors \in Nat
    /\ total < SizeRange /\ left < SizeRange
    /\ \/ total + left = ReplySize
       \/ Wrapped
       \/ total = 0 /\ left = 0 /\ out = <<>> /\ pc # "send"

Given ==
    /\ out \in Seq(Nat)
    /\ \A i \in 1 .. Len(out) : out[i] < ReplySize
    /\ errors = 0 => Len(out) = total /\ \A i \in 1 .. Len(out) : out[i] = i - 1

\* n_send returns only when the rest is not more than what was sent.
Enough == (out # <<>> /\ pc # "send") => total >= left

SendInv == Parts /\ Given /\ Enough

LEMMA SendInit == Init => SendInv
<1> SUFFICES ASSUME Init PROVE SendInv
  OBVIOUS
<1>1. total = 0 /\ left = 0 /\ out = <<>> /\ errors = 0 /\ pc = "connect"
  BY DEF Init
<1>2. SizeRange > 0
  BY Constants
<1>3. Parts
  BY <1>1, <1>2 DEF Parts
<1>4. Len(out) = 0 /\ out \in Seq(Nat)
  BY <1>1
<1>5. Given
  BY <1>1, <1>4 DEF Given
<1> QED
  BY <1>1, <1>3, <1>5 DEF SendInv, Enough

\* In the loop of n_send.
LEMMA InSend ==
    ASSUME SendInv, pc = "send", total < left
    PROVE  total + left = ReplySize /\ ReplySize > 0
<1>1. total \in Nat /\ left \in Nat
  BY DEF SendInv, Parts
<1>2. ~Wrapped
  <2> SUFFICES ASSUME Wrapped PROVE FALSE
    OBVIOUS
  <2>1. SizeRange < ReplySize + 2 /\ ReplySize > 0
    BY <1>1, Constants DEF Wrapped
  <2> QED
    BY <2>1, Constants
<1>3. total + left = ReplySize
  BY <1>2 DEF SendInv, Parts
<1> QED
  BY <1>1, <1>3

LEMMA SendPartSend ==
    ASSUME SendInv, NEW n \in 1 .. ReplySize, SendPart(n)
    PROVE  SendInv'
<1>1. /\ pc = "send" /\ pc' = pc /\ total < left /\ n <= left /\ errors' = errors
      /\ n \in Nat /\ n > 0
  BY DEF SendPart
<1>2. total \in Nat /\ left \in Nat /\ errors \in Nat /\ out \in Seq(Nat)
      /\ total + left = ReplySize
  BY <1>1, InSend DEF SendInv, Parts, Given
<1>3. total' = total + n
  <2>1. total + n < SizeRange /\ 0 <= total + n /\ total + n \in Int
    BY <1>1, <1>2, Constants
  <2>2. (total + n) % SizeRange = total + n
    BY <2>1, SizeInside
  <2> QED
    BY <2>2 DEF SendPart
<1>4. left' = left - n
  <2>1. left - n < SizeRange /\ 0 <= left - n /\ left - n \in Int
    BY <1>1, <1>2, Constants
  <2>2. (left - n) % SizeRange = left - n
    BY <2>1, SizeInside
  <2> QED
    BY <2>2 DEF SendPart
<1>5. PICK t \in Nat, l \in Nat : t = total + n /\ l = left - n
  BY <1>1, <1>2
<1>6. t + l = ReplySize /\ t < SizeRange /\ l < SizeRange /\ t <= ReplySize
  BY <1>1, <1>2, <1>5, Constants
<1>7. Parts'
  BY <1>1, <1>2, <1>3, <1>4, <1>5, <1>6 DEF Parts
<1>8. PICK f : f = [i \in 1 .. n |-> total + i - 1]
  OBVIOUS
<1>9. f \in Seq(Nat) /\ Len(f) = n /\ \A i \in 1 .. n : f[i] = total + i - 1
  <2>1. \A i \in 1 .. n : total + i - 1 \in Nat
    BY <1>2
  <2> QED
    BY <1>1, <1>8, <2>1
<1>10. out' = out \o f
  BY <1>8 DEF SendPart
<1>11. /\ out' \in Seq(Nat) /\ Len(out') = Len(out) + n
       /\ \A i \in 1 .. Len(out) : out'[i] = out[i]
       /\ \A i \in Len(out) + 1 .. Len(out) + n : out'[i] = f[i - Len(out)]
  <2>1. /\ out \o f \in Seq(Nat) /\ Len(out \o f) = Len(out) + Len(f)
        /\ \A i \in 1 .. Len(out) : (out \o f)[i] = out[i]
        /\ \A i \in Len(out) + 1 .. Len(out) + Len(f) : (out \o f)[i] = f[i - Len(out)]
    BY <1>2, <1>9, Joined
  <2> QED
    BY <1>9, <1>10, <2>1, Zenon
<1>12. Len(out) \in Nat
  BY <1>2
<1>13. ASSUME NEW i \in 1 .. Len(out')
       PROVE  out'[i] < ReplySize /\ (errors = 0 => out'[i] = i - 1)
  <2>1. CASE i \in 1 .. Len(out)
    BY <1>11, <2>1 DEF SendInv, Given
  <2>2. CASE i \in Len(out) + 1 .. Len(out) + n
    <3>1. PICK j \in 1 .. n : j = i - Len(out)
      BY <1>1, <1>12, <2>2
    <3>2. out'[i] = total + j - 1
      BY <1>9, <1>11, <2>2, <3>1
    <3>3. total + j - 1 < ReplySize
      BY <1>1, <1>2
    <3>4. errors = 0 => total + j - 1 = i - 1
      BY <1>2, <1>12, <3>1 DEF SendInv, Given
    <3> QED
      BY <3>2, <3>3, <3>4
  <2> QED
    BY <1>1, <1>11, <1>12, <2>1, <2>2
<1>14. errors = 0 => Len(out') = total'
  BY <1>3, <1>11 DEF SendInv, Given
<1>15. Given'
  BY <1>1, <1>11, <1>13, <1>14 DEF Given
<1>16. Enough'
  BY <1>1 DEF Enough
<1> QED
  BY <1>7, <1>15, <1>16 DEF SendInv

LEMMA SendFailsSend == ASSUME SendInv, SendFails PROVE SendInv'
<1>1. /\ pc = "send" /\ pc' = pc /\ total < left /\ errors' = errors + 1 /\ out' = out
      /\ total' = (total - 1) % SizeRange /\ left' = (left + 1) % SizeRange
  BY DEF SendFails
<1>2. total \in Nat /\ left \in Nat /\ errors \in Nat /\ total + left = ReplySize /\ ReplySize > 0
  BY <1>1, InSend DEF SendInv, Parts
<1>3. left' = left + 1
  <2>1. left + 1 < SizeRange /\ 0 <= left + 1 /\ left + 1 \in Int
    BY <1>2, Constants
  <2> QED
    BY <1>1, <2>1, SizeInside
<1>4. errors' \in Nat /\ errors' > 0
  BY <1>1, <1>2
<1>5. Parts'
  <2>1. CASE total = 0
    <3>1. total - 1 = -1 /\ (-1) % SizeRange = SizeRange - 1
      BY <2>1, SizeBelow
    <3>2. PICK t \in Nat, l \in Nat : t = SizeRange - 1 /\ l = ReplySize + 1
      BY Constants
    <3>3. total' = t /\ left' = l
      BY <1>1, <1>2, <1>3, <2>1, <3>1, <3>2
    <3>4. t + 1 = SizeRange /\ t < SizeRange /\ l < SizeRange
      BY <1>2, <3>2, Constants
    <3> QED
      BY <1>2, <1>4, <3>2, <3>3, <3>4 DEF Parts, Wrapped
  <2>2. CASE total > 0
    <3>1. total - 1 < SizeRange /\ 0 <= total - 1 /\ total - 1 \in Int
      BY <1>2, <2>2, Constants
    <3>2. total' = total - 1
      BY <1>1, <3>1, SizeInside
    <3>3. PICK t \in Nat, l \in Nat : t = total - 1 /\ l = left + 1
      BY <1>2, <2>2
    <3>4. t + l = ReplySize /\ t < SizeRange /\ l < SizeRange
      BY <1>2, <3>3, Constants
    <3> QED
      BY <1>3, <1>4, <3>2, <3>3, <3>4 DEF Parts
  <2> QED
    BY <1>2, <2>1, <2>2
<1>6. Given'
  BY <1>1, <1>4 DEF SendInv, Given
<1>7. Enough'
  BY <1>1 DEF Enough
<1> QED
  BY <1>5, <1>6, <1>7 DEF SendInv

LEMMA SendReturnsSend == ASSUME SendInv, SendReturns PROVE SendInv'
<1>1. /\ pc = "send" /\ total >= left /\ pc' = "loop"
      /\ total' = total /\ left' = left /\ out' = out /\ errors' = errors
  BY DEF SendReturns, sendVars
<1> QED
  BY <1>1 DEF SendInv, Parts, Wrapped, Given, Enough

\* A new answer.
LEMMA HandleSend == ASSUME SendInv, Handle PROVE SendInv'
<1>1. total' = 0 /\ left' = ReplySize /\ out' = <<>> /\ errors' = 0
  BY DEF Handle
<1>2. ReplySize \in Nat /\ ReplySize < SizeRange /\ 0 < SizeRange
  BY Constants
<1>3. Parts'
  BY <1>1, <1>2 DEF Parts
<1>4. out' \in Seq(Nat) /\ Len(out') = 0
  BY <1>1
<1>5. Given'
  BY <1>1, <1>4 DEF Given
<1>6. Enough'
  BY <1>1 DEF Enough
<1> QED
  BY <1>3, <1>5, <1>6 DEF SendInv

\* The other steps.
LEMMA QuietSend ==
    ASSUME SendInv, UNCHANGED sendVars, pc' = "send" <=> pc = "send"
    PROVE  SendInv'
<1>1. total' = total /\ left' = left /\ out' = out /\ errors' = errors
  BY DEF sendVars
<1> QED
  BY <1>1 DEF SendInv, Parts, Wrapped, Given, Enough

LEMMA SendStep == SendInv /\ [Next]_vars => SendInv'
<1> SUFFICES ASSUME SendInv, [Next]_vars PROVE SendInv'
  OBVIOUS
<1>1. CASE ServerSend
  BY <1>1, QuietSend DEF ServerSend
<1>2. CASE Move
  BY <1>2, QuietSend DEF Move
<1>3. ASSUME NEW n \in 1 .. BufLength, Recv(n) PROVE SendInv'
  <2>1. pc = "recv" /\ UNCHANGED sendVars /\ pc' # "send"
    BY <1>3 DEF Recv, Received
  <2> QED
    BY <2>1, QuietSend
<1>4. ASSUME NEW n \in {-1, 0}, RecvEnds(n) PROVE SendInv'
  <2>1. pc = "recv" /\ UNCHANGED sendVars /\ pc' # "send"
    BY <1>4 DEF RecvEnds, Received
  <2> QED
    BY <2>1, QuietSend
<1>5. CASE Connect \/ NoAddress \/ UNCHANGED vars
  <2>1. UNCHANGED sendVars /\ (pc' = "send" <=> pc = "send")
    BY <1>5 DEF Connect, NoAddress, vars
  <2> QED
    BY <2>1, QuietSend
<1>6. CASE Aside
  BY <1>5, <1>6, SendFailsSend, SendReturnsSend, SendPartSend DEF Aside
<1> QED
  BY <1>1, <1>2, <1>3, <1>4, <1>6, HandleSend, NextSteps

LEMMA Sent == Spec => []SendInv
  BY SendInit, SendStep, PTL DEF Spec

\* Whatever send() takes and however it fails, n_send never reads beyond the end of the
\* message; without an error it sends a prefix of it, and returns with at least half of it
\* sent: its loop compares total_sent with bytes_left, which shrinks as the other grows.
THEOREM SendsPrefix == Spec => []AnswerIsPrefix
<1>1. SendInv => AnswerIsPrefix
  <2> SUFFICES ASSUME SendInv PROVE AnswerIsPrefix
    OBVIOUS
  <2>1. out \in Seq(Nat) /\ DOMAIN out = 1 .. Len(out)
    BY DEF SendInv, Given
  <2>2. \A i \in DOMAIN out : out[i] < ReplySize
    BY <2>1 DEF SendInv, Given
  <2>3. ASSUME errors = 0
        PROVE  /\ out = [i \in DOMAIN out |-> i - 1]
               /\ (out # <<>> /\ pc # "send") => 2 * Len(out) >= ReplySize
    <3>1. Len(out) = total /\ \A i \in 1 .. Len(out) : out[i] = i - 1
      BY <2>3 DEF SendInv, Given
    <3>2. out = [i \in DOMAIN out |-> i - 1]
      BY <2>1, <3>1
    <3>3. ASSUME out # <<>>, pc # "send" PROVE 2 * Len(out) >= ReplySize
      <4>1. total >= left /\ total \in Nat /\ left \in Nat
        BY <3>3 DEF SendInv, Enough, Parts
      <4>2. ~Wrapped
        BY <2>3 DEF Wrapped
      <4>3. Len(out) # 0
        BY <2>1, <3>3
      <4>4. total + left = ReplySize
        BY <3>1, <4>2, <4>3 DEF SendInv, Parts
      <4> QED
        BY <3>1, <4>1, <4>4, Constants
    <3> QED
      BY <3>2, <3>3
  <2> QED
    BY <2>2, <2>3 DEF AnswerIsPrefix
<1> QED
  BY <1>1, Sent, PTL

\* The counters of n_receieve never leave the buffer, so recv() writes inside it; the loop
\* reads beyond it, but never more than a header.  Those of n_send never leave size_t, and
\* what was taken of the stream was sent before.
THEOREM CountersStay == Spec => []TypeOK
<1>1. BufInv /\ SendInv => TypeOK
  <2> SUFFICES ASSUME BufInv, SendInv PROVE TypeOK
    OBVIOUS
  <2>1. posted \in 0 .. Len(Sizes) /\ End(posted) = stream[Len(stream)] /\ End(posted) \in Nat
    <3>1. Len(stream) \in 1 .. Len(Sizes) + 1 /\ posted + 1 = Len(stream) /\ posted \in Nat
      BY EndFacts DEF BufInv, StreamOK
    <3> QED
      BY <3>1, EndFacts, Constants DEF BufInv
  <2>2. taken \in 0 .. End(posted) - 1
    BY <2>1 DEF BufInv, Counters
  <2>3. remaining \in 0 .. BufLength /\ done + remaining <= BufLength
        /\ pc \in {"connect", "recv", "loop", "send", "ended"}
    BY Constants DEF BufInv, Counters
  <2>4. total \in 0 .. SizeRange - 1 /\ left \in 0 .. SizeRange - 1
    BY Constants DEF SendInv, Parts
  <2>5. ASSUME pc = "loop" PROVE ReadsUpTo <= BufLength + PREAMBLE
    <3>1. PICK x \in Nat : x = Total(header.size)
      BY TotalNat DEF BufInv, HeaderOK
    <3>2. done \in Nat /\ remaining \in Nat /\ done + remaining <= BufLength
      BY DEF BufInv, Counters
    <3>3. (ptr = PREAMBLE /\ done = 0) \/ ptr = done + 1
      BY <2>5 DEF BufInv, InLoop
    <3>4. CASE remaining >= x
      <4>1. ReadsUpTo = done + x + PREAMBLE
        BY <3>1, <3>4 DEF ReadsUpTo
      <4> QED
        BY <3>1, <3>2, <3>4, <4>1, Constants
    <3>5. CASE ~(remaining >= x)
      <4>1. ReadsUpTo = ptr + remaining
        BY <3>1, <3>5 DEF ReadsUpTo
      <4> QED
        BY <3>2, <3>3, <4>1, Constants
    <3> QED
      BY <3>4, <3>5
  <2> QED
    BY <2>1, <2>2, <2>3, <2>4, <2>5 DEF TypeOK
<1> QED
  BY <1>1, Framed, Sent, PTL

=============================================================================
