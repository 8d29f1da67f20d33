--------------------------- MODULE ServerIoProofs ---------------------------
(***************************************************************************)
(* Proofs about ServerIo, for every set of workers and any number of       *)
(* messages in either direction.                                           *)
(***************************************************************************)
EXTENDS ServerIo, FiniteSetTheorems, TLAPS

-----------------------------------------------------------------------------
(* Where each thread can be, and the types of the send context. *)

Places ==
    {"start", "accept", "ended", "idle", "read_id", "read_body", "zero_read", "post_read",
     "sync", "registered"} \cup SendSteps

PlacesOf(t) ==
    IF t = AcceptThread
    THEN {"start", "accept", "ended", "zero_read", "post_read", "sync", "registered"} \cup SendSteps
    ELSE IF t = TickThread THEN {"idle"} \cup SendSteps
    ELSE {"idle", "read_id", "read_body", "zero_read", "post_read"} \cup SendSteps

Threading == pc \in [Threads -> Places] /\ \A t \in Threads : pc[t] \in PlacesOf(t)

SendTypes ==
    /\ received \in Nat /\ arrived \in Nat /\ broadcasts \in Nat
    /\ sent \in Nat /\ sending \in [Threads -> Nat]
    /\ pending \in Seq(Int) /\ posted \in Seq(Nat) /\ delivered \in Seq(Int)

Sending == {t \in Threads : pc[t] \in SendSteps}
UnderWay == Len(delivered) + 1 .. Len(posted)

\* Thread t is in send(), and no other, and nothing is under way; before it posts the
\* operation, the context holds its message.
OwnsContext(t) ==
    /\ Sending = {t} /\ pending = <<>>
    /\ pc[t] = "post_send" => sent = sending[t]

\* One message is under way: the kernel has taken it, or will read it from the context.
KernelOwns(x) ==
    /\ Sending = {} /\ Len(pending) = 1
    /\ pending[1] = x \/ (pending[1] = Shared /\ sent = x)

\* A message that did not overlap another owns the context while it uses it.
ContextOwned ==
    /\ Len(posted) = Len(delivered) + Len(pending)
    /\ \A i \in UnderWay : posted[i] \in overlapped \/ KernelOwns(posted[i])
    /\ \A t \in Sending : sending[t] \in overlapped \/ OwnsContext(t)

SInv == Threading /\ SendTypes /\ ContextOwned /\ SendsIntactUnlessOverlapped

\* The send context is free before the server starts.
LEMMA SInit == Init => SInv
<1> SUFFICES ASSUME Init PROVE SInv
  OBVIOUS
<1>1. Threading
  <2>1. pc \in [Threads -> Places]
    BY DEF Init, Places
  <2>2. ASSUME NEW t \in Threads PROVE pc[t] \in PlacesOf(t)
    <3>1. CASE t = AcceptThread
      <4>1. pc[t] = "start"
        BY <3>1 DEF Init
      <4> QED
        BY <3>1, <4>1 DEF PlacesOf
    <3>2. CASE t # AcceptThread
      <4>1. pc[t] = "idle"
        BY <3>2 DEF Init
      <4> QED
        BY <3>2, <4>1 DEF PlacesOf
    <3> QED
      BY <3>1, <3>2
  <2> QED
    BY <2>1, <2>2 DEF Threading
<1>2. SendTypes
  BY DEF Init, SendTypes, Blank
<1>3. ContextOwned
  BY DEF Init, ContextOwned, Sending, UnderWay, SendSteps
<1>4. SendsIntactUnlessOverlapped
  BY DEF Init, SendsIntactUnlessOverlapped
<1> QED
  BY <1>1, <1>2, <1>3, <1>4 DEF SInv

\* A step that neither touches the send context nor takes a thread into or out of send().
LEMMA ContextStep ==
    ASSUME SInv, UNCHANGED <<sent, sending, pending, posted, delivered, overlapped>>,
           \A t \in Threads : pc[t] = pc'[t] \/ (pc[t] \notin SendSteps /\ pc'[t] \notin SendSteps)
    PROVE  ContextOwned' /\ SendsIntactUnlessOverlapped'
<1>1. Sending' = Sending /\ \A t \in Sending : t \in Threads /\ pc'[t] = pc[t]
  BY DEF Sending
<1>2. UnderWay' = UnderWay /\ \A x : KernelOwns(x) => KernelOwns(x)'
  BY <1>1 DEF UnderWay, KernelOwns
<1>3. \A t \in Sending : OwnsContext(t) => OwnsContext(t)'
  BY <1>1 DEF OwnsContext
<1> QED
  BY <1>1, <1>2, <1>3 DEF SInv, ContextOwned, SendsIntactUnlessOverlapped

\* Thread t calls send(): the context was free, or both it and what is in use overlap.
LEMMA BeginStep ==
    ASSUME SInv, NEW t \in Threads, pc[t] \notin SendSteps, NEW x \in Nat, BeginSend(t, x)
    PROVE  ContextOwned' /\ SendsIntactUnlessOverlapped'
<1>1. /\ pc \in [Threads -> Places] /\ sending \in [Threads -> Nat]
      /\ posted \in Seq(Nat) /\ delivered \in Seq(Int) /\ pending \in Seq(Int)
      /\ Len(posted) = Len(delivered) + Len(pending)
  BY DEF SInv, Threading, SendTypes, ContextOwned
<1>2. /\ pc' = [pc EXCEPT ![t] = "zero_send"] /\ sending' = [sending EXCEPT ![t] = x]
      /\ UNCHANGED <<sent, pending, posted, delivered>>
  BY DEF BeginSend
<1>3. Sending' = Sending \cup {t} /\ t \notin Sending /\ UnderWay' = UnderWay
  BY <1>1, <1>2 DEF Sending, SendSteps, UnderWay
<1>4. InUse = {sending[u] : u \in Sending} \cup {posted[i] : i \in UnderWay}
  BY DEF InUse, Sending, UnderWay
<1>5. overlapped \subseteq overlapped'
  BY DEF BeginSend
<1>6. SendsIntactUnlessOverlapped'
  BY <1>2, <1>5 DEF SInv, SendsIntactUnlessOverlapped
<1>7. CASE InUse = {}
  <2>1. Sending = {} /\ UnderWay = {}
    BY <1>4, <1>7
  <2>2. pending = <<>>
    <3>1. Len(delivered) \in Nat /\ Len(posted) \in Nat /\ Len(pending) \in Nat
      BY <1>1
    <3>2. Len(delivered) + 1 \notin Len(delivered) + 1 .. Len(posted)
      BY <2>1 DEF UnderWay
    <3>3. Len(pending) = 0
      BY <1>1, <3>1, <3>2
    <3> QED
      BY <1>1, <3>3
  <2>3. OwnsContext(t)'
    BY <1>1, <1>2, <1>3, <2>1, <2>2 DEF OwnsContext
  <2> QED
    BY <1>1, <1>2, <1>3, <1>6, <2>1, <2>3 DEF ContextOwned
<1>8. CASE InUse # {}
  <2>1. overlapped' = overlapped \cup InUse \cup {x}
    BY <1>8 DEF BeginSend
  <2>2. \A i \in UnderWay' : posted'[i] \in overlapped'
    BY <1>2, <1>3, <1>4, <2>1
  <2>3. sending'[t] = x /\ \A u \in Sending : sending'[u] = sending[u]
    BY <1>1, <1>2, <1>3 DEF Sending
  <2>4. \A u \in Sending' : sending'[u] \in overlapped'
    BY <1>3, <1>4, <2>1, <2>3
  <2> QED
    BY <1>1, <1>2, <1>6, <2>2, <2>4 DEF ContextOwned
<1> QED
  BY <1>7, <1>8

\* A thread goes on to one of its places.
LEMMA GotoStep ==
    ASSUME Threading, NEW t \in Threads, NEW to \in PlacesOf(t), pc' = [pc EXCEPT ![t] = to]
    PROVE  Threading'
<1>1. to \in Places
  BY DEF PlacesOf, Places
<1> QED
  BY <1>1 DEF Threading, Places, PlacesOf

\* While a thread that did not overlap is in send(), nothing else uses the context.
LEMMA SenderAlone ==
    ASSUME SInv, NEW t \in Sending
    PROVE  /\ \A i \in UnderWay : posted[i] \in overlapped
           /\ \A u \in Sending \ {t} : sending[u] \in overlapped
BY DEF SInv, ContextOwned, KernelOwns, OwnsContext

\* A thread leaves send(): its message is posted, and the context goes to the kernel, or
\* WSASend fails.
LEMMA SendPost ==
    ASSUME SInv, NEW t \in Threads, PostSend(t) \/ SendRefused(t)
    PROVE  SInv'
<1>1. /\ pc[t] = "post_send" /\ pc' = [pc EXCEPT ![t] = AfterSend(t)]
      /\ UNCHANGED <<received, arrived, broadcasts, sent, sending, delivered, overlapped>>
  BY DEF PostSend, SendRefused, Goto, readVars
<1>2. AfterSend(t) \in PlacesOf(t) /\ AfterSend(t) \notin SendSteps
  BY ThreadsAssumption DEF AfterSend, PlacesOf, Threads, SendSteps
<1>3. Threading'
  BY <1>1, <1>2, GotoStep DEF SInv
<1>4. /\ pc \in [Threads -> Places] /\ sending \in [Threads -> Nat] /\ sent \in Nat
      /\ posted \in Seq(Nat) /\ delivered \in Seq(Int) /\ pending \in Seq(Int)
      /\ Len(posted) = Len(delivered) + Len(pending)
  BY DEF SInv, Threading, SendTypes, ContextOwned
<1>5. t \in Sending /\ Sending' = Sending \ {t}
  BY <1>1, <1>2, <1>4 DEF Sending, SendSteps
<1>6. /\ \A i \in UnderWay : posted[i] \in overlapped
      /\ \A u \in Sending' : sending'[u] \in overlapped'
      /\ sending[t] \in overlapped \/ OwnsContext(t)
  BY <1>1, <1>5, SenderAlone DEF SInv, ContextOwned
<1>7. CASE SendRefused(t)
  <2>1. UNCHANGED <<posted, pending>>
    BY <1>7 DEF SendRefused
  <2>2. SendTypes' /\ SendsIntactUnlessOverlapped' /\ UnderWay' = UnderWay
    BY <1>1, <2>1 DEF SInv, SendTypes, SendsIntactUnlessOverlapped, UnderWay
  <2>3. ContextOwned'
    BY <1>1, <1>4, <1>6, <2>1, <2>2 DEF ContextOwned
  <2> QED
    BY <1>3, <2>2, <2>3 DEF SInv
<1>8. CASE PostSend(t)
  <2>1. PICK bytes \in {sent, Shared} : pending' = Append(pending, bytes)
    BY <1>8 DEF PostSend
  <2>2. posted' = Append(posted, sending[t]) /\ bytes \in Int /\ sending[t] \in Nat
    BY <1>4, <1>8, <2>1 DEF PostSend, Shared
  <2>3. SendTypes'
    BY <1>1, <2>1, <2>2 DEF SInv, SendTypes
  <2>4. /\ Len(posted') = Len(posted) + 1 /\ Len(pending') = Len(pending) + 1
        /\ \A i \in 1 .. Len(posted) : posted'[i] = posted[i]
        /\ posted'[Len(posted) + 1] = sending[t]
    <3>1. Len(pending') = Len(pending) + 1
      BY <1>4, <2>1, <2>2
    <3>2. /\ Len(posted') = Len(posted) + 1
          /\ \A i \in 1 .. Len(posted) : posted'[i] = posted[i]
          /\ posted'[Len(posted) + 1] = sending[t]
      <4> HIDE <1>8
      <4> QED
        BY <1>4, <2>2
    <3> QED
      BY <3>1, <3>2
  <2>5. SendsIntactUnlessOverlapped'
    <3>1. Len(delivered) <= Len(posted) /\ Len(delivered) \in Nat /\ Len(posted) \in Nat
      BY <1>4 DEF SInv, SendsIntactUnlessOverlapped
    <3>2. \A i \in DOMAIN delivered : i \in 1 .. Len(posted)
      BY <1>4, <3>1
    <3> QED
      BY <1>1, <2>4, <3>1, <3>2 DEF SInv, SendsIntactUnlessOverlapped
  <2>6. \A i \in UnderWay' : (i \in UnderWay /\ i \in 1 .. Len(posted)) \/ i = Len(posted) + 1
    BY <1>1, <1>4, <2>4 DEF UnderWay
  <2>7. OwnsContext(t) => KernelOwns(sending[t])'
    <3> SUFFICES ASSUME OwnsContext(t) PROVE KernelOwns(sending[t])'
      OBVIOUS
    <3>1. Sending' = {} /\ pending' = <<bytes>> /\ sent = sending[t]
      BY <1>1, <1>5, <2>1 DEF OwnsContext
    <3> QED
      BY <1>1, <2>1, <3>1 DEF KernelOwns
  <2>8. ASSUME NEW i \in UnderWay' PROVE posted'[i] \in overlapped' \/ KernelOwns(posted[i])'
    <3>1. CASE i \in UnderWay /\ i \in 1 .. Len(posted)
      BY <1>1, <1>6, <2>4, <3>1
    <3>2. CASE i = Len(posted) + 1
      <4>1. posted'[i] = sending[t] /\ sending' = sending
        BY <1>1, <2>4, <3>2
      <4>2. KernelOwns(sending[t])' => KernelOwns(posted[i])'
        BY <4>1 DEF KernelOwns
      <4> QED
        BY <1>1, <1>6, <2>7, <4>1, <4>2
    <3> QED
      BY <2>6, <3>1, <3>2
  <2>9. Len(posted') = Len(delivered') + Len(pending')
    BY <1>1, <1>4, <2>4
  <2>10. ContextOwned'
    BY <1>6, <2>8, <2>9 DEF ContextOwned
  <2> QED
    BY <1>3, <2>3, <2>5, <2>10 DEF SInv
<1> QED
  BY <1>7, <1>8

\* The kernel transmits what was posted, or fails to.
LEMMA SendTransmit ==
    ASSUME SInv, Transmit \/ TransmitFails
    PROVE  SInv'
<1>1. /\ pending # <<>> /\ pending' = Tail(pending)
      /\ UNCHANGED <<received, arrived, broadcasts, pc, sent, sending, posted, overlapped>>
  BY DEF Transmit, TransmitFails, readVars
<1>2. PICK bytes :
        /\ delivered' = Append(delivered, bytes)
        /\ bytes \in {Lost, IF Head(pending) = Shared THEN sent ELSE Head(pending)}
  BY DEF Transmit, TransmitFails
<1>3. /\ posted \in Seq(Nat) /\ delivered \in Seq(Int) /\ pending \in Seq(Int) /\ sent \in Nat
      /\ Len(posted) = Len(delivered) + Len(pending)
  BY DEF SInv, SendTypes, ContextOwned
<1>4. Head(pending) = pending[1] /\ Head(pending) \in Int /\ Len(pending) \in Nat \ {0}
  BY <1>1, <1>3
<1>5. bytes \in Int
  BY <1>2, <1>3, <1>4 DEF Lost
<1>6. SendTypes'
  BY <1>1, <1>2, <1>5 DEF SInv, SendTypes
<1>7. Threading' /\ Sending' = Sending
  BY <1>1 DEF SInv, Threading, PlacesOf, Sending
<1>8. /\ Len(delivered') = Len(delivered) + 1 /\ Len(pending') = Len(pending) - 1
      /\ \A i \in 1 .. Len(delivered) : delivered'[i] = delivered[i]
      /\ delivered'[Len(delivered) + 1] = bytes
  BY <1>1, <1>2, <1>3, <1>4, <1>5
<1> DEFINE oldest == Len(delivered) + 1
<1>9. oldest \in UnderWay /\ oldest <= Len(posted)
  BY <1>3, <1>4 DEF UnderWay
<1>10. posted[oldest] \in overlapped \/ bytes \in {posted[oldest], Lost}
  <2>1. KernelOwns(posted[oldest]) => bytes \in {posted[oldest], Lost}
    <3> SUFFICES ASSUME KernelOwns(posted[oldest]) PROVE bytes \in {posted[oldest], Lost}
      OBVIOUS
    <3>1. \/ Head(pending) = posted[oldest]
          \/ Head(pending) = Shared /\ sent = posted[oldest]
      BY <1>4 DEF KernelOwns
    <3>2. posted[oldest] \in Nat
      BY <1>3, <1>9 DEF UnderWay
    <3>3. posted[oldest] # Shared
      BY <3>2 DEF Shared
    <3> QED
      BY <1>2, <3>1, <3>3
  <2> QED
    BY <1>9, <2>1 DEF SInv, ContextOwned
<1>11. SendsIntactUnlessOverlapped'
  <2>1. Len(delivered') <= Len(posted')
    BY <1>1, <1>8, <1>9
  <2>2. ASSUME NEW i \in DOMAIN delivered'
        PROVE  posted'[i] \in overlapped' \/ delivered'[i] \in {posted'[i], Lost}
    <3>1. CASE i \in DOMAIN delivered
      <4>1. delivered'[i] = delivered[i]
        <5>1. i \in 1 .. Len(delivered)
          BY <1>3, <3>1
        <5> QED
          BY <1>8, <5>1
      <4>2. posted[i] \in overlapped \/ delivered[i] \in {posted[i], Lost}
        BY <3>1 DEF SInv, SendsIntactUnlessOverlapped
      <4> QED
        BY <1>1, <4>1, <4>2
    <3>2. CASE i = oldest
      BY <1>1, <1>8, <1>10, <3>2
    <3>3. i \in DOMAIN delivered \/ i = oldest
      BY <1>2, <1>3, <1>5
    <3> QED
      BY <3>1, <3>2, <3>3
  <2> QED
    BY <2>1, <2>2 DEF SendsIntactUnlessOverlapped
<1>12. \A i \in UnderWay' : posted'[i] \in overlapped'
  <2> SUFFICES ASSUME NEW i \in UnderWay' PROVE posted[i] \in overlapped
    BY <1>1
  <2>1. i \in Len(delivered) + 2 .. Len(posted)
    <3>1. i \in Len(delivered') + 1 .. Len(posted)
      BY <1>1 DEF UnderWay
    <3> QED
      BY <1>3, <1>8, <3>1
  <2>2. i \in UnderWay /\ Len(pending) # 1
    <3>1. Len(delivered) \in Nat /\ Len(posted) \in Nat /\ Len(pending) \in Nat
      BY <1>3
    <3>2. Len(posted) = Len(delivered) + Len(pending)
      BY <1>3
    <3>3. i \in Len(delivered) + 1 .. Len(posted)
      BY <2>1, <3>1
    <3>4. Len(delivered) + 2 <= Len(posted)
      BY <2>1, <3>1
    <3>5. Len(pending) # 1
      <4>1. \A p, d, q \in Nat : p = d + q /\ d + 2 <= p => q # 1
        OBVIOUS
      <4> QED
        BY <3>1, <3>2, <3>4, <4>1
    <3> QED
      BY <3>3, <3>5 DEF UnderWay
  <2> QED
    BY <2>2 DEF SInv, ContextOwned, KernelOwns
<1>13. \A t \in Sending' : sending'[t] \in overlapped'
  BY <1>1, <1>7 DEF SInv, ContextOwned, OwnsContext
<1>14. ContextOwned'
  BY <1>1, <1>3, <1>8, <1>12, <1>13 DEF ContextOwned
<1> QED
  BY <1>6, <1>7, <1>11, <1>14 DEF SInv

\* The other two steps of send() only write the context.
LEMMA SendWrite ==
    ASSUME SInv, NEW t \in Threads, ZeroSend(t) \/ CopySend(t)
    PROVE  SInv'
<1>1. /\ pc[t] \in SendSteps /\ pc' \in {[pc EXCEPT ![t] = "copy_send"], [pc EXCEPT ![t] = "post_send"]}
      /\ sent' \in {Blank, sending[t]}
      /\ pc'[t] = "post_send" => sent' = sending[t]
      /\ UNCHANGED <<received, arrived, broadcasts, sending, pending, posted, delivered, overlapped>>
  BY DEF ZeroSend, CopySend, Goto, readVars, SendSteps, SInv, Threading
<1>2. Threading'
  BY <1>1, GotoStep DEF SInv, PlacesOf, SendSteps
<1>3. SendTypes' /\ SendsIntactUnlessOverlapped'
  BY <1>1 DEF SInv, SendTypes, SendsIntactUnlessOverlapped, Blank
<1>4. t \in Sending /\ Sending' = Sending /\ UnderWay' = UnderWay
  BY <1>1 DEF SInv, Threading, Sending, SendSteps, UnderWay
<1>5. /\ \A i \in UnderWay' : posted'[i] \in overlapped'
      /\ \A u \in Sending' \ {t} : sending'[u] \in overlapped'
  BY <1>1, <1>4, SenderAlone
<1>6. sending'[t] \in overlapped' \/ OwnsContext(t)'
  BY <1>1, <1>4 DEF SInv, ContextOwned, OwnsContext
<1>7. ContextOwned'
  BY <1>1, <1>5, <1>6 DEF SInv, ContextOwned
<1> QED
  BY <1>2, <1>3, <1>7 DEF SInv

\* A call of send(): Sync, TickSend and the answer in ReadBody.
LEMMA SendBegin ==
    ASSUME SInv, NEW t \in Threads, pc[t] \notin SendSteps, NEW x \in Nat, BeginSend(t, x),
           received' \in Nat, arrived' \in Nat, broadcasts' \in Nat
    PROVE  SInv'
<1>1. ContextOwned' /\ SendsIntactUnlessOverlapped'
  BY BeginStep
<1>2. Threading'
  BY GotoStep DEF BeginSend, SInv, PlacesOf, SendSteps
<1>3. SendTypes'
  BY DEF BeginSend, SInv, SendTypes
<1> QED
  BY <1>1, <1>2, <1>3 DEF SInv

\* A step outside send(), of one thread or of none.
LEMMA SendElsewhere ==
    ASSUME SInv, UNCHANGED <<sent, sending, pending, posted, delivered, overlapped>>,
           received' \in Nat, arrived' \in Nat, broadcasts' \in Nat,
           \/ UNCHANGED pc
           \/ \E t \in Threads : \E to \in PlacesOf(t) \ SendSteps :
                pc[t] \notin SendSteps /\ pc' = [pc EXCEPT ![t] = to]
    PROVE  SInv'
<1>1. Threading'
  BY GotoStep DEF SInv, Threading, PlacesOf
<1>2. SendTypes'
  BY DEF SInv, SendTypes
<1>3. ContextOwned' /\ SendsIntactUnlessOverlapped'
  BY ContextStep DEF SInv, Threading
<1> QED
  BY <1>1, <1>2, <1>3 DEF SInv

\* Every step of the server keeps the invariant.
LEMMA SStep == SInv /\ [Next]_vars => SInv'
<1> SUFFICES ASSUME SInv, [Next]_vars PROVE SInv'
  OBVIOUS
<1> USE DEF SendSteps
<1>1. received \in Nat /\ arrived \in Nat /\ broadcasts \in Nat /\ Blank \in Nat
  BY DEF SInv, SendTypes, Blank
<1>2. AcceptThread \in Threads /\ TickThread \in Threads /\ Workers \subseteq Threads
  BY DEF Threads
<1>3. ASSUME Start \/ StartFails \/ AcceptOneTooMany PROVE SInv'
  <2>1. {"accept", "ended"} \subseteq PlacesOf(AcceptThread) \ SendSteps
    BY DEF PlacesOf
  <2> QED
    BY <1>1, <1>2, <1>3, <2>1, SendElsewhere
    DEF Start, StartFails, AcceptOneTooMany, Goto, readVars, sendVars
<1>4. ASSUME Accept PROVE SInv'
  <2>1. "zero_read" \in PlacesOf(AcceptThread) \ SendSteps
    BY DEF PlacesOf
  <2> QED
    BY <1>1, <1>2, <1>4, <2>1, SendElsewhere DEF Accept, Goto, readVars, sendVars
<1>5. ASSUME Sync PROVE SInv'
  <2>1. SyncMessage \in Nat
    BY DEF SyncMessage
  <2> QED
    BY <1>1, <1>2, <1>5, <2>1, SendBegin DEF Sync, readVars
<1>6. ASSUME NEW t \in Threads, ZeroRead(t) PROVE SInv'
  <2>1. "post_read" \in PlacesOf(t) \ SendSteps
    BY <1>6 DEF ZeroRead, Goto, SInv, Threading, PlacesOf
  <2> QED
    BY <1>1, <1>6, <2>1, SendElsewhere DEF ZeroRead, Goto, sendVars
<1>7. ASSUME NEW t \in Threads, PostRead(t) \/ ReadRefused(t) PROVE SInv'
  <2>1. AfterReceive(t) \in PlacesOf(t) \ SendSteps
    BY DEF AfterReceive, PlacesOf
  <2>2. pc[t] = "post_read" /\ pc' = [pc EXCEPT ![t] = AfterReceive(t)]
    BY <1>7 DEF PostRead, ReadRefused, Goto
  <2>3. UNCHANGED <<received, arrived, sendVars>>
    BY <1>7 DEF PostRead, ReadRefused, sendVars
  <2> QED
    BY <1>1, <2>1, <2>2, <2>3, SendElsewhere DEF sendVars
<1>8. ASSUME NEW t \in Threads, ZeroSend(t) \/ CopySend(t) PROVE SInv'
  BY <1>8, SendWrite
<1>9. ASSUME NEW t \in Threads, PostSend(t) \/ SendRefused(t) PROVE SInv'
  BY <1>9, SendPost
<1>10. ASSUME NEW w \in Workers, Take(w) PROVE SInv'
  <2> DEFINE to == CASE Head(port) = "read"  -> "read_id"
                     [] Head(port) = "write" -> "zero_read"
                     [] OTHER                -> "idle"
  <2>1. to \in PlacesOf(w) \ SendSteps
    BY ThreadsAssumption DEF PlacesOf
  <2>2. pc' = [pc EXCEPT ![w] = to]
    BY <1>10 DEF Take
  <2> HIDE DEF to
  <2> QED
    BY <1>1, <1>2, <1>10, <2>1, <2>2, SendElsewhere DEF Take, sendVars
<1>11. ASSUME NEW w \in Workers, ReadId(w) PROVE SInv'
  <2>1. "read_body" \in PlacesOf(w) \ SendSteps
    BY ThreadsAssumption DEF PlacesOf
  <2> QED
    BY <1>1, <1>2, <1>11, <2>1, SendElsewhere DEF ReadId, Goto, sendVars
<1>12. ASSUME NEW w \in Workers, ReadBody(w) PROVE SInv'
  <2>1. "zero_read" \in PlacesOf(w) \ SendSteps /\ pc[w] \notin SendSteps
    BY <1>12, ThreadsAssumption DEF PlacesOf, ReadBody
  <2>2. CASE BeginSend(w, Answer(received))
    <3>1. Answer(received) \in Nat
      BY <1>1 DEF Answer
    <3> QED
      BY <1>1, <1>2, <1>12, <2>1, <2>2, <3>1, SendBegin DEF ReadBody
  <2>3. CASE ~BeginSend(w, Answer(received))
    <3>1. /\ pc' = [pc EXCEPT ![w] = "zero_read"]
          /\ UNCHANGED <<sent, sending, pending, posted, delivered, overlapped>>
          /\ UNCHANGED <<received, arrived, broadcasts>>
      BY <1>12, <2>3 DEF ReadBody
    <3> QED
      BY <1>1, <1>2, <2>1, <3>1, SendElsewhere
  <2> QED
    BY <2>2, <2>3
<1>13. ASSUME TickSend PROVE SInv'
  <2>1. Broadcast(broadcasts + 1) \in Nat
    BY <1>1 DEF Broadcast
  <2> QED
    BY <1>1, <1>2, <1>13, <2>1, SendBegin DEF TickSend, readVars
<1>14. ASSUME CompleteRead \/ Close \/ CompleteClosed PROVE SInv'
  BY <1>1, <1>14, SendElsewhere DEF CompleteRead, Close, CompleteClosed, sendVars
<1>15. ASSUME Transmit \/ TransmitFails PROVE SInv'
  BY <1>15, SendTransmit
<1>16. CASE UNCHANGED vars
  BY <1>1, <1>16, SendElsewhere DEF vars, readVars, sendVars
<1> QED
  BY <1>3, <1>4, <1>5, <1>6, <1>7, <1>8, <1>9, <1>10, <1>11, <1>12, <1>13, <1>14, <1>15, <1>16
  DEF Next, accept_clients, receive, send, worker_thread, Kernel

\* Whatever calls of send() overlap, fail or are lost with the connection, a message that
\* used the send context alone is received as it was sent and in its turn, or lost
\* (ServerClient.cpp:50).
THEOREM SendsIntact == Spec => []SendsIntactUnlessOverlapped
<1>1. SInv => SendsIntactUnlessOverlapped
  BY DEF SInv
<1> QED
  BY <1>1, SInit, SStep, PTL DEF Spec

-----------------------------------------------------------------------------
(* The reads that are posted. *)

Completions == {"read", "write", "closed"}

ReadTypes ==
    /\ reads \in Nat /\ dropped \in Nat /\ refused \in Nat
    /\ port \in Seq(Completions)
    /\ taken \in [Workers -> Completions \cup {"none"}]

\* A worker that is busy has taken a completion that makes it post a read.
Taking == \A w \in Workers : pc[w] # "idle" => taken[w] \in {"read", "write"}

\* The client has been accepted.
Accepted == pc[AcceptThread] \notin {"start", "accept", "ended"}

\* Before that, nothing is posted and the other threads wait.
Waiting ==
    ~Accepted =>
        /\ associated = FALSE
        /\ reads = 0 /\ port = <<>> /\ dropped = 0 /\ refused = 0
        /\ delivered = <<>> /\ pending = <<>>
        /\ \A t \in Threads : t # AcceptThread => pc[t] = "idle"

Owers == {w \in Workers : Owing(w)}
First == IF pc[AcceptThread] \in {"zero_read", "post_read"} THEN 1 ELSE 0

\* Each operation that ended, but for those that failed, has its next read.
Counted ==
    associated =>
        (reads + First + refused) + (Len(port) + Cardinality(Owers) + dropped)
            = 1 + Len(delivered)

RInv == SInv /\ ReadTypes /\ Taking /\ Waiting /\ Counted

\* The accounting holds before the server starts.
LEMMA RInit == Init => RInv
<1> SUFFICES ASSUME Init PROVE RInv
  OBVIOUS
<1>1. pc[AcceptThread] = "start" /\ \A t \in Threads : t # AcceptThread => pc[t] = "idle"
  BY DEF Init, Threads
<1>2. Workers \subseteq Threads /\ AcceptThread \notin Workers
  BY ThreadsAssumption DEF Threads
<1>3. ReadTypes
  BY DEF Init, ReadTypes
<1>4. Taking /\ Waiting
  BY <1>1, <1>2 DEF Init, Taking, Waiting
<1>5. Counted
  BY DEF Init, Counted
<1> QED
  BY <1>3, <1>4, <1>5, SInit DEF RInv

\* The workers that owe a read, after one more does or one has posted it.
LEMMA OwersLemma ==
    ASSUME NEW S \in SUBSET Workers, NEW w \in Workers
    PROVE  /\ Cardinality(S) \in Nat
           /\ w \notin S => Cardinality(S \cup {w}) = Cardinality(S) + 1
           /\ w \in S => Cardinality(S \ {w}) = Cardinality(S) - 1
BY ThreadsAssumption, FS_Subset, FS_CardinalityType, FS_AddElement, FS_RemoveElement

\* There are finitely many workers that owe a read.
LEMMA OwersFinite == Owers \in SUBSET Workers /\ Cardinality(Owers) \in Nat
BY ThreadsAssumption, FS_Subset, FS_CardinalityType DEF Owers

\* The invariant's count bounds the one of the property.
LEMMA CountedIsAccounting == RInv => ReadAccounting
<1> SUFFICES ASSUME RInv, associated
             PROVE  ReadsToCome + dropped + refused \in 1 .. 1 + Len(delivered)
  BY DEF ReadAccounting
<1>1. /\ reads \in Nat /\ dropped \in Nat /\ refused \in Nat /\ Len(port) \in Nat
      /\ Len(delivered) \in Nat /\ Cardinality(Owers) \in Nat
  BY OwersFinite DEF RInv, ReadTypes, SInv, SendTypes
<1>2. First \in Nat
  BY DEF First
<1>3. ReadsToCome = reads + Len(port) + Cardinality(Owers) + First
  BY DEF ReadsToCome, Owers, First
<1>4. (reads + First + refused) + (Len(port) + Cardinality(Owers) + dropped)
        = 1 + Len(delivered)
  BY DEF RInv, Counted
<1> HIDE DEF First
<1> QED
  BY <1>1, <1>2, <1>3, <1>4

\* Something is under way only once the client has been accepted.
LEMMA AcceptedWhenBusy ==
    ASSUME RInv, \/ reads > 0 \/ port # <<>> \/ pending # <<>>
                 \/ \E t \in Threads : t # AcceptThread /\ pc[t] # "idle"
    PROVE  Accepted
BY DEF RInv, Waiting, ReadTypes

\* A step that posts, completes and takes nothing: whoever owed a read still does.
LEMMA AccountElsewhere ==
    ASSUME RInv, SInv', Accepted, Accepted', First' = First,
           UNCHANGED <<associated, reads, port, taken, dropped, refused, delivered>>,
           \A w \in Workers : pc'[w] = pc[w] \/ (pc[w] # "idle" /\ pc'[w] # "idle")
    PROVE  RInv'
<1>1. ReadTypes' /\ Waiting'
  BY DEF RInv, ReadTypes, Waiting
<1>2. Taking'
  BY DEF RInv, Taking
<1>3. Owers' = Owers
  BY DEF Owers, Owing
<1>4. Counted'
  BY <1>3 DEF RInv, Counted
<1> QED
  BY <1>1, <1>2, <1>4 DEF RInv

\* The client is accepted: the first read is owed.
LEMMA AccountAccept ==
    ASSUME RInv, SInv', Accept
    PROVE  RInv'
<1>1. /\ ~Accepted /\ reads = 0 /\ port = <<>> /\ dropped = 0 /\ refused = 0
      /\ delivered = <<>> /\ \A t \in Threads : t # AcceptThread => pc[t] = "idle"
      /\ UNCHANGED <<reads, port, dropped, refused, delivered, taken, pending>>
  BY DEF RInv, Accept, Waiting, Accepted, readVars, sendVars
<1>2. \/ pc' = [pc EXCEPT ![AcceptThread] = "zero_read"]
      \/ UNCHANGED <<pc, associated>>
  BY DEF Accept, Goto
<1>3. AcceptThread \in Threads /\ \A w \in Workers : w \in Threads /\ w # AcceptThread
  BY ThreadsAssumption DEF Threads
<1>4. ReadTypes'
  BY <1>1 DEF RInv, ReadTypes
<1>5. \A w \in Workers : pc'[w] = "idle"
  BY <1>1, <1>2, <1>3 DEF RInv, SInv, Threading
<1>6. Taking'
  BY <1>5 DEF Taking
<1>7. CASE pc' = [pc EXCEPT ![AcceptThread] = "zero_read"]
  <2>1. pc'[AcceptThread] = "zero_read"
    BY <1>3, <1>7 DEF RInv, SInv, Threading
  <2>2. Waiting'
    BY <2>1 DEF Waiting, Accepted
  <2>3. Owers' = {}
    BY <1>5 DEF Owers, Owing
  <2>4. Cardinality(Owers') = 0
    BY <2>3, FS_EmptySet
  <2>5. First' = 1
    BY <2>1 DEF First
  <2>6. Len(port') = 0 /\ Len(delivered') = 0 /\ reads' = 0 /\ dropped' = 0 /\ refused' = 0
    BY <1>1
  <2>7. Counted'
    BY <2>4, <2>5, <2>6 DEF Counted
  <2> QED
    BY <1>4, <1>6, <2>2, <2>7 DEF RInv
<1>8. CASE UNCHANGED <<pc, associated>>
  <2>1. Waiting'
    BY <1>1, <1>8 DEF RInv, Waiting, Accepted
  <2>2. Counted'
    BY <1>1, <1>8 DEF RInv, Waiting, Counted
  <2> QED
    BY <1>4, <1>6, <2>1, <2>2 DEF RInv
<1> QED
  BY <1>2, <1>7, <1>8

\* A read is posted or refused, by the accept thread or by a worker that owed it.
LEMMA AccountPost ==
    ASSUME RInv, SInv', NEW t \in Threads, PostRead(t) \/ ReadRefused(t)
    PROVE  RInv'
<1>1. /\ pc[t] = "post_read"
      /\ \/ reads' = reads + 1 /\ UNCHANGED refused
         \/ refused' = refused + 1 /\ UNCHANGED reads
      /\ pc' = [pc EXCEPT ![t] = IF t = AcceptThread THEN "sync" ELSE "idle"]
      /\ UNCHANGED <<associated, port, taken, dropped, delivered, pending>>
  BY DEF PostRead, ReadRefused, AfterReceive, Goto, lifeVars, sendVars
<1>2. Accepted
  BY <1>1, AcceptedWhenBusy DEF Accepted
<1>3. AcceptThread \in Threads /\ \A w \in Workers : w \in Threads /\ w # AcceptThread
  BY ThreadsAssumption DEF Threads
<1>4. pc \in [Threads -> Places]
  BY DEF RInv, SInv, Threading
<1>5. ReadTypes'
  BY <1>1 DEF RInv, ReadTypes
<1>6. Taking'
  BY <1>1, <1>3, <1>4 DEF RInv, Taking
<1>7. Accepted'
  BY <1>1, <1>2, <1>3, <1>4 DEF Accepted
<1>8. Waiting'
  BY <1>7 DEF Waiting
<1>9. /\ reads \in Nat /\ dropped \in Nat /\ refused \in Nat
      /\ Len(port) \in Nat /\ Len(delivered) \in Nat
  BY DEF RInv, ReadTypes, SInv, SendTypes
<1>10. CASE t = AcceptThread
  <2>1. First = 1 /\ First' = 0
    BY <1>1, <1>3, <1>4, <1>10 DEF First
  <2>2. Owers' = Owers
    BY <1>1, <1>3, <1>4, <1>10 DEF Owers, Owing
  <2>3. Counted'
    BY <1>1, <1>9, <2>1, <2>2, OwersFinite DEF RInv, Counted
  <2> QED
    BY <1>5, <1>6, <1>8, <2>3 DEF RInv
<1>11. CASE t # AcceptThread
  <2>1. t \in Workers
    BY <1>1, <1>11 DEF RInv, SInv, Threading, PlacesOf, Threads, SendSteps
  <2>2. First' = First /\ First \in Nat
    BY <1>1, <1>3, <1>4, <1>11 DEF First
  <2>3. t \in Owers /\ Owers' = Owers \ {t}
    BY <1>1, <1>3, <1>4, <1>11, <2>1 DEF Owers, Owing, RInv, Taking
  <2>4. Cardinality(Owers') = Cardinality(Owers) - 1
    BY <2>1, <2>3, OwersFinite, OwersLemma
  <2>5. Counted'
    BY <1>1, <1>9, <2>2, <2>4, OwersFinite DEF RInv, Counted
  <2> QED
    BY <1>5, <1>6, <1>8, <2>5 DEF RInv
<1> QED
  BY <1>10, <1>11

\* The kernel completes a read or a write.
LEMMA AccountComplete ==
    ASSUME RInv, SInv', CompleteRead \/ CompleteClosed \/ Transmit \/ TransmitFails
    PROVE  RInv'
<1>1. /\ reads > 0 \/ pending # <<>>
      /\ UNCHANGED <<associated, pc, taken, dropped, refused>>
  BY DEF CompleteRead, CompleteClosed, Transmit, TransmitFails, lifeVars, readVars
<1>2. Accepted /\ Accepted'
  BY <1>1, AcceptedWhenBusy DEF Accepted
<1>3. PICK completion \in Completions : port' = Queued(completion)
  BY DEF CompleteRead, CompleteClosed, Transmit, TransmitFails, Completions
<1>4. \/ reads' = reads - 1 /\ reads > 0 /\ UNCHANGED delivered
      \/ UNCHANGED reads /\ \E m : delivered' = Append(delivered, m)
  BY DEF CompleteRead, CompleteClosed, Transmit, TransmitFails, sendVars, readVars
<1>5. reads \in Nat /\ dropped \in Nat /\ refused \in Nat /\ port \in Seq(Completions) /\ delivered \in Seq(Int)
  BY DEF RInv, ReadTypes, SInv, SendTypes
<1>6. port' \in Seq(Completions) /\ (associated => Len(port') = Len(port) + 1)
  BY <1>3, <1>5 DEF Queued
<1>7. ReadTypes' /\ Taking' /\ Waiting'
  BY <1>1, <1>2, <1>4, <1>5, <1>6 DEF RInv, ReadTypes, Taking, Waiting
<1>8. Owers' = Owers /\ First' = First /\ First \in Nat
  BY <1>1 DEF Owers, Owing, First
<1>9. \/ reads' = reads - 1 /\ Len(delivered') = Len(delivered)
      \/ reads' = reads /\ Len(delivered') = Len(delivered) + 1
  <2>1. delivered' \in Seq(Int)
    BY DEF SInv, SendTypes
  <2> QED
    BY <1>4, <1>5, <2>1
<1>10. Counted'
  BY <1>1, <1>5, <1>6, <1>8, <1>9, OwersFinite DEF RInv, Counted
<1> QED
  BY <1>7, <1>10 DEF RInv

\* A worker takes a completion, and owes a read for it unless the client has closed.
LEMMA AccountTake ==
    ASSUME RInv, SInv', NEW w \in Workers, Take(w)
    PROVE  RInv'
<1> DEFINE completion == Head(port)
<1>1. /\ pc[w] = "idle" /\ port # <<>> /\ port' = Tail(port)
      /\ taken' = [taken EXCEPT ![w] = completion]
      /\ dropped' = (IF completion = "closed" THEN dropped + 1 ELSE dropped)
      /\ UNCHANGED <<associated, reads, refused, delivered, pending>>
  BY DEF Take, lifeVars, sendVars
<1>2. reads \in Nat /\ dropped \in Nat /\ refused \in Nat /\ port \in Seq(Completions) /\ Len(delivered) \in Nat
  BY DEF RInv, ReadTypes, SInv, SendTypes
<1>3. completion \in Completions /\ port' \in Seq(Completions) /\ Len(port') = Len(port) - 1
  BY <1>1, <1>2
<1>4. /\ completion = "closed" => pc' = [pc EXCEPT ![w] = "idle"]
      /\ completion # "closed" =>
           \E to \in Places \ {"idle"} : pc' = [pc EXCEPT ![w] = to]
  <2>1. "read_id" \in Places \ {"idle"} /\ "zero_read" \in Places \ {"idle"}
    BY DEF Places, SendSteps
  <2>2. CASE completion = "read"
    <3>1. pc' = [pc EXCEPT ![w] = "read_id"]
      BY <2>2 DEF Take
    <3> QED
      BY <2>1, <2>2, <3>1
  <2>3. CASE completion = "write"
    <3>1. pc' = [pc EXCEPT ![w] = "zero_read"]
      BY <2>3 DEF Take
    <3> QED
      BY <2>1, <2>3, <3>1
  <2>4. CASE completion = "closed"
    <3>1. pc' = [pc EXCEPT ![w] = "idle"]
      BY <2>4 DEF Take
    <3> QED
      BY <2>4, <3>1
  <2> QED
    BY <1>3, <2>2, <2>3, <2>4 DEF Completions
<1> HIDE DEF completion
<1>5. Accepted
  BY <1>1, AcceptedWhenBusy
<1>6. AcceptThread \in Threads /\ \A v \in Workers : v \in Threads /\ v # AcceptThread
  BY ThreadsAssumption DEF Threads
<1>7. pc \in [Threads -> Places] /\ taken \in [Workers -> Completions \cup {"none"}]
  BY DEF RInv, SInv, Threading, ReadTypes
<1>8. /\ pc'[AcceptThread] = pc[AcceptThread]
      /\ \A v \in Workers : v # w => pc'[v] = pc[v] /\ taken'[v] = taken[v]
      /\ taken'[w] = completion
      /\ pc'[w] = "idle" <=> completion = "closed"
  BY <1>1, <1>3, <1>4, <1>6, <1>7
<1>9. ReadTypes'
  <2>1. taken' \in [Workers -> Completions \cup {"none"}]
    BY <1>1, <1>3, <1>7
  <2> QED
    BY <1>1, <1>2, <1>3, <2>1 DEF ReadTypes
<1>10. Taking'
  BY <1>3, <1>8 DEF RInv, Taking, Completions
<1>11. Waiting'
  BY <1>5, <1>8 DEF Waiting, Accepted
<1>12. First' = First /\ First \in Nat
  BY <1>8 DEF First
<1>13. w \notin Owers /\ Owers' = (IF completion = "closed" THEN Owers ELSE Owers \cup {w})
  BY <1>1, <1>8 DEF Owers, Owing
<1>14. Cardinality(Owers') = Cardinality(Owers) + (IF completion = "closed" THEN 0 ELSE 1)
  BY <1>13, OwersFinite, OwersLemma
<1>15. Counted'
  <2>1. Len(port') + Cardinality(Owers') + dropped' = Len(port) + Cardinality(Owers) + dropped
    <3>1. Len(port) \in Nat /\ Len(port') = Len(port) - 1 /\ Cardinality(Owers) \in Nat
      BY <1>2, <1>3, OwersFinite
    <3>2. CASE completion = "closed"
      <4>1. Owers' = Owers /\ dropped' = dropped + 1
        BY <1>1, <1>13, <3>2
      <4> QED
        BY <1>2, <3>1, <4>1
    <3>3. CASE completion # "closed"
      BY <1>1, <1>2, <1>14, <3>1, <3>3
    <3> QED
      BY <3>2, <3>3
  <2> QED
    BY <1>1, <1>12, <2>1 DEF RInv, Counted
<1> QED
  BY <1>9, <1>10, <1>11, <1>15 DEF RInv

\* Every step of the server keeps the accounting.
LEMMA RStep == RInv /\ [Next]_vars => RInv'
<1> SUFFICES ASSUME RInv, [Next]_vars PROVE RInv'
  OBVIOUS
<1>1. SInv'
  BY SStep DEF RInv
<1>2. AcceptThread \in Threads /\ \A w \in Workers : w \in Threads /\ w # AcceptThread /\ w # TickThread
  BY ThreadsAssumption DEF Threads
<1>3. TickThread \in Threads /\ TickThread # AcceptThread
  BY ThreadsAssumption DEF Threads
<1>4. pc \in [Threads -> Places]
  BY DEF RInv, SInv, Threading
<1>5. ASSUME Start \/ StartFails \/ AcceptOneTooMany PROVE RInv'
  <2>1. /\ ~Accepted /\ ~Accepted'
        /\ \A t \in Threads : t # AcceptThread => pc'[t] = pc[t]
        /\ UNCHANGED <<associated, reads, port, taken, dropped, refused, delivered, pending>>
    BY <1>2, <1>4, <1>5
    DEF Start, StartFails, AcceptOneTooMany, Goto, Accepted, readVars, sendVars
  <2>2. ReadTypes' /\ Taking'
    BY <1>2, <2>1 DEF RInv, ReadTypes, Taking
  <2>3. Waiting'
    BY <2>1 DEF RInv, Waiting
  <2>4. Counted'
    BY <2>1, <2>3 DEF Waiting, Counted
  <2> QED
    BY <1>1, <2>2, <2>3, <2>4 DEF RInv
<1>6. ASSUME Accept PROVE RInv'
  BY <1>1, <1>6, AccountAccept
<1>7. ASSUME Sync PROVE RInv'
  <2>1. /\ pc[AcceptThread] = "sync" /\ pc' = [pc EXCEPT ![AcceptThread] = "zero_send"]
        /\ UNCHANGED <<associated, reads, port, taken, dropped, refused, delivered>>
    BY <1>7 DEF Sync, BeginSend, lifeVars, readVars
  <2>2. /\ Accepted /\ Accepted' /\ First' = First
        /\ \A w \in Workers : pc'[w] = pc[w]
    BY <1>2, <1>4, <2>1 DEF Accepted, First
  <2> QED
    BY <1>1, <2>1, <2>2, AccountElsewhere
<1>8. ASSUME NEW t \in Threads, ZeroRead(t) PROVE RInv'
  <2>1. /\ pc[t] = "zero_read" /\ pc' = [pc EXCEPT ![t] = "post_read"]
        /\ UNCHANGED <<associated, reads, port, taken, dropped, refused, delivered>>
    BY <1>8 DEF ZeroRead, Goto, lifeVars, sendVars
  <2>2. /\ Accepted /\ Accepted' /\ First' = First
        /\ \A w \in Workers : pc'[w] = pc[w] \/ (pc[w] # "idle" /\ pc'[w] # "idle")
    BY <1>2, <1>4, <2>1, AcceptedWhenBusy DEF Accepted, First
  <2> QED
    BY <1>1, <2>1, <2>2, AccountElsewhere
<1>9. ASSUME NEW t \in Threads, PostRead(t) \/ ReadRefused(t) PROVE RInv'
  BY <1>1, <1>9, AccountPost
<1>10. ASSUME NEW t \in Threads, send(t) PROVE RInv'
  <2>1. /\ pc[t] \in SendSteps
        /\ UNCHANGED <<associated, reads, port, taken, dropped, refused, delivered>>
    BY <1>10
    DEF send, ZeroSend, CopySend, PostSend, SendRefused, Goto, SendSteps, lifeVars, readVars
  <2>2. \E to \in Places \ {"start", "accept", "ended"} :
          /\ pc' = [pc EXCEPT ![t] = to]
          /\ t \in Workers => to # "idle"
          /\ t = AcceptThread => to \notin {"zero_read", "post_read"}
    <3>1. CASE ZeroSend(t) \/ CopySend(t)
      BY <3>1 DEF ZeroSend, CopySend, Goto, Places, SendSteps
    <3>2. CASE PostSend(t) \/ SendRefused(t)
      <4>1. pc' = [pc EXCEPT ![t] = AfterSend(t)]
        BY <3>2 DEF PostSend, SendRefused, Goto
      <4>2. /\ t = AcceptThread => AfterSend(t) = "registered"
            /\ t = TickThread => AfterSend(t) = "idle"
            /\ t \in Workers => AfterSend(t) = "zero_read"
        BY <1>2, <1>3 DEF AfterSend
      <4> QED
        BY <1>2, <4>1, <4>2 DEF Threads, Places
    <3> QED
      BY <1>10, <3>1, <3>2 DEF send
  <2>3. /\ Accepted /\ Accepted' /\ First' = First
        /\ \A w \in Workers : pc'[w] = pc[w] \/ (pc[w] # "idle" /\ pc'[w] # "idle")
    BY <1>2, <1>3, <1>4, <2>1, <2>2, AcceptedWhenBusy DEF Accepted, First, SendSteps
  <2> QED
    BY <1>1, <2>1, <2>3, AccountElsewhere
<1>11. ASSUME NEW w \in Workers, Take(w) PROVE RInv'
  BY <1>1, <1>11, AccountTake
<1>12. ASSUME NEW w \in Workers, ReadId(w) \/ ReadBody(w) PROVE RInv'
  <2>1. /\ pc[w] # "idle" /\ \E to \in Places \ {"idle"} : pc' = [pc EXCEPT ![w] = to]
        /\ UNCHANGED <<associated, reads, port, taken, dropped, refused, delivered>>
    BY <1>12 DEF ReadId, ReadBody, BeginSend, Goto, Places, SendSteps, lifeVars, sendVars
  <2>2. /\ Accepted /\ Accepted' /\ First' = First
        /\ \A v \in Workers : pc'[v] = pc[v] \/ (pc[v] # "idle" /\ pc'[v] # "idle")
    BY <1>2, <1>4, <2>1, AcceptedWhenBusy DEF Accepted, First
  <2> QED
    BY <1>1, <2>1, <2>2, AccountElsewhere
<1>13. ASSUME TickSend PROVE RInv'
  <2>1. /\ pc[AcceptThread] = "registered" /\ pc' = [pc EXCEPT ![TickThread] = "zero_send"]
        /\ UNCHANGED <<associated, reads, port, taken, dropped, refused, delivered>>
    BY <1>13 DEF TickSend, Registered, BeginSend, lifeVars, readVars
  <2>2. /\ Accepted /\ Accepted' /\ First' = First
        /\ \A w \in Workers : pc'[w] = pc[w]
    BY <1>2, <1>3, <1>4, <2>1 DEF Accepted, First
  <2> QED
    BY <1>1, <2>1, <2>2, AccountElsewhere
<1>14. ASSUME CompleteRead \/ CompleteClosed \/ Transmit \/ TransmitFails PROVE RInv'
  BY <1>1, <1>14, AccountComplete
<1>15. ASSUME Close \/ UNCHANGED vars PROVE RInv'
  <2>1. UNCHANGED <<associated, reads, port, pc, taken, dropped, refused, delivered, pending>>
    BY <1>15 DEF Close, vars, lifeVars, readVars, sendVars
  <2>2. Owers' = Owers /\ First' = First
    BY <2>1 DEF Owers, Owing, First
  <2>3. ReadTypes' /\ Taking' /\ Waiting' /\ Counted'
    BY <2>1, <2>2 DEF RInv, ReadTypes, Taking, Waiting, Accepted, Counted
  <2> QED
    BY <1>1, <2>3 DEF RInv
<1> QED
  BY <1>5, <1>6, <1>7, <1>8, <1>9, <1>10, <1>11, <1>12, <1>13, <1>14, <1>15
  DEF Next, accept_clients, receive, worker_thread, Kernel

\* However the threads interleave, whichever calls fail and whenever the connection is
\* lost, a client is listened to until an operation on it fails, and the reads on the one
\* receive context are never more than one and one for each completed write
\* (Server.cpp:227).
THEOREM ReadsAccounted == Spec => []ReadAccounting
BY RInit, RStep, CountedIsAccounting, PTL DEF Spec, RInv

-----------------------------------------------------------------------------
(* The one read, as long as no worker has taken a completed write. *)

Handling == {"read_id", "read_body"}
Idle == \A w \in Workers : pc[w] = "idle"
NoReads == \A i \in DOMAIN port : port[i] # "read"
AtFirst == pc[AcceptThread] \in {"zero_read", "post_read"}

\* Everything that arrived was handled; or all but the last message, which is in the buffer.
CaughtUp == Len(handled) = arrived
InBuffer == received = arrived /\ arrived = Len(handled) + 1

\* The read is not posted yet, is posted, or has completed.
Unposted == Idle /\ NoReads /\ reads = 0 /\ CaughtUp /\ (Accepted => AtFirst)
Posted == Idle /\ NoReads /\ reads = 1 /\ CaughtUp
Completed ==
    /\ Idle /\ reads = 0 /\ InBuffer
    /\ \E k \in DOMAIN port : port[k] = "read" /\ \A i \in DOMAIN port \ {k} : port[i] # "read"

\* Worker w has taken it and owes the next one.
HandledBy(w) ==
    /\ \A v \in Workers \ {w} : pc[v] = "idle"
    /\ NoReads /\ reads = 0
    /\ taken[w] = "read" /\ pc[w] # "idle"
    /\ pc[w] \in Handling => InBuffer
    /\ pc[w] = "read_body" => id[w] = arrived
    /\ pc[w] \notin Handling => CaughtUp

\* There will be no more: it was refused, or completed with 0 bytes, or its completion went
\* nowhere.
Ended == Idle /\ reads = 0 /\ NoReads

OneRead ==
    \/ Unposted
    \/ /\ Accepted /\ ~AtFirst
       /\ Posted \/ Completed \/ (\E w \in Workers : HandledBy(w)) \/ Ended

HandledTypes ==
    /\ writes \in Nat /\ handled \in Seq(Int \X Int)
    /\ id \in [Workers -> Int]

InOrder == \A i \in 1 .. Len(handled) : handled[i] = <<i, i>>

OInv == RInv /\ HandledTypes /\ (writes = 0 => OneRead /\ InOrder)

\* A step that leaves the read, its buffer and its worker where they are; a write may
\* complete.
LEMMA ReadElsewhere ==
    ASSUME OInv, OneRead, InOrder, Accepted' = Accepted, AtFirst' = AtFirst,
           port' \in {port, Append(port, "write"), Append(port, "closed")},
           UNCHANGED <<reads, received, arrived, taken, id, handled>>,
           \A w \in Workers :
              \/ pc'[w] = pc[w]
              \/ pc[w] \notin Handling \cup {"idle"} /\ pc'[w] \notin Handling \cup {"idle"}
    PROVE  OneRead' /\ InOrder'
<1>1. port \in Seq(Completions)
  BY DEF OInv, RInv, ReadTypes
<1>2. /\ \A i \in DOMAIN port : i \in DOMAIN port' /\ port'[i] = port[i]
      /\ \A i \in DOMAIN port' : i \in DOMAIN port \/ port'[i] # "read"
  BY <1>1
<1>3. (NoReads => NoReads') /\ (Idle => Idle')
  BY <1>2 DEF NoReads, Idle
<1>4. Unposted => Unposted'
  BY <1>3 DEF Unposted, CaughtUp
<1>5. Posted => Posted'
  BY <1>3 DEF Posted, CaughtUp
<1>6. Completed => Completed'
  BY <1>2, <1>3 DEF Completed, InBuffer
<1>7. ASSUME NEW w \in Workers, HandledBy(w) PROVE HandledBy(w)'
  BY <1>3, <1>7 DEF HandledBy, InBuffer, CaughtUp, Handling
<1>8. Ended => Ended'
  BY <1>3 DEF Ended
<1> QED
  BY <1>4, <1>5, <1>6, <1>7, <1>8 DEF OneRead, InOrder

\* The client is accepted.
LEMMA OneAccept ==
    ASSUME OInv, OneRead, InOrder, Accept
    PROVE  OneRead' /\ InOrder'
<1>1. /\ Unposted /\ UNCHANGED <<port, reads, arrived, handled>>
      /\ \/ pc' = [pc EXCEPT ![AcceptThread] = "zero_read"]
         \/ UNCHANGED pc
  BY DEF Accept, Goto, Accepted, OneRead, readVars
<1>2. /\ AcceptThread \in Threads /\ \A w \in Workers : w \in Threads /\ w # AcceptThread
      /\ pc \in [Threads -> Places]
  BY ThreadsAssumption DEF Threads, OInv, RInv, SInv, Threading
<1>3. Unposted'
  BY <1>1, <1>2 DEF Unposted, Idle, NoReads, CaughtUp, Accepted, AtFirst
<1> QED
  BY <1>1, <1>3 DEF OneRead, InOrder

\* The buffer is zeroed only by the accept thread and by the worker that has handled it.
LEMMA OneZero ==
    ASSUME OInv, OneRead, InOrder, NEW t \in Threads, ZeroRead(t)
    PROVE  OneRead' /\ InOrder'
<1>1. /\ pc[t] = "zero_read" /\ pc' = [pc EXCEPT ![t] = "post_read"]
      /\ UNCHANGED <<port, reads, arrived, handled, taken, id>>
  BY DEF ZeroRead, Goto
<1>2. /\ AcceptThread \in Threads /\ \A w \in Workers : w \in Threads /\ w # AcceptThread
      /\ pc \in [Threads -> Places]
  BY ThreadsAssumption DEF Threads, OInv, RInv, SInv, Threading
<1>3. CASE t = AcceptThread
  <2>1. Unposted
    BY <1>1, <1>3 DEF OneRead, AtFirst
  <2>2. Unposted'
    BY <1>1, <1>2, <1>3, <2>1 DEF Unposted, Idle, NoReads, CaughtUp, Accepted, AtFirst
  <2> QED
    BY <1>1, <2>2 DEF OneRead, InOrder
<1>4. CASE t # AcceptThread
  <2>1. t \in Workers
    BY <1>1, <1>4 DEF OInv, RInv, SInv, Threading, PlacesOf, Threads, SendSteps
  <2>2. Accepted /\ ~AtFirst /\ HandledBy(t)
    BY <1>1, <2>1, AcceptedWhenBusy, <1>2
    DEF OInv, OneRead, Unposted, Posted, Completed, HandledBy, Ended, Idle
  <2>3. (Accepted /\ ~AtFirst)'
    BY <1>1, <1>2, <1>4, <2>2 DEF Accepted, AtFirst
  <2>4. HandledBy(t)'
    BY <1>1, <1>2, <2>1, <2>2 DEF HandledBy, NoReads, Handling, CaughtUp
  <2> QED
    BY <1>1, <2>1, <2>3, <2>4 DEF OneRead, InOrder
<1> QED
  BY <1>3, <1>4

\* The read is posted or refused, by the same threads.
LEMMA OnePost ==
    ASSUME OInv, OneRead, InOrder, NEW t \in Threads, PostRead(t) \/ ReadRefused(t)
    PROVE  OneRead' /\ InOrder'
<1>1. /\ pc[t] = "post_read" /\ reads' \in {reads, reads + 1}
      /\ pc' = [pc EXCEPT ![t] = IF t = AcceptThread THEN "sync" ELSE "idle"]
      /\ UNCHANGED <<port, arrived, handled>>
  BY DEF PostRead, ReadRefused, AfterReceive, Goto
<1>2. /\ AcceptThread \in Threads /\ \A w \in Workers : w \in Threads /\ w # AcceptThread
      /\ pc \in [Threads -> Places]
  BY ThreadsAssumption DEF Threads, OInv, RInv, SInv, Threading
<1>3. CASE t = AcceptThread
  <2>1. Unposted
    BY <1>1, <1>3 DEF OneRead, AtFirst
  <2>2. (Accepted /\ ~AtFirst)' /\ (Posted \/ Ended)'
    BY <1>1, <1>2, <1>3, <2>1
    DEF Unposted, Posted, Ended, Idle, NoReads, CaughtUp, Accepted, AtFirst
  <2> QED
    BY <1>1, <2>2 DEF OneRead, InOrder
<1>4. CASE t # AcceptThread
  <2>1. t \in Workers
    BY <1>1, <1>4 DEF OInv, RInv, SInv, Threading, PlacesOf, Threads, SendSteps
  <2>2. Accepted /\ ~AtFirst /\ HandledBy(t)
    BY <1>1, <2>1, AcceptedWhenBusy, <1>2
    DEF OInv, OneRead, Unposted, Posted, Completed, HandledBy, Ended, Idle
  <2>3. (Accepted /\ ~AtFirst)'
    BY <1>1, <1>2, <1>4, <2>2 DEF Accepted, AtFirst
  <2>4. (Posted \/ Ended)'
    BY <1>1, <1>2, <2>1, <2>2, <1>4
    DEF HandledBy, Posted, Ended, Idle, NoReads, Handling, CaughtUp
  <2> QED
    BY <1>1, <2>3, <2>4 DEF OneRead, InOrder
<1> QED
  BY <1>3, <1>4

\* The read completes: with a message, or because the client has closed.
LEMMA OneComplete ==
    ASSUME OInv, OneRead, InOrder, CompleteRead \/ CompleteClosed
    PROVE  OneRead' /\ InOrder'
<1>1. /\ reads > 0 /\ reads' = reads - 1
      /\ UNCHANGED <<pc, taken, id, handled>>
  BY DEF CompleteRead, CompleteClosed
<1>2. /\ Accepted /\ ~AtFirst /\ Posted
      /\ Accepted' /\ ~AtFirst'
  BY <1>1, AcceptedWhenBusy
  DEF OInv, OneRead, Unposted, Completed, HandledBy, Ended, Accepted, AtFirst
<1>3. /\ Idle' /\ reads' = 0
      /\ port \in Seq(Completions) /\ \A i \in 1 .. Len(port) : port[i] # "read"
  BY <1>1, <1>2 DEF Posted, Idle, NoReads, OInv, RInv, ReadTypes
<1>4. CASE port' = port \/ port' = Append(port, "closed")
  <2>1. \A i \in DOMAIN port' : port'[i] # "read"
    BY <1>3, <1>4
  <2> QED
    BY <1>1, <1>2, <1>3, <2>1 DEF OneRead, Ended, NoReads, InOrder
<1>5. CASE CompleteRead /\ port' = Append(port, "read")
  <2>1. InBuffer'
    BY <1>1, <1>2, <1>5 DEF CompleteRead, Posted, CaughtUp, InBuffer
  <2>2. /\ DOMAIN port' = 1 .. Len(port) + 1 /\ port'[Len(port) + 1] = "read"
        /\ \A i \in 1 .. Len(port) : port'[i] # "read"
    BY <1>3, <1>5
  <2>3. Len(port) + 1 \in DOMAIN port'
        /\ \A i \in DOMAIN port' \ {Len(port) + 1} : port'[i] # "read"
    BY <1>3, <2>2
  <2>4. Completed'
    BY <1>3, <2>1, <2>2, <2>3 DEF Completed
  <2> QED
    BY <1>1, <1>2, <2>4 DEF OneRead, InOrder
<1> QED
  BY <1>4, <1>5 DEF CompleteRead, CompleteClosed, Queued

\* A worker takes a completion other than a write.
LEMMA OneTake ==
    ASSUME OInv, OneRead, InOrder, NEW w \in Workers, Take(w), Head(port) # "write"
    PROVE  OneRead' /\ InOrder'
<1>1. /\ pc[w] = "idle" /\ port # <<>> /\ port' = Tail(port)
      /\ taken' = [taken EXCEPT ![w] = Head(port)]
      /\ UNCHANGED <<reads, received, arrived, id, handled>>
  BY DEF Take, lifeVars
<1>2. /\ port \in Seq(Completions) /\ taken \in [Workers -> Completions \cup {"none"}]
      /\ pc \in [Threads -> Places]
      /\ AcceptThread \in Threads /\ \A v \in Workers : v \in Threads /\ v # AcceptThread
  BY ThreadsAssumption DEF Threads, OInv, RInv, SInv, Threading, ReadTypes
<1>3. /\ 1 \in DOMAIN port /\ Head(port) = port[1] /\ port[1] \in Completions
      /\ DOMAIN port' = 1 .. Len(port) - 1
      /\ \A i \in DOMAIN port' : i + 1 \in DOMAIN port /\ i + 1 # 1 /\ port'[i] = port[i + 1]
  BY <1>1, <1>2
<1>4. CASE Head(port) = "read"
  <2>1. pc' = [pc EXCEPT ![w] = "read_id"]
    BY <1>4 DEF Take
  <2>2. Accepted /\ ~AtFirst /\ Completed
    BY <1>1, <1>3, <1>4, AcceptedWhenBusy
    DEF OInv, OneRead, Unposted, Posted, HandledBy, Ended, NoReads
  <2>3. NoReads'
    BY <1>3, <1>4, <2>2 DEF Completed, NoReads
  <2>4. HandledBy(w)'
    BY <1>1, <1>2, <1>4, <2>1, <2>2, <2>3 DEF HandledBy, Completed, Idle, Handling, InBuffer
  <2>5. (Accepted /\ ~AtFirst)'
    BY <1>2, <2>1, <2>2 DEF Accepted, AtFirst
  <2> QED
    BY <1>1, <2>4, <2>5 DEF OneRead, InOrder
<1>5. CASE Head(port) = "closed"
  <2>1. pc' = pc
    BY <1>1, <1>2, <1>5 DEF Take
  <2>2. Idle' = Idle /\ Accepted' = Accepted /\ AtFirst' = AtFirst
    BY <2>1 DEF Idle, Accepted, AtFirst
  <2>3. NoReads => NoReads'
    BY <1>3 DEF NoReads
  <2>4. Unposted => Unposted'
    BY <1>1, <2>2, <2>3 DEF Unposted, CaughtUp
  <2>5. Posted => Posted'
    BY <1>1, <2>2, <2>3 DEF Posted, CaughtUp
  <2>6. Ended => Ended'
    BY <1>1, <2>2, <2>3 DEF Ended
  <2>7. Completed => Completed'
    <3> SUFFICES ASSUME Completed PROVE Completed'
      OBVIOUS
    <3>1. PICK k \in DOMAIN port :
            port[k] = "read" /\ \A i \in DOMAIN port \ {k} : port[i] # "read"
      BY DEF Completed
    <3>2. k # 1 /\ k \in 1 .. Len(port)
      BY <1>2, <1>3, <1>5, <3>1
    <3>3. k - 1 \in DOMAIN port' /\ (k - 1) + 1 = k
      BY <1>2, <1>3, <3>2
    <3>4. port'[k - 1] = "read"
      BY <1>3, <3>1, <3>3
    <3>5. ASSUME NEW i \in DOMAIN port' \ {k - 1} PROVE port'[i] # "read"
      <4>1. i + 1 \in DOMAIN port \ {k} /\ port'[i] = port[i + 1]
        BY <1>2, <1>3, <3>2
      <4> QED
        BY <3>1, <4>1
    <3>6. InBuffer' = InBuffer
      BY <1>1 DEF InBuffer
    <3> QED
      BY <1>1, <2>2, <3>3, <3>4, <3>5, <3>6 DEF Completed
  <2>8. ASSUME NEW v \in Workers, HandledBy(v) PROVE HandledBy(v)'
    <3>1. v # w /\ taken'[v] = taken[v]
      BY <1>1, <1>2, <2>8 DEF HandledBy
    <3> QED
      BY <1>1, <2>1, <2>3, <2>8, <3>1 DEF HandledBy, InBuffer, CaughtUp
  <2> QED
    BY <1>1, <2>2, <2>4, <2>5, <2>6, <2>7, <2>8 DEF OneRead, InOrder
<1> QED
  BY <1>3, <1>4, <1>5 DEF Completions

\* The message in the buffer is handled.
LEMMA OneHandle ==
    ASSUME OInv, OneRead, InOrder, NEW w \in Workers, ReadId(w) \/ ReadBody(w)
    PROVE  OneRead' /\ InOrder'
<1>1. /\ pc[w] \in Handling
      /\ UNCHANGED <<port, reads, received, arrived, taken>>
  BY DEF ReadId, ReadBody, Goto, Handling
<1>2. /\ pc \in [Threads -> Places] /\ id \in [Workers -> Int] /\ handled \in Seq(Int \X Int)
      /\ received \in Nat
      /\ AcceptThread \in Threads /\ \A v \in Workers : v \in Threads /\ v # AcceptThread
  BY ThreadsAssumption DEF Threads, OInv, RInv, SInv, Threading, SendTypes, HandledTypes
<1>3. Accepted /\ ~AtFirst /\ HandledBy(w)
  BY <1>1, <1>2, AcceptedWhenBusy
  DEF OInv, OneRead, Unposted, Posted, Completed, HandledBy, Ended, Idle, Handling
<1>4. InBuffer /\ NoReads'
  BY <1>1, <1>3 DEF HandledBy, NoReads
<1>5. CASE ReadId(w)
  <2>1. /\ pc' = [pc EXCEPT ![w] = "read_body"] /\ id' = [id EXCEPT ![w] = received]
        /\ UNCHANGED handled
    BY <1>5 DEF ReadId, Goto
  <2>2. HandledBy(w)'
    BY <1>1, <1>2, <1>3, <1>4, <2>1 DEF HandledBy, Handling, InBuffer
  <2>3. (Accepted /\ ~AtFirst)'
    BY <1>2, <1>3, <2>1 DEF Accepted, AtFirst
  <2> QED
    BY <2>1, <2>2, <2>3 DEF OneRead, InOrder
<1>6. CASE ReadBody(w)
  <2>1. /\ pc[w] = "read_body" /\ handled' = Append(handled, <<id[w], received>>)
        /\ \E to \in {"zero_send", "zero_read"} : pc' = [pc EXCEPT ![w] = to]
    BY <1>6 DEF ReadBody, BeginSend
  <2>2. id[w] = arrived /\ received = arrived /\ arrived = Len(handled) + 1
    BY <1>3, <1>4, <2>1 DEF HandledBy, InBuffer
  <2>3. InOrder' /\ CaughtUp'
    BY <1>1, <1>2, <2>1, <2>2 DEF InOrder, CaughtUp
  <2>4. HandledBy(w)'
    BY <1>1, <1>2, <1>3, <1>4, <2>1, <2>3 DEF HandledBy, Handling
  <2>5. (Accepted /\ ~AtFirst)'
    BY <1>2, <1>3, <2>1 DEF Accepted, AtFirst
  <2> QED
    BY <2>3, <2>4, <2>5 DEF OneRead
<1> QED
  BY <1>5, <1>6

\* Before the server starts nothing has arrived.
LEMMA OInit == Init => OInv
<1> SUFFICES ASSUME Init PROVE OInv
  OBVIOUS
<1>1. RInv
  BY RInit
<1>2. HandledTypes
  BY DEF Init, HandledTypes, Blank
<1>3. \A w \in Workers : pc[w] = "idle"
  BY ThreadsAssumption DEF Init, Threads
<1>4. ~Accepted
  BY DEF Init, Threads, Accepted
<1>5. Unposted
  BY <1>3, <1>4 DEF Init, Unposted, Idle, NoReads, CaughtUp
<1> QED
  BY <1>1, <1>2, <1>5 DEF Init, OInv, OneRead, InOrder

\* Workers never take back a write, and what they handle are messages.
LEMMA HandledTypesStep ==
    ASSUME OInv, [Next]_vars
    PROVE  HandledTypes' /\ (writes' = 0 => writes = 0)
<1> USE DEF HandledTypes
<1>1. HandledTypes /\ received \in Nat
  BY DEF OInv, RInv, SInv, SendTypes
<1>2. ASSUME NEW w \in Workers, Take(w) PROVE HandledTypes' /\ (writes' = 0 => writes = 0)
  BY <1>1, <1>2 DEF Take
<1>3. ASSUME NEW w \in Workers, ReadId(w) PROVE HandledTypes' /\ (writes' = 0 => writes = 0)
  BY <1>1, <1>3 DEF ReadId
<1>4. ASSUME NEW w \in Workers, ReadBody(w) PROVE HandledTypes' /\ (writes' = 0 => writes = 0)
  <2>1. <<id[w], received>> \in Int \X Int
    BY <1>1
  <2> QED
    BY <1>1, <1>4, <2>1 DEF ReadBody
<1>5. CASE UNCHANGED <<writes, id, handled>>
  BY <1>1, <1>5
<1> QED
  BY <1>2, <1>3, <1>4, <1>5
  DEF Next, accept_clients, receive, send, worker_thread, Kernel, vars, readVars, Start, StartFails,
      Accept, AcceptOneTooMany, Sync, ZeroRead, PostRead, ReadRefused, ZeroSend, CopySend, PostSend,
      SendRefused, TickSend, CompleteRead, CompleteClosed, Close, Transmit, TransmitFails

\* Every step of the server keeps the one read.
LEMMA OStep == OInv /\ [Next]_vars => OInv'
<1> SUFFICES ASSUME OInv, [Next]_vars, RInv', HandledTypes', writes' = 0, writes = 0,
                    OneRead, InOrder
             PROVE  OneRead' /\ InOrder'
  BY RStep, HandledTypesStep DEF OInv
<1>1. /\ pc \in [Threads -> Places]
      /\ AcceptThread \in Threads /\ TickThread \in Threads /\ TickThread # AcceptThread
      /\ \A w \in Workers : w \in Threads /\ w # AcceptThread /\ w # TickThread
  BY ThreadsAssumption DEF Threads, OInv, RInv, SInv, Threading
<1>2. ASSUME Start \/ StartFails \/ AcceptOneTooMany PROVE OneRead' /\ InOrder'
  <2>1. /\ Accepted' = Accepted /\ AtFirst' = AtFirst
        /\ \A w \in Workers : pc'[w] = pc[w]
        /\ UNCHANGED <<port, reads, received, arrived, taken, id, handled>>
    BY <1>1, <1>2 DEF Start, StartFails, AcceptOneTooMany, Goto, Accepted, AtFirst, readVars
  <2> QED
    BY <2>1, ReadElsewhere
<1>3. ASSUME Accept PROVE OneRead' /\ InOrder'
  BY <1>3, OneAccept
<1>4. ASSUME Sync PROVE OneRead' /\ InOrder'
  <2>1. /\ Accepted' = Accepted /\ AtFirst' = AtFirst
        /\ \A w \in Workers : pc'[w] = pc[w]
        /\ UNCHANGED <<port, reads, received, arrived, taken, id, handled>>
    BY <1>1, <1>4 DEF Sync, BeginSend, Accepted, AtFirst, readVars
  <2> QED
    BY <2>1, ReadElsewhere
<1>5. ASSUME NEW t \in Threads, receive(t) PROVE OneRead' /\ InOrder'
  BY <1>5, OneZero, OnePost DEF receive
<1>6. ASSUME NEW t \in Threads, send(t) PROVE OneRead' /\ InOrder'
  <2> DEFINE Steps == {"zero_send", "copy_send", "post_send"}
             After == {"copy_send", "post_send", "registered", "idle", "zero_read"}
  <2>1. /\ pc[t] \in Steps
        /\ UNCHANGED <<port, reads, received, arrived, taken, id, handled>>
    BY <1>6 DEF send, ZeroSend, CopySend, PostSend, SendRefused, Goto, readVars
  <2>2. \E to \in After :
          /\ pc' = [pc EXCEPT ![t] = to]
          /\ t \in Workers => to # "idle"
          /\ t = AcceptThread => to # "zero_read"
    <3>1. CASE ZeroSend(t) \/ CopySend(t)
      BY <3>1 DEF ZeroSend, CopySend, Goto
    <3>2. CASE PostSend(t) \/ SendRefused(t)
      BY <1>1, <3>2 DEF PostSend, SendRefused, Goto, AfterSend
    <3> QED
      BY <1>6, <3>1, <3>2 DEF send
  <2>3. /\ Accepted' = Accepted /\ AtFirst' = AtFirst
        /\ \A w \in Workers :
             \/ pc'[w] = pc[w]
             \/ pc[w] \notin Handling \cup {"idle"} /\ pc'[w] \notin Handling \cup {"idle"}
    <3>1. CASE t = AcceptThread
      <4>1. \A w \in Workers : pc'[w] = pc[w]
        BY <1>1, <2>2, <3>1
      <4>2. Accepted' = Accepted /\ AtFirst' = AtFirst
        BY <1>1, <2>1, <2>2, <3>1 DEF Accepted, AtFirst
      <4> QED
        BY <4>1, <4>2
    <3>2. CASE t # AcceptThread
      BY <1>1, <2>1, <2>2, <3>2 DEF Accepted, AtFirst, Handling
    <3> QED
      BY <3>1, <3>2
  <2> QED
    BY <2>1, <2>3, ReadElsewhere
<1>7. ASSUME NEW w \in Workers, Take(w) PROVE OneRead' /\ InOrder'
  <2>1. Head(port) # "write"
    BY <1>7 DEF Take
  <2> QED
    BY <1>7, <2>1, OneTake
<1>8. ASSUME NEW w \in Workers, ReadId(w) \/ ReadBody(w) PROVE OneRead' /\ InOrder'
  BY <1>8, OneHandle
<1>9. ASSUME TickSend PROVE OneRead' /\ InOrder'
  <2>1. /\ Accepted' = Accepted /\ AtFirst' = AtFirst
        /\ \A w \in Workers : pc'[w] = pc[w]
        /\ UNCHANGED <<port, reads, received, arrived, taken, id, handled>>
    BY <1>1, <1>9 DEF TickSend, BeginSend, Accepted, AtFirst, readVars
  <2> QED
    BY <2>1, ReadElsewhere
<1>10. ASSUME CompleteRead \/ CompleteClosed PROVE OneRead' /\ InOrder'
  BY <1>10, OneComplete
<1>11. ASSUME Transmit \/ TransmitFails \/ Close \/ UNCHANGED vars PROVE OneRead' /\ InOrder'
  <2>1. /\ port' \in {port, Append(port, "write"), Append(port, "closed")}
        /\ UNCHANGED <<pc, reads, received, arrived, taken, id, handled>>
    BY <1>11 DEF Transmit, TransmitFails, Close, Queued, vars, readVars
  <2>2. Accepted' = Accepted /\ AtFirst' = AtFirst
    BY <2>1 DEF Accepted, AtFirst
  <2> QED
    BY <2>1, <2>2, ReadElsewhere
<1> QED
  BY <1>2, <1>3, <1>4, <1>5, <1>6, <1>7, <1>8, <1>9, <1>10, <1>11
  DEF Next, accept_clients, worker_thread, Kernel

\* Until a worker has taken the first completed write, the client's messages are handled
\* one by one, whole and in order, by however many workers (Server.cpp:225, 264).
THEOREM ReadsIntact == Spec => []ReadsIntactWhileSingle
<1>1. OInv => ReadsIntactWhileSingle
  BY DEF OInv, HandledTypes, InOrder, ReadsIntactWhileSingle
<1> QED
  BY <1>1, OInit, OStep, PTL DEF Spec
=============================================================================
