--------------------------- MODULE StreamFraming ---------------------------
(***************************************************************************)
(* The client's end of the TCP stream (Client.cpp): n_connect opens it,    *)
(* n_receieve cuts what recv() returns into messages, and n_send hands a   *)
(* message to send() in parts.  TCP keeps the bytes in order and cuts the  *)
(* stream anywhere.  A byte is its place in the stream; what a misplaced   *)
(* header decodes to is left open.                                         *)
(***************************************************************************)
EXTENDS Integers, Sequences

CONSTANTS Sizes,            \* _size of each message the server sends, in order
          Syncs,            \* those that are sync messages of step 0, which n_send answers
          PREAMBLE,         \* bytes of a header: _id and _size
          BufLength,        \* buf_length
          ReplySize,        \* size() of the answer
          SizeRange,        \* 2^64: size_t
          HeaderRange,      \* 2^32: uint32_t
          StraySizes,       \* what the _size of a misplaced header may be
          MaxHandled,       \* bound on the messages handed on: a stray size may loop for ever
          MaxErrors         \* bound on the errors of send() for one message

ASSUME SizesAssumption ==
    /\ Sizes \in Seq(Nat \ {0}) /\ PREAMBLE \in Nat \ {0, 1}
    /\ Syncs \subseteq DOMAIN Sizes
    /\ BufLength \in Nat /\ ReplySize \in Nat /\ MaxErrors \in Nat /\ MaxHandled \in Nat
    /\ SizeRange \in Nat /\ SizeRange > 2 * ReplySize
    /\ HeaderRange \in Nat \ {0} /\ \A m \in DOMAIN Sizes : PREAMBLE + Sizes[m] < HeaderRange
    /\ StraySizes \subseteq 0 .. HeaderRange - 1

Junk == 0       \* a byte of the buffer that recv() did not return, or a byte beyond the buffer

\* Message::PREAMBLE + size, in 32 bits.
Total(size) == (PREAMBLE + size) % HeaderRange

VARIABLES connected,        \* connect() succeeded
          stream,           \* the place of the first byte of each message the server has
                            \* sent, and of the byte after the last
          taken,            \* bytes of the stream that recv() has returned
          buf,              \* the received part of the buffer
          remaining,        \* bytes_remaining
          done,             \* bytes_handled
          ptr,              \* where the body of the next message is taken from
          header,           \* id and size as decoded; message 0 is a misplaced header
          closing,          \* recv() returned 0 or an error
          pc,               \* "connect", "recv", "loop", "send", "ended"
          handled,          \* history: the messages handed to receive_message
          whole,            \* history: the messages one recv() returned from end to end
          total, left,      \* total_sent and bytes_left of n_send
          out,              \* the bytes of the answer given to send(), by their place in it
          errors            \* its errors while the answer was sent

receiveVars == <<taken, buf, remaining, done, ptr, header, closing, whole>>
sendVars == <<total, left, out, errors>>
vars == <<connected, stream, receiveVars, pc, handled, sendVars>>

posted == Len(stream) - 1       \* messages the server has sent
Messages == 1 .. posted
Start(m) == stream[m]
End(m) == stream[m + 1]

Init ==
    /\ connected = FALSE /\ stream = <<1>> /\ taken = 0
    /\ buf = <<>> /\ remaining = 0 /\ done = 0 /\ ptr = 0
    /\ header = [msg |-> 0, size |-> 0]
    /\ closing = FALSE /\ whole = {}
    /\ pc = "connect" /\ handled = <<>>
    /\ total = 0 /\ left = 0 /\ out = <<>> /\ errors = 0

\* n_connect, then the receive thread starts, also when connect() failed and the socket
\* was closed.
Connect ==
    /\ pc = "connect"
    /\ connected' \in BOOLEAN
    /\ pc' = "recv"
    /\ UNCHANGED <<stream, receiveVars, handled, sendVars>>

\* getaddrinfo() found no address: connect() is given the fields of a null pointer.
NoAddress ==
    /\ pc = "connect"
    /\ pc' = "ended"
    /\ UNCHANGED <<connected, stream, receiveVars, handled, sendVars>>

n_connect == Connect \/ NoAddress

ServerSend ==
    /\ connected /\ posted < Len(Sizes)
    /\ stream' = Append(stream, End(posted) + PREAMBLE + Sizes[posted + 1])
    /\ UNCHANGED <<connected, receiveVars, pc, handled, sendVars>>

-----------------------------------------------------------------------------
(* n_receieve. *)

\* The buffer's bytes from place p (the first is 0) on.
Bytes(b, p, n) == [i \in 1 .. n |-> IF p + i \in DOMAIN b THEN b[p + i] ELSE Junk]

\* The n bytes from place p on are those of the stream from place s on.
Holds(b, p, n, s) == \A i \in 1 .. n : p + i \in DOMAIN b /\ b[p + i] = s + i - 1

\* What the header at place p decodes to.
HeadersAt(b, p) ==
    LET here == {m \in Messages : Holds(b, p, PREAMBLE, Start(m))}
    IN  IF here # {} THEN {[msg |-> m, size |-> Sizes[m]] : m \in here}
        ELSE {[msg |-> 0, size |-> n] : n \in StraySizes}

\* recv() returns n more bytes, 0 or an error (-1).  Few bytes after few are dropped:
\* the next recv() overwrites them.
Received(b, n) ==
    /\ IF n > PREAMBLE \/ remaining > PREAMBLE
       THEN /\ buf' = b
            /\ remaining' = remaining + n
            /\ done' = 0
            /\ ptr' = PREAMBLE
            /\ header' \in HeadersAt(b, 0)
            /\ pc' = "loop"
       ELSE /\ pc' = (IF n > 0 THEN "recv" ELSE "ended")
            /\ UNCHANGED <<buf, remaining, done, ptr, header>>
    /\ closing' = (n <= 0)
    /\ UNCHANGED <<connected, stream, handled, sendVars>>

\* Variant of Recv: recv() may fill the whole length of the buffer after what is left.
RecvFullLength(n) ==
    /\ pc = "recv" /\ connected
    /\ n <= BufLength
    /\ taken + n < End(posted)
    /\ taken' = taken + n
    /\ whole' = whole \cup {m \in Messages : taken < Start(m) /\ End(m) <= taken + n + 1}
    /\ Received(SubSeq(buf, 1, remaining) \o [i \in 1 .. n |-> taken + i], n)

Recv(n) ==
    /\ pc = "recv" /\ connected
    /\ n <= BufLength - remaining
    /\ taken + n < End(posted)
    /\ taken' = taken + n
    /\ whole' = whole \cup {m \in Messages : taken < Start(m) /\ End(m) <= taken + n + 1}
    /\ Received(SubSeq(buf, 1, remaining) \o [i \in 1 .. n |-> taken + i], n)

\* The connection is closed or fails, there is none, or no room is left in the buffer.
RecvEnds(n) ==
    /\ pc = "recv" /\ (connected \/ n = -1)
    /\ Received(buf, n)
    /\ UNCHANGED <<taken, whole>>

\* The body that receive_message(ptr, id, size) is given is the one that was sent.
Intact == header.msg # 0 /\ Holds(buf, ptr, header.size, Start(header.msg) + PREAMBLE)

\* A size that wraps leaves the loop at the same header, for ever.
Endless == Total(header.size) = 0

\* Variant of Handle: the header is not counted as handled.
HandleSizeOnly ==
    /\ pc = "loop" /\ remaining >= Total(header.size) /\ Len(handled) < MaxHandled
    /\ handled' = Append(handled, [msg |-> header.msg, first |-> done = 0, intact |-> Intact])
    /\ pc' \in (IF ~Intact THEN {"send", "loop", "ended"}
                ELSE IF header.msg \in Syncs THEN {"send"} ELSE {"loop"})
    /\ done' = done + header.size
    /\ remaining' = remaining - header.size
    /\ ptr' = done' + 1
    /\ header' \in HeadersAt(buf, done')
    /\ total' = 0 /\ left' = ReplySize /\ out' = <<>> /\ errors' = 0
    /\ UNCHANGED <<connected, stream, taken, buf, closing, whole>>

\* receive_message(ptr, id, size), and the next header, which is read also when nothing or
\* too little is left, from beyond what was received or beyond the buffer: ptr is left one
\* byte past its start.  A sync message of step 0 is answered; what a misplaced header or a
\* misplaced body makes of the message is open, and its constructor may throw.
Handle ==
    /\ pc = "loop" /\ remaining >= Total(header.size) /\ Len(handled) < MaxHandled
    /\ handled' = Append(handled, [msg |-> header.msg, first |-> done = 0, intact |-> Intact])
    /\ pc' \in (IF ~Intact THEN {"send", "loop", "ended"}
                ELSE IF header.msg \in Syncs THEN {"send"} ELSE {"loop"})
    /\ done' = done + Total(header.size)
    /\ remaining' = remaining - Total(header.size)
    /\ ptr' = done' + 1
    /\ header' \in (IF Endless THEN {header} ELSE HeadersAt(buf, done'))
    /\ total' = 0 /\ left' = ReplySize /\ out' = <<>> /\ errors' = 0
    /\ UNCHANGED <<connected, stream, taken, buf, closing, whole>>

\* Variant of Move: what is left stays where it is.
MoveNothing ==
    /\ pc = "loop" /\ remaining < Total(header.size)
    /\ pc' = (IF closing THEN "ended" ELSE "recv")
    /\ UNCHANGED <<connected, stream, receiveVars, handled, sendVars>>

\* memcpy(buf, ptr, bytes_remaining): ptr is past the first byte of what is left, or past
\* the header when not even one message was complete, so as many bytes are read beyond
\* what was received, and beyond the buffer when it is full.
Move ==
    /\ pc = "loop" /\ remaining < Total(header.size)
    /\ buf' = Bytes(buf, ptr, remaining)
    /\ pc' = (IF closing THEN "ended" ELSE "recv")
    /\ UNCHANGED <<connected, stream, taken, remaining, done, ptr, header, closing, whole,
                   handled, sendVars>>

-----------------------------------------------------------------------------
(* n_send. *)

\* Variant of SendPart: bytes_left stays.
SendPartOfAll(n) ==
    /\ pc = "send" /\ total < left /\ n <= left
    /\ out' = out \o [i \in 1 .. n |-> total + i - 1]
    /\ total' = total + n
    /\ UNCHANGED <<connected, stream, receiveVars, pc, handled, left, errors>>

\* send() takes n of the bytes_left bytes at data + total_sent.
SendPart(n) ==
    /\ pc = "send" /\ total < left /\ n <= left
    /\ out' = out \o [i \in 1 .. n |-> total + i - 1]
    /\ total' = (total + n) % SizeRange
    /\ left' = (left - n) % SizeRange
    /\ UNCHANGED <<connected, stream, receiveVars, pc, handled, errors>>

\* send() fails: SOCKET_ERROR, -1, is added all the same.
SendFails ==
    /\ pc = "send" /\ total < left /\ errors < MaxErrors
    /\ total' = (total - 1) % SizeRange
    /\ left' = (left + 1) % SizeRange
    /\ errors' = errors + 1
    /\ UNCHANGED <<connected, stream, receiveVars, pc, handled, out>>

\* n_send returns to the receive loop.
SendReturns ==
    /\ pc = "send" /\ total >= left
    /\ pc' = "loop"
    /\ UNCHANGED <<connected, stream, receiveVars, handled, sendVars>>

n_receieve ==
    \/ \E n \in 1 .. BufLength : Recv(n)
    \/ \E n \in {-1, 0} : RecvEnds(n)
    \/ Handle \/ Move

n_send == (\E n \in 1 .. ReplySize : SendPart(n)) \/ SendFails \/ SendReturns

Next == n_connect \/ ServerSend \/ n_receieve \/ n_send

Spec == Init /\ [][Next]_vars

-----------------------------------------------------------------------------
\* Up to where in the buffer the loop reads next: the next header, or what is moved.
ReadsUpTo ==
    IF remaining >= Total(header.size) THEN done + Total(header.size) + PREAMBLE
    ELSE ptr + remaining

\* The counters stay in their ranges whatever the headers decode to, so recv() never
\* writes beyond the buffer.  The loop reads beyond it, but never more than a header.
TypeOK ==
    /\ posted \in 0 .. Len(Sizes)
    /\ taken \in 0 .. End(posted) - 1
    /\ pc \in {"connect", "recv", "loop", "send", "ended"}
    /\ remaining \in 0 .. BufLength /\ done + remaining <= BufLength
    /\ pc = "loop" => ReadsUpTo <= BufLength + PREAMBLE
    /\ total \in 0 .. SizeRange - 1 /\ left \in 0 .. SizeRange - 1

\* As long as every recv() ended between two messages, each message that arrived is
\* handed on once and in order, by its own header, and the first message of a recv() with
\* the body that was sent.  Nothing else is handed on, unless the header that is read after
\* the last message has a size that wraps.
AlignedWhileUncut ==
    (\A m \in Messages : Start(m) <= taken => m \in whole) =>
        \A i \in DOMAIN handled :
            \/ /\ handled[i].msg = i
               /\ handled[i].first => handled[i].intact
            \/ handled[i].msg = 0 /\ Endless

\* However the stream is cut, and whatever the misplaced headers decode to, a message is
\* handed on as it was sent at most once and not before an earlier one.
IntactInOrder ==
    LET intact == {i \in DOMAIN handled : handled[i].intact} IN
    \A i, j \in intact : i < j => handled[i].msg < handled[j].msg

\* What n_send gives to send() is never beyond the end of the message, errors included;
\* without an error it is a prefix of the message, of at least half of it when n_send
\* returns: the loop may leave the rest unsent after a partial send.
AnswerIsPrefix ==
    /\ \A i \in DOMAIN out : out[i] < ReplySize
    /\ errors = 0 =>
         /\ out = [i \in DOMAIN out |-> i - 1]
         /\ (out # <<>> /\ pc # "send") => 2 * Len(out) >= ReplySize
=============================================================================
