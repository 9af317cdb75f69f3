------------------------------- MODULE Messaging -------------------------------
(***************************************************************************)
(* The framing of messages (imc-test/messaging.cc): sendMessage puts a NaCl *)
(* header, a CoCl2 header and the parts it is given into one packet;         *)
(* receiveCoCl2Message reads a packet into the buffer its thread uses for    *)
(* every message, checks the headers and says where the payload begins and   *)
(* how long it is.                                                          *)
(*                                                                         *)
(* A packet is a sequence of words.  A header is two words: its protocol     *)
(* version, then for the NaCl header the words of descriptor data that       *)
(* follow it, and for the CoCl2 header a word nobody reads; a part is one    *)
(* word.  Words are unsigned and twice as wide as an int's positive half,    *)
(* lengths and offsets are ints.  Descriptors are in module Registration.    *)
(***************************************************************************)
EXTENDS Integers, Sequences

CONSTANTS
    NaClVersion, CoCl2Version,   \* the protocol versions of the two headers
    Value,          \* words of which payloads are made
    Announced,      \* descriptor_data_bytes of the packets of the sandbox
    Leftover,       \* words the buffer may hold before its first message
    IntHalf,        \* ints are -IntHalf..IntHalf-1 (2^31)
    MaxSendIovec,   \* parts sendMessage has room for (8)
    BuffLen,        \* words of the receive buffer
    MaxPayload,     \* bound: words after the NaCl header the sandbox sends
    MaxQueued       \* bound: packets in the socket

NaClHeaderSize == 2
CoCl2HeaderSize == 2
Word == 0..(2 * IntHalf - 1)

ASSUME MessagingAssumption ==
    /\ {IntHalf, MaxSendIovec, BuffLen, MaxPayload, MaxQueued} \subseteq Nat
    /\ BuffLen >= NaClHeaderSize + CoCl2HeaderSize
    /\ BuffLen + CoCl2HeaderSize < IntHalf   \* 1024 and 2048, of 2^31
    /\ {NaClVersion, CoCl2Version} \cup Value \cup Announced \cup Leftover
         \subseteq Word

VARIABLES
    socket,       \* packets on their way, oldest first, with the parts that
                  \* sendMessage found for them, behind a CoCl2 header or not
    closed,       \* the other end has been closed
    sending,      \* a thread is in the loop of sendMessage
    with_cocl2,   \* include_cocl2_header
    args,         \* the parts va_arg has returned to it
    count,        \* of the loop
    cursor,       \* entries of `message' filled
    message,      \* the words these entries lead to
    buff,         \* the receive buffer
    from,         \* the packet last received
    skip,         \* bytes_to_skip
    result        \* what the last receiveCoCl2Message returned

sendVars == <<sending, with_cocl2, args, count, cursor, message>>
recvVars == <<buff, from, skip, result>>
vars == <<socket, closed, sendVars, recvVars>>

-------------------------------------------------------------------------------
Error == -1

\* getNaClHeader() and getCoCl2Header().
NaClHeader == <<NaClVersion, 0>>
CoCl2Header == <<CoCl2Version, 0>>

Lesser(a, b) == IF a <= b THEN a ELSE b

\* What an int gets of a number that is no further than one turn outside.
Narrow(x) ==
    IF x >= IntHalf THEN x - 2 * IntHalf
    ELSE IF x < -IntHalf THEN x + 2 * IntHalf ELSE x

(* Decisions of the code, each with a form in which it could go wrong.        *)

\* There is an entry of `message' for one more part.
HasRoom_Late(n) == n <= MaxSendIovec
HasRoom(n) == n < MaxSendIovec

\* The words of the headers sendMessage begins with.
SentHeaders_Swapped(cocl2) == (IF cocl2 THEN CoCl2Header ELSE <<>>) \o NaClHeader
SentHeaders(cocl2) == NaClHeader \o (IF cocl2 THEN CoCl2Header ELSE <<>>)

\* bytes_to_skip, as receiveNaClMessage leaves it: a size_t sum put in an int.
SkipNaCl(b) == Narrow(NaClHeaderSize + b[2])

\* What receiveNaClMessage returns for a packet of this length.
NaClLength(b, len) == len - SkipNaCl(b)

\* What receiveCoCl2Message makes of that.
CoCl2Length_Whole(len) == Narrow(len)
CoCl2Length(len) == Narrow(len - CoCl2HeaderSize)

-------------------------------------------------------------------------------
(* sendMessage.  Its locals are cleared when it returns.                     *)

\* The entries for the headers are filled.
StartSend ==
    /\ ~sending
    /\ sending' = TRUE
    /\ with_cocl2' \in BOOLEAN
    /\ cursor' = IF with_cocl2' THEN 2 ELSE 1
    /\ message' = SentHeaders(with_cocl2')
    /\ UNCHANGED <<socket, closed, args, count, recvVars>>

\* One turn of the loop: va_arg returns a part, and there is room for it.
TakePart ==
    /\ sending
    /\ HasRoom(count)
    /\ \E v \in Value :
         /\ args' = Append(args, v)
         /\ message' = Append(message, v)
    /\ cursor' = cursor + 1
    /\ count' = count + 1
    /\ UNCHANGED <<socket, closed, sending, with_cocl2, recvVars>>

\* What va_arg may have returned when the loop ends: a NULL, or a part too many.
\* The arguments of sendAlgSharedMem have no NULL at their end: what lies behind
\* them is taken for parts until there is one.
LastArgs ==
    {args} \cup (IF HasRoom(count) THEN {} ELSE {Append(args, v) : v \in Value})

\* sendmsg: the packet goes into the socket, or the kernel refuses it.
FinishSend ==
    /\ sending
    /\ \/ /\ ~closed
          /\ Len(socket) < MaxQueued
          /\ \E parts \in LastArgs :
               socket' = Append(socket, [words |-> message, parts |-> parts,
                                         framed |-> with_cocl2])
       \/ UNCHANGED socket
    /\ sending' = FALSE
    /\ with_cocl2' = FALSE
    /\ args' = <<>>
    /\ count' = 0
    /\ cursor' = 0
    /\ message' = <<>>
    /\ UNCHANGED <<closed, recvVars>>

-------------------------------------------------------------------------------
(* The sandbox, whose runtime puts the NaCl header before the descriptor data *)
(* and what the nexe sends, under this or another protocol.  The descriptor   *)
(* data need not be as long as the header says.                              *)

\* A packet that sendMessage has not made.
Unmade(words) == [words |-> words, parts |-> <<>>, framed |-> FALSE]

Payload == UNION { [1..n -> {0, CoCl2Version}] : n \in 0..MaxPayload }

SandboxSend ==
    /\ ~closed
    /\ Len(socket) < MaxQueued
    /\ \E version \in {NaClVersion, 0}, d \in Announced, p \in Payload :
         socket' = Append(socket, Unmade(<<version, d>> \o p))
    /\ UNCHANGED <<closed, sendVars, recvVars>>

SandboxClose ==
    /\ ~closed
    /\ closed' = TRUE
    /\ UNCHANGED <<socket, sendVars, recvVars>>

-------------------------------------------------------------------------------
(* receiveCoCl2Message.                                                      *)

\* recvmsg: the packet goes to the front of the buffer, what is too much of it
\* is dropped, and the rest of the buffer keeps what it held.
Overlaid(b, packet) ==
    [i \in 1..BuffLen |-> IF i <= Len(packet) THEN packet[i] ELSE b[i]]

\* What may be read where a header is looked for, which can be outside the buffer:
\* a packet can end where the buffer ends, and bytes_to_skip be negative.
WordsAt(b, i) == IF i \in 1..BuffLen THEN {b[i]} ELSE {0, CoCl2Version}

\* The packet is read, the NaCl header checked, then the CoCl2 header.  The
\* end of the stream is a packet without words.  A difference that no int holds
\* is signed overflow, and may pass for negative or not.
ReceiveCoCl2Message ==
    /\ \/ /\ socket # <<>>
          /\ from' = Head(socket)
          /\ socket' = Tail(socket)
       \/ /\ socket = <<>> /\ closed
          /\ from' = Unmade(<<>>)
          /\ UNCHANGED socket
    /\ buff' = Overlaid(buff, from'.words)
    /\ LET length == NaClLength(buff', Lesser(Len(from'.words), BuffLen)) IN
       \/ /\ buff'[1] # NaClVersion
          /\ skip' = 0
          /\ result' = Error
       \/ /\ buff'[1] = NaClVersion
          /\ length < 0 \/ length >= IntHalf
          /\ skip' = SkipNaCl(buff')
          /\ result' = Narrow(length)
       \/ /\ buff'[1] = NaClVersion
          /\ length >= 0
          /\ \E version \in WordsAt(buff', SkipNaCl(buff') + 1) :
               \/ /\ version # CoCl2Version
                  /\ skip' = SkipNaCl(buff')
                  /\ result' = Error
               \/ /\ version = CoCl2Version
                  /\ skip' = Narrow(SkipNaCl(buff') + CoCl2HeaderSize)
                  /\ result' = CoCl2Length(length)
    /\ UNCHANGED <<closed, sendVars>>

-------------------------------------------------------------------------------
\* The buffer is a local variable that nothing initialises.
Init ==
    /\ socket = <<>>
    /\ closed = FALSE
    /\ sending = FALSE
    /\ with_cocl2 = FALSE
    /\ args = <<>>
    /\ count = 0
    /\ cursor = 0
    /\ message = <<>>
    /\ buff \in [1..BuffLen -> Leftover]
    /\ from = Unmade(<<>>)
    /\ skip = 0
    /\ result = Error

Next ==
    \/ StartSend
    \/ TakePart
    \/ FinishSend
    \/ SandboxSend
    \/ SandboxClose
    \/ ReceiveCoCl2Message

Spec == Init /\ [][Next]_vars

-------------------------------------------------------------------------------
(* Properties.                                                               *)

Cut(words) == SubSeq(words, 1, Lesser(Len(words), BuffLen))

\* A packet read by itself: where its payload begins, if it has both headers.
Headers(c) == NaClHeaderSize + c[2] + CoCl2HeaderSize

Framed(words) ==
    LET c == Cut(words) IN
    /\ Len(c) >= NaClHeaderSize
    /\ c[1] = NaClVersion
    /\ Len(c) >= Headers(c)
    /\ c[Headers(c) - CoCl2HeaderSize + 1] = CoCl2Version

PayloadOf(words) == LET c == Cut(words) IN SubSeq(c, Headers(c) + 1, Len(c))

Accepted == result >= 0
Delivered == SubSeq(buff, skip + 1, skip + result)

\* The descriptor data announced where receiveNaClMessage looks for it can be
\* skipped with an int (messaging.cc:73).
LengthFits == NaClHeaderSize + buff[2] < IntHalf

\* What is accepted, and what is then handed on, depends on the packet alone and
\* never on what an earlier, longer packet left in the buffer: a packet that ends
\* before or within its headers, or an end of the stream, is never taken for a
\* message (messaging.cc:64-76, 93-105), and every packet that has both headers
\* is accepted with its whole payload.  This is claimed of descriptor data whose
\* length fits an int; more makes bytes_to_skip wrap, and nothing is claimed.
OnlyOwnWords ==
    LengthFits =>
        /\ Accepted <=> Framed(from.words)
        /\ Accepted => skip + result <= Len(from.words)
        /\ Accepted => Delivered = PayloadOf(from.words)

\* What sendMessage frames is accepted, and its payload is the parts it was
\* given, in their order, up to the eighth (messaging.cc:141) and as far as they
\* fit the buffer of the receiver.
PartsArrive ==
    from.framed =>
        LET kept == SubSeq(from.parts, 1, Lesser(Len(from.parts), MaxSendIovec))
        IN  /\ Accepted
            /\ Delivered = SubSeq(kept, 1, Lesser(Len(kept),
                                BuffLen - NaClHeaderSize - CoCl2HeaderSize))

\* The loop of sendMessage stays within its vector however many parts it finds,
\* which with the missing NULL of runner.cc:314 is not for the caller to say
\* (messaging.cc:116-151).
IovecFits == cursor <= 2 + MaxSendIovec
===============================================================================
