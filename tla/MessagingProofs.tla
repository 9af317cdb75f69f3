---------------------------- MODULE MessagingProofs ----------------------------
(***************************************************************************)
(* Proofs about Messaging, for every size of the receive buffer, of the      *)
(* vector and of packets, and any contents.                                 *)
(***************************************************************************)
EXTENDS Messaging, SequenceTheorems, TLAPS

-------------------------------------------------------------------------------
(* Packets are sequences of words, of which each fits 32 bits.               *)

Packets == [words : Seq(Word), parts : Seq(Word), framed : BOOLEAN]

PacketInv ==
    /\ socket \in Seq(Packets)
    /\ from \in Packets
    /\ buff \in [1..BuffLen -> Word]
    /\ sending \in BOOLEAN /\ with_cocl2 \in BOOLEAN
    /\ args \in Seq(Word) /\ message \in Seq(Word)
    /\ count \in Nat /\ cursor \in Nat

LEMMA WordsAreNumbers ==
    /\ Word \subseteq Nat /\ 0 \in Word
    /\ NaClVersion \in Word /\ CoCl2Version \in Word
    /\ Value \subseteq Word /\ Announced \subseteq Word /\ Leftover \subseteq Word
  BY MessagingAssumption DEF Word, NaClHeaderSize, CoCl2HeaderSize

LEMMA Sizes ==
    /\ BuffLen \in Nat /\ BuffLen >= 4 /\ 1 \in 1..BuffLen /\ 2 \in 1..BuffLen
    /\ IntHalf \in Nat /\ BuffLen + 2 < IntHalf
    /\ MaxSendIovec \in Nat
  BY MessagingAssumption DEF NaClHeaderSize, CoCl2HeaderSize

LEMMA HeadersType ==
    ASSUME NEW cocl2 \in BOOLEAN
    PROVE  SentHeaders(cocl2) \in Seq(Word)
  <1>1. NaClHeader \in Seq(Word) /\ CoCl2Header \in Seq(Word) /\ <<>> \in Seq(Word)
    BY WordsAreNumbers DEF NaClHeader, CoCl2Header
  <1> QED
    BY <1>1, ConcatProperties DEF SentHeaders

\* What the sandbox sends is a packet.
LEMMA SandboxPacketType ==
    ASSUME NEW version \in {NaClVersion, 0}, NEW d \in Announced, NEW p \in Payload
    PROVE  <<version, d>> \o p \in Seq(Word)
  <1>1. <<version, d>> \in Seq(Word) /\ p \in Seq(Word)
    BY WordsAreNumbers, MessagingAssumption DEF Payload
  <1> QED
    BY <1>1, ConcatProperties

-------------------------------------------------------------------------------
(* One packet in a buffer that held another.                                 *)

\* The front of the buffer is the packet, as far as it fits.
LEMMA CutIsInBuffer ==
    ASSUME NEW w \in Seq(Word), NEW b \in [1..BuffLen -> Word]
    PROVE  LET c == Cut(w)  n == Lesser(Len(w), BuffLen) IN
           /\ Overlaid(b, w) \in [1..BuffLen -> Word]
           /\ c \in Seq(Word)
           /\ Len(c) = n /\ n \in 0..BuffLen /\ n <= Len(w)
           /\ \A i \in 1..n : c[i] = Overlaid(b, w)[i]
  <1> DEFINE n == Lesser(Len(w), BuffLen)
  <1>1. Len(w) \in Nat /\ BuffLen \in Nat
    BY LenProperties, Sizes
  <1>2. n \in 0..BuffLen /\ n <= Len(w)
    BY <1>1 DEF Lesser
  <1>3. \A i \in 1..Len(w) : w[i] \in Word
    BY ElementOfSeq
  <1>4. Overlaid(b, w) \in [1..BuffLen -> Word]
    BY <1>1, <1>3 DEF Overlaid
  <1>5. /\ Cut(w) \in Seq(Word) /\ Len(Cut(w)) = n
        /\ \A i \in 1..n : Cut(w)[i] = w[i]
    <2> HIDE DEF n
    <2>1. \A i \in 1..n : w[i] \in Word
      BY <1>1, <1>2, <1>3
    <2>2. SubSeq(w, 1, n) \in Seq(Word) /\ Len(SubSeq(w, 1, n)) = n
          /\ \A i \in 1..n : SubSeq(w, 1, n)[i] = w[i]
      BY <1>2, <2>1, SubSeqProperties
    <2> QED
      BY <2>2 DEF Cut, n
  <1>6. \A i \in 1..n : Overlaid(b, w)[i] = w[i]
    BY <1>1, <1>2 DEF Overlaid
  <1> QED
    BY <1>2, <1>4, <1>5, <1>6

\* A stretch of the buffer within the packet is the same stretch of the packet.
LEMMA SameStretch ==
    ASSUME NEW w \in Seq(Word), NEW b \in [1..BuffLen -> Word],
           NEW k \in Nat, k <= Len(Cut(w))
    PROVE  SubSeq(Overlaid(b, w), k + 1, Len(Cut(w)))
             = SubSeq(Cut(w), k + 1, Len(Cut(w)))
  <1> DEFINE c == Cut(w)  o == Overlaid(b, w)  n == Len(Cut(w))
             m == n - (k + 1) + 1
  <1>1. /\ n \in Nat /\ n <= BuffLen /\ BuffLen \in Nat
        /\ o \in [1..BuffLen -> Word]
        /\ \A i \in 1..n : c[i] = o[i]
    <2>1. /\ o \in [1..BuffLen -> Word]
          /\ n = Lesser(Len(w), BuffLen)
          /\ Lesser(Len(w), BuffLen) \in 0..BuffLen
          /\ \A i \in 1..Lesser(Len(w), BuffLen) : c[i] = o[i]
      BY CutIsInBuffer
    <2> QED
      BY <2>1, Sizes
  <1> HIDE DEF c, o, n
  <1>2. \A i \in (k + 1)..n : o[i] \in Word /\ c[i] = o[i]
    BY <1>1
  <1>3. /\ k + 1 \in Int /\ n \in Int
        /\ \A i \in (k + 1)..n : o[i] \in Word
        /\ \A i \in (k + 1)..n : c[i] \in Word
    BY <1>1, <1>2
  <1>4. /\ SubSeq(o, k + 1, n) \in Seq(Word)
        /\ Len(SubSeq(o, k + 1, n)) = IF k + 1 <= n THEN m ELSE 0
        /\ \A i \in 1..m : SubSeq(o, k + 1, n)[i] = o[k + 1 + i - 1]
    BY <1>3, SubSeqProperties
  <1>5. /\ SubSeq(c, k + 1, n) \in Seq(Word)
        /\ Len(SubSeq(c, k + 1, n)) = IF k + 1 <= n THEN m ELSE 0
        /\ \A i \in 1..m : SubSeq(c, k + 1, n)[i] = c[k + 1 + i - 1]
    BY <1>3, SubSeqProperties
  <1>6. \A i \in 1..m : o[k + 1 + i - 1] = c[k + 1 + i - 1]
    BY <1>1, <1>2
  <1>7. \A i \in 1..Len(SubSeq(o, k + 1, n)) :
           SubSeq(o, k + 1, n)[i] = SubSeq(c, k + 1, n)[i]
    BY <1>1, <1>4, <1>5, <1>6
  <1>8. SubSeq(o, k + 1, n) = SubSeq(c, k + 1, n)
    BY <1>4, <1>5, <1>7, SeqEqual
  <1> QED
    BY <1>8 DEF c, o, n

-------------------------------------------------------------------------------
(* One call of receiveCoCl2Message.                                          *)

LEMMA NarrowKeeps ==
    ASSUME NEW x \in Int, -IntHalf <= x, x < IntHalf
    PROVE  Narrow(x) = x
  BY Sizes DEF Narrow

\* What an announced length that fits makes of offsets and lengths.
LEMMA NothingWraps ==
    ASSUME NEW b \in [1..BuffLen -> Word], NEW n \in 0..BuffLen,
           NaClHeaderSize + b[2] < IntHalf
    PROVE  LET k == NaClHeaderSize + b[2] IN
           /\ b[2] \in Nat /\ k \in Nat
           /\ SkipNaCl(b) = k
           /\ NaClLength(b, n) = n - k
           /\ n - k < IntHalf
           /\ Narrow(n - k) = n - k
           /\ k <= n => /\ Narrow(k + CoCl2HeaderSize) = k + CoCl2HeaderSize
                        /\ CoCl2Length(n - k) = n - k - CoCl2HeaderSize
  <1>1. /\ BuffLen \in Nat /\ BuffLen >= 4 /\ IntHalf \in Nat
        /\ BuffLen + 2 < IntHalf
    BY Sizes
  <1>2. b[2] \in Nat
    BY Sizes, WordsAreNumbers
  <1> DEFINE k == 2 + b[2]
  <1>3. k \in Nat /\ k < IntHalf
    BY <1>2 DEF NaClHeaderSize
  <1>4. SkipNaCl(b) = k
    BY <1>1, <1>3, NarrowKeeps DEF SkipNaCl, NaClHeaderSize
  <1>5. NaClLength(b, n) = n - k
    BY <1>4 DEF NaClLength
  <1> HIDE DEF k
  <1>6. n - k < IntHalf /\ Narrow(n - k) = n - k
    <2>1. n - k \in Int /\ -IntHalf <= n - k /\ n - k < IntHalf
      BY <1>1, <1>3
    <2> QED
      BY <2>1, NarrowKeeps
  <1>7. ASSUME k <= n
        PROVE  Narrow(k + 2) = k + 2 /\ CoCl2Length(n - k) = n - k - 2
    <2>1. k + 2 \in Int /\ -IntHalf <= k + 2 /\ k + 2 < IntHalf
      BY <1>1, <1>3, <1>7
    <2>2. n - k - 2 \in Int /\ -IntHalf <= n - k - 2 /\ n - k - 2 < IntHalf
      BY <1>1, <1>3, <1>7
    <2>3. Narrow(n - k - 2) = n - k - 2
      BY <2>2, NarrowKeeps
    <2> QED
      BY <2>1, <2>3, NarrowKeeps DEF CoCl2Length, CoCl2HeaderSize
  <1> QED
    BY <1>2, <1>3, <1>4, <1>5, <1>6, <1>7 DEF k, NaClHeaderSize, CoCl2HeaderSize

LEMMA ReceiveOwnWords ==
    ASSUME PacketInv, ReceiveCoCl2Message
    PROVE  OnlyOwnWords'
  <1> DEFINE w == from'.words
             c == Cut(w)
             n == Lesser(Len(w), BuffLen)
             k == NaClHeaderSize + buff'[2]
             length == NaClLength(buff', n)
             Own == /\ result' >= 0 <=> Framed(w)
                    /\ result' >= 0 => skip' + result' <= Len(w)
                    /\ result' >= 0 => SubSeq(buff', skip' + 1, skip' + result')
                                         = PayloadOf(w)
  <1> SUFFICES ASSUME k < IntHalf PROVE Own
    BY DEF OnlyOwnWords, Accepted, Delivered, LengthFits
  <1>1. /\ w \in Seq(Word) /\ buff \in [1..BuffLen -> Word]
        /\ buff' = Overlaid(buff, w)
    <2>1. from' \in Packets
      <3>1. CASE socket # <<>> /\ from' = Head(socket)
        BY <3>1, HeadTailProperties DEF PacketInv
      <3>2. CASE from' = Unmade(<<>>)
        BY <3>2 DEF Unmade, Packets
      <3> QED
        BY <3>1, <3>2 DEF ReceiveCoCl2Message
    <2> QED
      BY <2>1 DEF PacketInv, Packets, ReceiveCoCl2Message
  <1>2. /\ buff' \in [1..BuffLen -> Word]
        /\ Len(c) = n /\ n \in 0..BuffLen /\ n <= Len(w) /\ Len(w) \in Nat
        /\ \A i \in 1..n : c[i] = buff'[i] /\ c[i] \in Word
    BY <1>1, CutIsInBuffer, LenProperties, ElementOfSeq
  <1>3. BuffLen \in Nat /\ BuffLen >= 4 /\ IntHalf \in Nat
    BY Sizes
  <1>4. /\ buff'[2] \in Nat /\ k = 2 + buff'[2]
        /\ SkipNaCl(buff') = k
        /\ length = n - k /\ n - k < IntHalf
        /\ Narrow(length) = n - k
        /\ k <= n => /\ Narrow(SkipNaCl(buff') + CoCl2HeaderSize) = k + 2
                     /\ CoCl2Length(length) = n - k - 2
    BY <1>2, NothingWraps DEF NaClHeaderSize, CoCl2HeaderSize
  <1>5. Framed(w) <=>
           /\ n >= 2
           /\ buff'[1] = NaClVersion
           /\ n >= k + 2
           /\ c[k + 1] = CoCl2Version
    <2> HIDE DEF w, n, c, k
    <2>1. n >= 2 => c[1] = buff'[1] /\ c[2] = buff'[2]
      BY <1>2, <1>3
    <2>2. n >= 2 => Headers(c) = k + 2
                    /\ Headers(c) - CoCl2HeaderSize + 1 = k + 1
      BY <1>3, <1>4, <2>1 DEF Headers, NaClHeaderSize, CoCl2HeaderSize
    <2>3. Framed(w) <=>
            /\ n >= 2 /\ c[1] = NaClVersion /\ n >= Headers(c)
            /\ c[Headers(c) - CoCl2HeaderSize + 1] = CoCl2Version
      BY <1>2 DEF Framed, c, NaClHeaderSize
    <2> QED
      BY <2>1, <2>2, <2>3
  <1> HIDE DEF w, c, n, k, length
  <1>6. CASE ~(result' >= 0) /\ ~Framed(w)
    BY <1>6
  <1>7. CASE /\ Framed(w)
             /\ skip' = k + 2
             /\ result' = n - k - 2
    <2>1. /\ skip' \in Nat /\ skip' <= n /\ result' >= 0
          /\ skip' + result' = n
      BY <1>2, <1>3, <1>4, <1>5, <1>7
    <2>2. SubSeq(buff', skip' + 1, n) = SubSeq(c, skip' + 1, n)
      BY <1>1, <1>2, <2>1, SameStretch DEF c
    <2>3. Headers(c) = skip'
      BY <1>2, <1>4, <1>5, <1>7 DEF Headers, NaClHeaderSize, CoCl2HeaderSize
    <2>4. SubSeq(buff', skip' + 1, skip' + result') = PayloadOf(w)
      BY <1>2, <2>1, <2>2, <2>3 DEF PayloadOf, c
    <2> QED
      BY <1>2, <1>7, <2>1, <2>4
  <1>8. CASE buff'[1] # NaClVersion /\ result' = Error
    BY <1>5, <1>6, <1>8 DEF Error
  <1>9. CASE (length < 0 \/ length >= IntHalf) /\ result' = Narrow(length)
    <2>1. n - k < 0 /\ result' = n - k
      BY <1>2, <1>4, <1>9, Sizes
    <2> QED
      BY <1>2, <1>4, <1>5, <1>6, <2>1
  <1>10. ASSUME length >= 0,
                NEW version \in WordsAt(buff', SkipNaCl(buff') + 1),
                version # CoCl2Version, result' = Error
         PROVE  Own
    <2>1. n >= k + 2 => version = c[k + 1]
      BY <1>2, <1>3, <1>4, <1>10 DEF WordsAt
    <2> QED
      BY <1>5, <1>6, <1>10, <2>1 DEF Error
  <1>11. ASSUME buff'[1] = NaClVersion, length >= 0,
                NEW version \in WordsAt(buff', SkipNaCl(buff') + 1),
                version = CoCl2Version,
                skip' = Narrow(SkipNaCl(buff') + CoCl2HeaderSize),
                result' = CoCl2Length(length)
         PROVE  Own
    <2>1. k <= n /\ n \in Nat /\ k \in Nat
      BY <1>2, <1>3, <1>4, <1>11
    <2>2. skip' = k + 2 /\ result' = n - k - 2
      BY <1>4, <1>11, <2>1
    <2>3. n >= k + 2 => c[k + 1] = CoCl2Version
      BY <1>2, <1>3, <1>4, <1>11 DEF WordsAt
    <2>4. n >= 2
      BY <1>4, <2>1
    <2> QED
      BY <1>5, <1>6, <1>7, <1>11, <2>1, <2>2, <2>3, <2>4
  <1> QED
    <2>1. \/ buff'[1] # NaClVersion /\ result' = Error
          \/ (length < 0 \/ length >= IntHalf) /\ result' = Narrow(length)
          \/ /\ buff'[1] = NaClVersion
             /\ length >= 0
             /\ \E version \in WordsAt(buff', SkipNaCl(buff') + 1) :
                  \/ version # CoCl2Version /\ result' = Error
                  \/ /\ version = CoCl2Version
                     /\ skip' = Narrow(SkipNaCl(buff') + CoCl2HeaderSize)
                     /\ result' = CoCl2Length(length)
      BY DEF ReceiveCoCl2Message, length, n, w
    <2> QED
      BY <2>1, <1>8, <1>9, <1>10, <1>11

-------------------------------------------------------------------------------
(* The loop of sendMessage.                                                  *)

\* The parts of a packet for which sendMessage has room.
Kept(parts) == SubSeq(parts, 1, Lesser(Len(parts), MaxSendIovec))

\* Each turn of the loop fills an entry, with the part it takes.
LoopInv ==
    IF sending
    THEN /\ count = Len(args) /\ count <= MaxSendIovec
         /\ cursor = (IF with_cocl2 THEN 2 ELSE 1) + count
         /\ message = SentHeaders(with_cocl2) \o args
    ELSE args = <<>> /\ count = 0 /\ cursor = 0

\* When the loop ends, what has been taken are the parts there was room for.
LEMMA LoopTakesKept ==
    ASSUME PacketInv, LoopInv, sending, NEW parts \in LastArgs
    PROVE  parts \in Seq(Word) /\ Kept(parts) = args
  <1>1. /\ args \in Seq(Word) /\ Len(args) \in Nat /\ Len(args) <= MaxSendIovec
        /\ MaxSendIovec \in Nat /\ count = Len(args)
        /\ \A i \in 1..Len(args) : args[i] \in Word
    BY Sizes, LenProperties, ElementOfSeq DEF PacketInv, LoopInv
  <1>2. ASSUME NEW p \in Seq(Word), Lesser(Len(p), MaxSendIovec) = Len(args),
               \A i \in 1..Len(args) : p[i] = args[i]
        PROVE  Kept(p) = args
    <2>1. \A i \in 1..Len(args) : p[i] \in Word
      BY <1>1, <1>2
    <2>2. /\ SubSeq(p, 1, Len(args)) \in Seq(Word)
          /\ Len(SubSeq(p, 1, Len(args))) = Len(args)
          /\ \A i \in 1..Len(args) : SubSeq(p, 1, Len(args))[i] = p[i]
      BY <1>1, <2>1, SubSeqProperties
    <2>3. SubSeq(p, 1, Len(args)) = args
      BY <1>1, <1>2, <2>2, SeqEqual
    <2> QED
      BY <1>2, <2>3 DEF Kept
  <1>3. CASE parts = args
    BY <1>1, <1>2, <1>3 DEF Lesser
  <1>4. ASSUME NEW v \in Value, parts = Append(args, v), ~HasRoom(count)
        PROVE  parts \in Seq(Word) /\ Kept(parts) = args
    <2>1. Len(args) = MaxSendIovec
      BY <1>1, <1>4 DEF HasRoom
    <2>2. /\ parts \in Seq(Word) /\ Len(parts) = Len(args) + 1
          /\ \A i \in 1..Len(args) : parts[i] = args[i]
      BY <1>1, <1>4, WordsAreNumbers, AppendProperties
    <2>3. Lesser(Len(parts), MaxSendIovec) = Len(args)
      BY <1>1, <2>1, <2>2 DEF Lesser
    <2> QED
      BY <1>2, <2>2, <2>3
  <1> QED
    BY <1>1, <1>3, <1>4 DEF LastArgs

\* A packet said to be framed begins with the headers and goes on with its parts.
Made(packet) ==
    packet.framed => packet.words = SentHeaders(TRUE) \o Kept(packet.parts)

MadeInv == Made(from) /\ \A i \in 1..Len(socket) : Made(socket[i])

\* The front of the buffer is the packet received last.
FrontInv == \A i \in 1..Len(Cut(from.words)) : buff[i] = Cut(from.words)[i]

FramingInv == PacketInv /\ LoopInv /\ MadeInv /\ FrontInv /\ OnlyOwnWords

-------------------------------------------------------------------------------
LEMMA FramingInit == Init => FramingInv
  <1> SUFFICES ASSUME Init PROVE FramingInv
    OBVIOUS
  <1>1. <<>> \in Seq(Word) /\ Len(<<>>) = 0
    BY EmptySeq
  <1>2. PacketInv
    BY <1>1, EmptySeq, WordsAreNumbers DEF Init, PacketInv, Packets, Unmade
  <1>3. LoopInv /\ MadeInv
    BY <1>1, EmptySeq DEF Init, LoopInv, MadeInv, Made, Unmade
  <1>4. Len(Cut(<<>>)) = 0
    <2>1. ASSUME NEW w \in Seq(Word), Len(w) = 0 PROVE Len(Cut(w)) = 0
      <3>1. Len(Cut(w)) = Lesser(Len(w), BuffLen)
        BY <1>2, CutIsInBuffer DEF PacketInv
      <3>2. Lesser(Len(w), BuffLen) = 0
        BY <2>1, Sizes DEF Lesser
      <3> QED
        BY <3>1, <3>2
    <2> QED
      BY <1>1, <2>1
  <1>5. FrontInv
    BY <1>4 DEF Init, Unmade, FrontInv
  <1>6. OnlyOwnWords
    <2>1. ~Framed(<<>>)
      BY <1>4 DEF Framed, NaClHeaderSize
    <2> QED
      BY <2>1 DEF Init, Unmade, OnlyOwnWords, Accepted, Error
  <1> QED
    BY <1>2, <1>3, <1>5, <1>6 DEF FramingInv

\* StartSend and TakePart leave packets and the receiver alone.
LEMMA SenderStep ==
    ASSUME FramingInv, StartSend \/ TakePart
    PROVE  FramingInv'
  <1>1. UNCHANGED <<socket, closed, recvVars>>
    BY DEF StartSend, TakePart
  <1>2. PacketInv' /\ LoopInv'
    <2>1. CASE StartSend
      <3>1. with_cocl2' \in BOOLEAN /\ args' = <<>> /\ count' = 0
        BY <2>1 DEF StartSend, FramingInv, LoopInv
      <3>2. SentHeaders(with_cocl2') \in Seq(Word)
        BY <3>1, HeadersType
      <3>3. message' = SentHeaders(with_cocl2') \o args'
        BY <2>1, <3>1, <3>2, ConcatEmptySeq DEF StartSend
      <3>4. Len(args') = 0 /\ args' \in Seq(Word)
        BY <3>1, EmptySeq
      <3>5. PacketInv'
        BY <1>1, <2>1, <3>1, <3>2, <3>4 DEF StartSend, FramingInv, PacketInv, recvVars
      <3>6. LoopInv'
        BY <2>1, <3>1, <3>3, <3>4, Sizes DEF StartSend, LoopInv
      <3> QED
        BY <3>5, <3>6
    <2>2. CASE TakePart
      <3>1. PICK v \in Value : args' = Append(args, v) /\ message' = Append(message, v)
        BY <2>2 DEF TakePart
      <3>2. v \in Word /\ args \in Seq(Word) /\ message \in Seq(Word)
            /\ with_cocl2 \in BOOLEAN /\ count \in Nat /\ cursor \in Nat
        BY WordsAreNumbers DEF FramingInv, PacketInv
      <3>3. SentHeaders(with_cocl2) \in Seq(Word)
        BY <3>2, HeadersType
      <3>4. /\ args' \in Seq(Word) /\ message' \in Seq(Word)
            /\ Len(args') = Len(args) + 1
        BY <3>1, <3>2, AppendProperties
      <3>5. message' = SentHeaders(with_cocl2) \o args'
        <4>1. message = SentHeaders(with_cocl2) \o args
          BY <2>2 DEF TakePart, FramingInv, LoopInv
        <4>2. <<v>> \in Seq(Word)
          BY <3>2
        <4>3. (SentHeaders(with_cocl2) \o args) \o <<v>>
                = SentHeaders(with_cocl2) \o (args \o <<v>>)
          BY <3>2, <3>3, <4>2, ConcatAssociative
        <4>4. args' = args \o <<v>> /\ message' = message \o <<v>>
          BY <3>1, <3>2, AppendIsConcat
        <4> QED
          BY <4>1, <4>3, <4>4
      <3>6. PacketInv'
        BY <1>1, <2>2, <3>2, <3>4 DEF TakePart, FramingInv, PacketInv, recvVars
      <3>7. LoopInv'
        BY <2>2, <3>2, <3>4, <3>5, Sizes
        DEF TakePart, HasRoom, FramingInv, LoopInv
      <3> QED
        BY <3>6, <3>7
    <2> QED
      BY <2>1, <2>2
  <1>3. MadeInv' /\ FrontInv' /\ OnlyOwnWords'
    BY <1>1 DEF FramingInv, MadeInv, Made, FrontInv, OnlyOwnWords, LengthFits,
       Accepted, Delivered, recvVars
  <1> QED
    BY <1>2, <1>3 DEF FramingInv

\* A packet is put into the socket, by sendMessage or by the sandbox, or nothing is.
LEMMA PacketSent ==
    ASSUME FramingInv, UNCHANGED recvVars,
           \/ UNCHANGED socket
           \/ \E p \in Packets : Made(p) /\ socket' = Append(socket, p)
    PROVE  /\ socket' \in Seq(Packets)
           /\ MadeInv' /\ FrontInv' /\ OnlyOwnWords'
  <1>1. socket \in Seq(Packets) /\ MadeInv
    BY DEF FramingInv, PacketInv
  <1>2. FrontInv' /\ OnlyOwnWords' /\ from' = from
    BY DEF FramingInv, FrontInv, OnlyOwnWords, LengthFits, Accepted, Delivered, recvVars
  <1>3. CASE UNCHANGED socket
    BY <1>1, <1>2, <1>3 DEF MadeInv
  <1>4. ASSUME NEW p \in Packets, Made(p), socket' = Append(socket, p)
        PROVE  socket' \in Seq(Packets) /\ MadeInv'
    <2>1. /\ socket' \in Seq(Packets)
          /\ Len(socket') = Len(socket) + 1 /\ Len(socket) \in Nat
          /\ \A i \in 1..Len(socket) : socket'[i] = socket[i]
          /\ socket'[Len(socket) + 1] = p
      BY <1>1, <1>4, AppendProperties, LenProperties
    <2> QED
      BY <1>1, <1>2, <1>4, <2>1 DEF MadeInv
  <1> QED
    BY <1>2, <1>3, <1>4

LEMMA FinishStep ==
    ASSUME FramingInv, FinishSend
    PROVE  FramingInv'
  <1>1. \/ UNCHANGED socket
        \/ \E p \in Packets : Made(p) /\ socket' = Append(socket, p)
    <2>1. ASSUME NEW parts \in LastArgs,
                 socket' = Append(socket, [words |-> message, parts |-> parts,
                                           framed |-> with_cocl2])
          PROVE  \E p \in Packets : Made(p) /\ socket' = Append(socket, p)
      <3> DEFINE p == [words |-> message, parts |-> parts, framed |-> with_cocl2]
      <3>1. parts \in Seq(Word) /\ Kept(parts) = args
        BY LoopTakesKept DEF FinishSend, FramingInv
      <3>2. p \in Packets
        BY <3>1 DEF Packets, FramingInv, PacketInv
      <3>3. message = SentHeaders(with_cocl2) \o Kept(parts)
        BY <3>1 DEF FinishSend, FramingInv, LoopInv
      <3>4. Made(p)
        BY <3>3 DEF Made
      <3> QED
        BY <2>1, <3>2, <3>4
    <2> QED
      BY <2>1 DEF FinishSend
  <1>2. /\ socket' \in Seq(Packets)
        /\ MadeInv' /\ FrontInv' /\ OnlyOwnWords'
    BY <1>1, PacketSent DEF FinishSend
  <1>3. PacketInv'
    BY <1>2, EmptySeq DEF FinishSend, FramingInv, PacketInv, recvVars
  <1>4. LoopInv'
    BY DEF FinishSend, LoopInv
  <1> QED
    BY <1>2, <1>3, <1>4 DEF FramingInv

LEMMA SandboxStep ==
    ASSUME FramingInv, SandboxSend \/ SandboxClose
    PROVE  FramingInv'
  <1>1. UNCHANGED sendVars /\ UNCHANGED recvVars
    BY DEF SandboxSend, SandboxClose
  <1>2. \/ UNCHANGED socket
        \/ \E p \in Packets : Made(p) /\ socket' = Append(socket, p)
    <2>1. ASSUME NEW version \in {NaClVersion, 0}, NEW d \in Announced, NEW q \in Payload
          PROVE  LET p == Unmade(<<version, d>> \o q) IN p \in Packets /\ Made(p)
      BY SandboxPacketType, EmptySeq DEF Made, Packets, Unmade
    <2> QED
      BY <2>1 DEF SandboxSend, SandboxClose
  <1>3. /\ socket' \in Seq(Packets)
        /\ MadeInv' /\ FrontInv' /\ OnlyOwnWords'
    BY <1>1, <1>2, PacketSent
  <1>4. PacketInv' /\ LoopInv'
    BY <1>1, <1>3 DEF FramingInv, PacketInv, LoopInv, sendVars, recvVars
  <1> QED
    BY <1>3, <1>4 DEF FramingInv

LEMMA ReceiveStep ==
    ASSUME FramingInv, ReceiveCoCl2Message
    PROVE  FramingInv'
  <1>1. socket \in Seq(Packets) /\ MadeInv /\ PacketInv
    BY DEF FramingInv, PacketInv
  <1>2. socket' \in Seq(Packets) /\ from' \in Packets /\ MadeInv'
    <2>1. CASE socket # <<>> /\ from' = Head(socket) /\ socket' = Tail(socket)
      <3>1. /\ Len(socket) \in Nat /\ Len(socket) > 0
            /\ from' = socket[1]
            /\ Len(socket') = Len(socket) - 1
            /\ \A i \in 1..(Len(socket) - 1) : socket'[i] = socket[i + 1]
            /\ socket' \in Seq(Packets) /\ from' \in Packets
        BY <1>1, <2>1, HeadTailProperties, EmptySeq, LenProperties
      <3>2. \A i \in 1..(Len(socket) - 1) : i + 1 \in 1..Len(socket)
        BY <3>1
      <3> QED
        BY <1>1, <3>1, <3>2 DEF MadeInv
    <2>2. CASE from' = Unmade(<<>>) /\ UNCHANGED socket
      BY <1>1, <2>2, EmptySeq DEF MadeInv, Made, Unmade, Packets
    <2> QED
      BY <2>1, <2>2 DEF ReceiveCoCl2Message
  <1>3. /\ from'.words \in Seq(Word) /\ buff \in [1..BuffLen -> Word]
        /\ buff' = Overlaid(buff, from'.words)
    BY <1>1, <1>2 DEF PacketInv, Packets, ReceiveCoCl2Message
  <1>4. buff' \in [1..BuffLen -> Word] /\ FrontInv'
    BY <1>3, CutIsInBuffer DEF FrontInv
  <1>5. PacketInv' /\ LoopInv'
    BY <1>1, <1>2, <1>4
    DEF ReceiveCoCl2Message, FramingInv, PacketInv, LoopInv, sendVars
  <1>6. OnlyOwnWords'
    BY <1>1, ReceiveOwnWords
  <1> QED
    BY <1>2, <1>4, <1>5, <1>6 DEF FramingInv

LEMMA FramingStep ==
    ASSUME FramingInv, [Next]_vars
    PROVE  FramingInv'
  <1>1. CASE UNCHANGED vars
    BY <1>1 DEF vars, sendVars, recvVars, FramingInv, PacketInv, LoopInv, MadeInv, Made,
       FrontInv, OnlyOwnWords, LengthFits, Accepted, Delivered
  <1> QED
    BY <1>1, SenderStep, FinishStep, SandboxStep, ReceiveStep DEF Next

-------------------------------------------------------------------------------
\* What is accepted as a message, and what of it is handed on, depends on the packet
\* alone and never on what an earlier one left in the buffer, for every size of
\* buffer, packet and descriptor data, as long as the announced length of that data
\* fits an int (messaging.cc:52-106).
THEOREM MessagesAreOwn == Spec => []OnlyOwnWords
  <1>1. FramingInv => OnlyOwnWords
    BY DEF FramingInv
  <1> QED
    BY FramingInit, FramingStep, <1>1, PTL DEF Spec

\* The loop of sendMessage fills no more entries than its vector has, however many
\* parts it is given or finds (messaging.cc:116-151).
THEOREM VectorSuffices == Spec => []IovecFits
  <1>1. FramingInv => IovecFits
    BY Sizes DEF FramingInv, PacketInv, LoopInv, IovecFits
  <1> QED
    BY FramingInit, FramingStep, <1>1, PTL DEF Spec

-------------------------------------------------------------------------------
(* What sendMessage frames is accepted.                                      *)

\* The words of a framed packet.
LEMMA WordsOfPacket ==
    ASSUME NEW k \in Seq(Word)
    PROVE  LET p == SentHeaders(TRUE) \o k IN
           /\ p \in Seq(Word)
           /\ Len(p) = 4 + Len(k)
           /\ p[1] = NaClVersion /\ p[2] = 0 /\ p[3] = CoCl2Version
           /\ \A i \in 1..Len(k) : p[4 + i] = k[i]
  <1> DEFINE h == SentHeaders(TRUE)
  <1>1. /\ NaClHeader \in Seq(Word) /\ CoCl2Header \in Seq(Word)
        /\ Len(NaClHeader) = 2 /\ Len(CoCl2Header) = 2
        /\ NaClHeader[1] = NaClVersion /\ NaClHeader[2] = 0
        /\ CoCl2Header[1] = CoCl2Version
    BY WordsAreNumbers DEF NaClHeader, CoCl2Header
  <1>2. h = NaClHeader \o CoCl2Header
    BY DEF SentHeaders
  <1> HIDE DEF h
  <1>3. /\ h \in Seq(Word) /\ Len(h) = 4
        /\ h[1] = NaClVersion /\ h[2] = 0 /\ h[3] = CoCl2Version
    <2>1. /\ h \in Seq(Word) /\ Len(h) = Len(NaClHeader) + Len(CoCl2Header)
          /\ \A i \in 1..(Len(NaClHeader) + Len(CoCl2Header)) :
                h[i] = IF i <= Len(NaClHeader) THEN NaClHeader[i]
                       ELSE CoCl2Header[i - Len(NaClHeader)]
      BY <1>1, <1>2, ConcatProperties
    <2> QED
      BY <1>1, <2>1
  <1>4. /\ h \o k \in Seq(Word) /\ Len(h \o k) = Len(h) + Len(k)
        /\ \A i \in 1..(Len(h) + Len(k)) :
              (h \o k)[i] = IF i <= Len(h) THEN h[i] ELSE k[i - Len(h)]
    BY <1>3, ConcatProperties
  <1>5. Len(k) \in Nat
    BY LenProperties
  <1>6. ASSUME NEW i \in 1..Len(k) PROVE (h \o k)[4 + i] = k[i]
    <2>1. 4 + i \in 1..(4 + Len(k)) /\ ~(4 + i <= 4) /\ (4 + i) - 4 = i
      BY <1>5
    <2> QED
      BY <1>3, <1>4, <2>1
  <1>7. (h \o k)[1] = NaClVersion /\ (h \o k)[2] = 0 /\ (h \o k)[3] = CoCl2Version
    BY <1>3, <1>4, <1>5
  <1> QED
    BY <1>3, <1>4, <1>6, <1>7 DEF h

\* Read by itself, it has both headers, and its parts for a payload.
LEMMA PayloadOfPacket ==
    ASSUME NEW k \in Seq(Word)
    PROVE  LET p == SentHeaders(TRUE) \o k IN
           /\ Framed(p)
           /\ Len(Cut(p)) >= 4 /\ Cut(p)[2] = 0
           /\ PayloadOf(p) = SubSeq(k, 1, Lesser(Len(k), BuffLen - 4))
  <1> DEFINE p == SentHeaders(TRUE) \o k
             c == Cut(p)
             n == Len(c)
             m == Lesser(Len(k), BuffLen - 4)
  <1>1. /\ p \in Seq(Word)
        /\ Len(p) = 4 + Len(k)
        /\ p[1] = NaClVersion /\ p[2] = 0 /\ p[3] = CoCl2Version
        /\ \A i \in 1..Len(k) : p[4 + i] = k[i]
    BY WordsOfPacket
  <1>2. /\ BuffLen \in Nat /\ BuffLen >= 4 /\ Len(k) \in Nat
        /\ \A i \in 1..Len(p) : p[i] \in Word
        /\ \A i \in 1..Len(k) : k[i] \in Word
    BY <1>1, Sizes, LenProperties, ElementOfSeq
  <1> HIDE DEF p
  <1>3. m \in Nat /\ m <= Len(k) /\ Lesser(Len(p), BuffLen) = 4 + m
    BY <1>1, <1>2 DEF Lesser
  <1> HIDE DEF m
  <1>4. /\ c \in Seq(Word) /\ n = 4 + m
        /\ \A i \in 1..(4 + m) : c[i] = p[i]
    <2>1. \A i \in 1..(4 + m) : p[i] \in Word
      BY <1>1, <1>2, <1>3
    <2>2. /\ SubSeq(p, 1, 4 + m) \in Seq(Word)
          /\ Len(SubSeq(p, 1, 4 + m)) = 4 + m
          /\ \A i \in 1..(4 + m) : SubSeq(p, 1, 4 + m)[i] = p[i]
      BY <1>3, <2>1, SubSeqProperties
    <2> QED
      BY <1>3, <2>2 DEF Cut
  <1> HIDE DEF c, n
  <1>5. c[1] = NaClVersion /\ c[2] = 0 /\ c[3] = CoCl2Version
    BY <1>1, <1>3, <1>4
  <1>6. Headers(c) = 4
    BY <1>5 DEF Headers, NaClHeaderSize, CoCl2HeaderSize
  <1>7. Framed(p)
    BY <1>3, <1>4, <1>5, <1>6 DEF Framed, NaClHeaderSize, CoCl2HeaderSize, c, n
  <1>8. SubSeq(c, 5, 4 + m) = SubSeq(k, 1, m)
    <2>1. /\ SubSeq(c, 5, 4 + m) \in Seq(Word)
          /\ Len(SubSeq(c, 5, 4 + m)) = m
          /\ \A i \in 1..m : SubSeq(c, 5, 4 + m)[i] = c[4 + i]
      <3>1. \A i \in 5..(4 + m) : c[i] \in Word
        BY <1>1, <1>2, <1>3, <1>4
      <3>2. /\ SubSeq(c, 5, 4 + m) \in Seq(Word)
            /\ Len(SubSeq(c, 5, 4 + m)) = IF 5 <= 4 + m THEN (4 + m) - 5 + 1 ELSE 0
            /\ \A i \in 1..((4 + m) - 5 + 1) : SubSeq(c, 5, 4 + m)[i] = c[5 + i - 1]
        BY <1>3, <3>1, SubSeqProperties
      <3>3. \A i \in 1..m : 5 + i - 1 = 4 + i
        BY <1>3
      <3> QED
        BY <1>3, <3>2, <3>3
    <2>2. /\ SubSeq(k, 1, m) \in Seq(Word)
          /\ Len(SubSeq(k, 1, m)) = m
          /\ \A i \in 1..m : SubSeq(k, 1, m)[i] = k[i]
      <3>1. \A i \in 1..m : k[i] \in Word
        BY <1>2, <1>3
      <3> QED
        BY <1>3, <3>1, SubSeqProperties
    <2>3. ASSUME NEW i \in 1..m PROVE c[4 + i] = k[i]
      <3>1. 4 + i \in 1..(4 + m) /\ i \in 1..Len(k)
        BY <1>2, <1>3
      <3> QED
        BY <1>1, <1>4, <3>1
    <2>4. \A i \in 1..m : SubSeq(c, 5, 4 + m)[i] = SubSeq(k, 1, m)[i]
      BY <2>1, <2>2, <2>3
    <2> QED
      BY <2>1, <2>2, <2>4, SeqEqual
  <1>9. PayloadOf(p) = SubSeq(k, 1, m)
    <2>1. PayloadOf(p) = SubSeq(c, Headers(c) + 1, n)
      BY DEF PayloadOf, c, n
    <2>2. Headers(c) + 1 = 5
      BY <1>6
    <2> QED
      BY <1>4, <1>8, <2>1, <2>2
  <1> QED
    <2>1. n >= 4
      BY <1>3, <1>4
    <2>2. PayloadOf(p) = SubSeq(k, 1, Lesser(Len(k), BuffLen - 4))
      BY <1>9 DEF m
    <2> QED
      BY <1>5, <1>7, <2>1, <2>2 DEF p, c, n

\* What sendMessage frames is accepted, and its payload is the parts it was given, up
\* to as many as there is room for and as far as they fit the receiver's buffer
\* (messaging.cc:112-187 and 52-106).
THEOREM SentIsReceived == Spec => []PartsArrive
  <1>1. FramingInv => PartsArrive
    <2> SUFFICES ASSUME FramingInv, from.framed
                 PROVE  /\ Accepted
                        /\ Delivered = SubSeq(Kept(from.parts), 1,
                             Lesser(Len(Kept(from.parts)),
                                    BuffLen - NaClHeaderSize - CoCl2HeaderSize))
      BY DEF PartsArrive, Kept
    <2> DEFINE k == Kept(from.parts)
    <2>1. from.words = SentHeaders(TRUE) \o k
      BY DEF FramingInv, MadeInv, Made
    <2>2. k \in Seq(Word)
      <3>1. from.parts \in Seq(Word)
        BY DEF FramingInv, PacketInv, Packets
      <3>2. /\ Lesser(Len(from.parts), MaxSendIovec) \in 0..Len(from.parts)
            /\ \A i \in 1..Len(from.parts) : from.parts[i] \in Word
        BY <3>1, Sizes, LenProperties, ElementOfSeq DEF Lesser
      <3>3. \A i \in 1..Lesser(Len(from.parts), MaxSendIovec) : from.parts[i] \in Word
        BY <3>2
      <3> QED
        BY <3>2, <3>3, SubSeqProperties DEF Kept
    <2> HIDE DEF k
    <2>3. /\ Framed(from.words)
          /\ Len(Cut(from.words)) >= 4 /\ Cut(from.words)[2] = 0
          /\ PayloadOf(from.words) = SubSeq(k, 1, Lesser(Len(k), BuffLen - 4))
      BY <2>1, <2>2, PayloadOfPacket
    <2>4. LengthFits
      <3>1. 2 \in 1..Len(Cut(from.words))
        <4>1. from.words \in Seq(Word) /\ buff \in [1..BuffLen -> Word]
          BY DEF FramingInv, PacketInv, Packets
        <4>2. Len(Cut(from.words)) = Lesser(Len(from.words), BuffLen)
              /\ Lesser(Len(from.words), BuffLen) \in 0..BuffLen
          BY <4>1, CutIsInBuffer
        <4> QED
          BY <2>3, <4>2, Sizes
      <3>2. buff[2] = 0
        BY <2>3, <3>1 DEF FramingInv, FrontInv
      <3> QED
        BY <3>2, Sizes DEF LengthFits, NaClHeaderSize
    <2>5. BuffLen - NaClHeaderSize - CoCl2HeaderSize = BuffLen - 4
      BY Sizes DEF NaClHeaderSize, CoCl2HeaderSize
    <2> QED
      BY <2>3, <2>4, <2>5 DEF FramingInv, OnlyOwnWords, k
  <1> QED
    BY FramingInit, FramingStep, <1>1, PTL DEF Spec
===============================================================================
