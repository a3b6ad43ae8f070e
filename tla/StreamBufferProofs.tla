-------------------------- MODULE StreamBufferProofs --------------------------
(***************************************************************************)
(* Proofs about StreamBuffer, for a buffer of every size, for a stream     *)
(* whose calls ask for any numbers of bytes and for messages of one length *)
(* in a buffer that holds a whole number of them.                          *)
(***************************************************************************)
EXTENDS StreamBuffer, SequenceFacts

\* A message buffer whose messages have one length and fill it evenly.  Without
\* this a length that is put back can overwrite a message, see README.
MessageAssumption ==
    Prefix > 0 => \E n \in SendSizes, k \in 1 .. Size :
                     n > 0 /\ SendSizes = {n} /\ Size = k * (n + Prefix)

Cell == {"free", "byte", "len"} \X Nat

BufferType == [head : 0 .. Size, tail : 0 .. Size, buf : [0 .. Size -> Cell], trigger : Nat,
               rwait : BOOLEAN, swait : BOOLEAN]

WriterPlaces == {"out", "check", "wait", "awake", "space", "length", "data", "sent"}
ReaderPlaces == {"out", "wait", "awake", "length", "data", "restore", "read"}

CallType(places) == [pc : places, n : Nat, space : Nat, block : BOOLEAN, late : BOOLEAN,
                     tail : 0 .. Size]

TypeOK == /\ s \in BufferType
          /\ w \in CallType(WriterPlaces) /\ r \in CallType(ReaderPlaces)
          /\ note \in [writer : BOOLEAN, reader : BOOLEAN]
          /\ q \in Seq(Cell)
          /\ w.pc # "out" => w.n \in SendSizes

\* Ring b holds the cells h from place t on.
Wrap(x) == IF x < xLength THEN x ELSE x - xLength
Holds(b, t, h) == /\ Len(h) <= Size
                  /\ b.head = Wrap(t + Len(h))
                  /\ \A i \in 1 .. Len(h) : b.buf[Wrap(t + i - 1)] = h[i]

\* What may not be overwritten: what is to be read, and before it the length the
\* reader is about to put back.
Held == IF r.pc = "restore" THEN Length(r.n) \o q ELSE q
Base == IF r.pc = "restore" THEN r.tail ELSE s.tail

RingInv == /\ Holds(s, Base, Held)
           /\ r.pc = "restore" => s.tail = Wrap(r.tail + Prefix)

\* What the writer means to write from the space it knows fits, although the reader
\* has gone on since; after the length of a message there is room for the message.
RoomInv ==
    LET k == Written(w.n, w.space)
    IN /\ w.pc \in {"check", "wait", "awake", "space", "length"} /\ k > 0
              => Len(Held) + Prefix + k <= Size
       /\ w.pc = "data" => k > 0 /\ Len(Held) + k <= Size

\* What the reader counted is still there.
CountInv == r.pc \in {"length", "data"} => r.space <= Len(q)

\* A writer that waits and has not been notified is registered, and forgotten only
\* while the reader is about to notify it.
WaitInv == w.pc = "wait" /\ ~note.writer =>
              /\ s.swait
              /\ xStreamBufferSpacesAvailable(s) >= w.n + Prefix => r.pc \in {"data", "read", "restore"}

StreamInv == Prefix = 0 => r.pc # "restore" /\ WaitInv

\* Messages: m bytes behind a length of Prefix bytes.
m == CHOOSE n \in SendSizes : TRUE
Message == Prefix + m
Whole(n) == \E k \in Nat : n = k * Message

\* Each message in h starts with its length.
Formed(h) == \A j \in Nat, p \in 1 .. Prefix : Whole(j) /\ j + p <= Len(h) => h[j + p] = Length(m)[p]

\* The cells from the start of a message on: those to be read and before them the
\* length the reader has already taken.
Full == IF r.pc \in {"data", "restore"} THEN Length(m) \o q ELSE q

MessageInv ==
    Prefix > 0 => /\ Formed(Full)
                  /\ w.pc # "data" => Whole(Len(Full))
                  /\ w.pc = "data" => Prefix <= Len(Full) /\ Whole(Len(Full) - Prefix)
                  /\ r.pc = "length" /\ r.space > Prefix => r.space >= Message
                  /\ r.pc = "data" => r.n = m /\ r.space >= m
                  /\ r.pc = "restore" => r.n = m

Inv == TypeOK /\ RingInv /\ RoomInv /\ CountInv /\ StreamInv /\ MessageInv

-----------------------------------------------------------------------------
(* The ring.                                                               *)

\* The remainder of a place that is less than two turns ahead.
LEMMA WrapMod ==
    ASSUME SizeAssumption, NEW x \in 0 .. 2 * Size + 1
    PROVE  x % xLength = Wrap(x) /\ Wrap(x) \in 0 .. Size
  BY DEF SizeAssumption, Wrap, xLength

\* Going on from a place that was brought back is going on from the place itself.
LEMMA WrapTwice ==
    ASSUME SizeAssumption, NEW t \in 0 .. Size, NEW x \in 0 .. Size, NEW y \in 0 .. Size, x + y <= Size
    PROVE  Wrap(Wrap(t + x) + y) = Wrap(t + x + y)
  BY DEF SizeAssumption, Wrap, xLength

\* No two places within one turn are the same cell.
LEMMA WrapDistinct ==
    ASSUME SizeAssumption, NEW t \in 0 .. Size, NEW x \in 0 .. Size, NEW y \in 0 .. Size,
           Wrap(t + x) = Wrap(t + y)
    PROVE  x = y
  BY DEF SizeAssumption, Wrap, xLength

\* The ring's cells one by one: places within it, and their contents.
LEMMA HoldsParts ==
    ASSUME SizeAssumption, NEW b \in BufferType, NEW t \in 0 .. Size, NEW h \in Seq(Cell), Holds(b, t, h)
    PROVE  /\ Len(h) \in 0 .. Size
           /\ b.head = Wrap(t + Len(h))
           /\ \A i \in 1 .. Len(h) : i - 1 \in 0 .. Size /\ b.buf[Wrap(t + i - 1)] = h[i]
  BY DEF Holds, SizeAssumption

\* The bytes in the buffer and the space left.
LEMMA HoldsCount ==
    ASSUME SizeAssumption, NEW b \in BufferType, NEW h \in Seq(Cell), Holds(b, b.tail, h)
    PROVE  /\ prvBytesInBuffer(b) = Len(h)
           /\ xStreamBufferSpacesAvailable(b) = Size - Len(h)
  <1>1. b.head \in 0 .. Size /\ b.tail \in 0 .. Size
    BY DEF BufferType
  <1>2. Len(h) \in 0 .. Size /\ b.head = Wrap(b.tail + Len(h))
    BY <1>1, HoldsParts
  <1> QED
    BY <1>1, <1>2 DEF prvBytesInBuffer, xStreamBufferSpacesAvailable, Wrap, xLength, SizeAssumption

\* What a reader copies out of the ring.
LEMMA HoldsPeek ==
    ASSUME SizeAssumption, NEW b \in BufferType, NEW h \in Seq(Cell), Holds(b, b.tail, h),
           NEW n \in 0 .. Len(h)
    PROVE  /\ Peek(b, n) \in Seq(Cell) /\ Len(Peek(b, n)) = n
           /\ \A i \in 1 .. n : Peek(b, n)[i] = h[i]
           /\ Peek(b, Len(h)) = h
  <1>1. b.tail \in 0 .. Size
    BY DEF BufferType
  <1>2. /\ Len(h) \in 0 .. Size
        /\ \A i \in 1 .. Len(h) : i - 1 \in 0 .. Size /\ b.buf[Wrap(b.tail + i - 1)] = h[i]
    BY <1>1, HoldsParts
  <1>3. ASSUME NEW i \in 1 .. Len(h) PROVE b.buf[(b.tail + i - 1) % xLength] = h[i] /\ h[i] \in Cell
    <2>1. b.tail + i - 1 \in 0 .. 2 * Size + 1
      BY <1>1, <1>2 DEF SizeAssumption
    <2>2. (b.tail + i - 1) % xLength = Wrap(b.tail + i - 1)
      BY <2>1, WrapMod
    <2> QED
      BY <2>2, <1>2
  <1>4. ASSUME NEW k \in 0 .. Len(h)
        PROVE  /\ Peek(b, k) \in Seq(Cell) /\ Len(Peek(b, k)) = k
               /\ \A i \in 1 .. k : Peek(b, k)[i] = h[i]
    <2> DEFINE v(i) == b.buf[(b.tail + i - 1) % xLength]
    <2>1. \A i \in 1 .. k : v(i) \in Cell /\ v(i) = h[i]
      BY <1>3
    <2>2. Peek(b, k) = [i \in 1 .. k |-> v(i)]
      BY DEF Peek
    <2> HIDE DEF v
    <2>3. k \in Nat
      OBVIOUS
    <2> QED
      BY <2>1, <2>2, <2>3
  <1>5. Peek(b, Len(h)) = h
    <2>1. Len(h) \in 0 .. Len(h)
      OBVIOUS
    <2> HIDE DEF Peek
    <2>2. /\ Peek(b, Len(h)) \in Seq(Cell) /\ Len(Peek(b, Len(h))) = Len(h)
          /\ \A i \in 1 .. Len(h) : Peek(b, Len(h))[i] = h[i]
      BY <2>1, <1>4
    <2> QED
      BY <2>2, SeqEqual
  <1> QED
    BY <1>4, <1>5

\* A write behind what is held keeps it, whatever the tail has become since.
LEMMA HoldsWrite ==
    ASSUME SizeAssumption, NEW b \in BufferType, NEW t \in 0 .. Size, NEW h \in Seq(Cell),
           NEW d \in Seq(Cell), Holds(b, t, h), Len(h) + Len(d) <= Size
    PROVE  LET c == prvWriteBytesToBuffer(b, d)
           IN /\ c \in BufferType
              /\ Holds(c, t, h \o d)
              /\ c.tail = b.tail /\ c.trigger = b.trigger /\ c.rwait = b.rwait /\ c.swait = b.swait
  <1> DEFINE at(i) == (b.head + i - 1) % xLength
             c == prvWriteBytesToBuffer(b, d)
             n == Len(h)
             k == Len(d)
  <1>1. /\ n \in 0 .. Size /\ k \in 0 .. Size /\ n + k \in 0 .. Size
        /\ b.head \in 0 .. Size /\ b.tail \in 0 .. Size /\ DOMAIN b.buf = 0 .. Size
        /\ b.buf \in [0 .. Size -> Cell]
        /\ b.head = Wrap(t + n) /\ DOMAIN d = 1 .. k /\ Size \in Nat
        /\ \A i \in 1 .. n : i - 1 \in 0 .. Size /\ b.buf[Wrap(t + i - 1)] = h[i]
    <2>1. Size \in Nat
      BY DEF SizeAssumption
    <2> QED
      BY <2>1, HoldsParts DEF BufferType
  <1>2. ASSUME NEW i \in 1 .. k
        PROVE  at(i) = Wrap(t + n + i - 1) /\ at(i) \in 0 .. Size /\ n + i - 1 \in 0 .. Size
    <2>1. i - 1 \in 0 .. Size /\ n + (i - 1) <= Size /\ b.head + i - 1 \in 0 .. 2 * Size + 1
          /\ n + i - 1 \in 0 .. Size
      BY <1>1
    <2>2. at(i) = Wrap(b.head + (i - 1)) /\ at(i) \in 0 .. Size
      <3>1. b.head + (i - 1) = b.head + i - 1
        BY <1>1
      <3> QED
        BY <2>1, <3>1, WrapMod
    <2>3. \A y \in 0 .. Size : n + y <= Size => Wrap(Wrap(t + n) + y) = Wrap(t + n + y)
      <3> HIDE DEF n
      <3> QED
        BY <1>1, WrapTwice
    <2>4. t + n + (i - 1) = t + n + i - 1
      BY <1>1
    <2> HIDE DEF at, n
    <2> QED
      BY <1>1, <2>1, <2>2, <2>3, <2>4
  <1>3. ASSUME NEW i \in 1 .. k, NEW j \in 1 .. k, at(i) = at(j) PROVE i = j
    <2>1. Wrap(t + (n + i - 1)) = Wrap(t + (n + j - 1))
      <3> HIDE DEF at
      <3>1. t + (n + i - 1) = t + n + i - 1 /\ t + (n + j - 1) = t + n + j - 1
        BY <1>1
      <3> QED
        BY <1>2, <1>3, <3>1
    <2>2. n + i - 1 = n + j - 1
      BY <1>2, <2>1, WrapDistinct
    <2> QED
      BY <1>1, <2>2
  <1>4. ASSUME NEW i \in 1 .. k, NEW j \in 1 .. n PROVE at(i) # Wrap(t + j - 1)
    <2> SUFFICES ASSUME at(i) = Wrap(t + j - 1) PROVE FALSE
      OBVIOUS
    <2>1. Wrap(t + (n + i - 1)) = Wrap(t + (j - 1))
      <3> HIDE DEF at
      <3>1. t + (n + i - 1) = t + n + i - 1 /\ t + (j - 1) = t + j - 1
        BY <1>1
      <3> QED
        BY <1>2, <3>1
    <2>2. n + i - 1 = j - 1
      BY <1>1, <1>2, <2>1, WrapDistinct
    <2> QED
      BY <1>1, <2>2
  <1> DEFINE new(x) == IF \E i \in DOMAIN d : at(i) = x
                       THEN d[CHOOSE i \in DOMAIN d : at(i) = x] ELSE b.buf[x]
  <1>5. /\ c.buf = [x \in DOMAIN b.buf |-> new(x)] /\ c.head = (b.head + k) % xLength
        /\ c.tail = b.tail /\ c.trigger = b.trigger /\ c.rwait = b.rwait /\ c.swait = b.swait
        /\ DOMAIN c = {"head", "tail", "buf", "trigger", "rwait", "swait"}
        /\ c = [b EXCEPT !.buf = [x \in DOMAIN b.buf |-> new(x)], !.head = (b.head + k) % xLength]
    BY DEF prvWriteBytesToBuffer, BufferType
  <1>6. ASSUME NEW i \in 1 .. k PROVE new(at(i)) = d[i]
    <2>1. \E j \in DOMAIN d : at(j) = at(i)
      BY <1>1
    <2>2. (CHOOSE j \in DOMAIN d : at(j) = at(i)) = i
      <3> HIDE DEF at
      <3> QED
        BY <1>1, <1>3, <2>1
    <2> HIDE DEF at
    <2> QED
      BY <2>1, <2>2
  <1>7. ASSUME NEW j \in 1 .. n PROVE new(Wrap(t + j - 1)) = h[j]
    <2> HIDE DEF at
    <2>1. ~ \E i \in DOMAIN d : at(i) = Wrap(t + j - 1)
      BY <1>1, <1>4
    <2> QED
      BY <1>1, <2>1
  <1>8. ASSUME NEW x \in 0 .. Size PROVE new(x) \in Cell
    <2> HIDE DEF at
    <2>1. \A i \in DOMAIN d : d[i] \in Cell
      BY <1>1
    <2> QED
      BY <1>1, <2>1
  <1>9. c.head = Wrap(t + (n + k)) /\ c.head \in 0 .. Size
    <2>1. b.head + k \in 0 .. 2 * Size + 1 /\ t + n + k = t + (n + k)
      BY <1>1
    <2>2. Wrap(Wrap(t + n) + k) = Wrap(t + n + k)
      BY <1>1, WrapTwice
    <2> QED
      BY <1>1, <1>5, <2>1, <2>2, WrapMod
  <1> HIDE DEF new, at
  <1>10. c \in BufferType
    <2>1. [x \in DOMAIN b.buf |-> new(x)] \in [0 .. Size -> Cell]
      BY <1>1, <1>8
    <2> HIDE DEF c
    <2> QED
      BY <2>1, <1>1, <1>5, <1>9 DEF BufferType
  <1>11. /\ h \o d \in Seq(Cell) /\ Len(h \o d) = n + k
         /\ \A i \in 1 .. n + k : (h \o d)[i] = IF i <= n THEN h[i] ELSE d[i - n]
    BY ConcatProperties, Zenon
  <1>12. ASSUME NEW i \in 1 .. n + k PROVE c.buf[Wrap(t + i - 1)] = (h \o d)[i]
    <2>1. Wrap(t + i - 1) \in 0 .. Size
      <3>1. t + i - 1 \in 0 .. 2 * Size + 1
        BY <1>1
      <3> QED
        BY <3>1, WrapMod
    <2>2. c.buf[Wrap(t + i - 1)] = new(Wrap(t + i - 1))
      BY <2>1, <1>1, <1>5
    <2>3. CASE i <= n
      <3>1. i \in 1 .. n
        BY <2>3, <1>1
      <3> QED
        BY <3>1, <2>2, <2>3, <1>7, <1>11
    <2>4. CASE ~(i <= n)
      <3>1. i - n \in 1 .. k /\ t + n + (i - n) - 1 = t + i - 1
        BY <2>4, <1>1
      <3>2. at(i - n) = Wrap(t + i - 1)
        BY <3>1, <1>2
      <3>3. new(at(i - n)) = d[i - n]
        BY <3>1, <1>6
      <3> QED
        BY <3>2, <3>3, <2>2, <2>4, <1>11
    <2> QED
      BY <2>3, <2>4
  <1>13. Holds(c, t, h \o d)
    <2> HIDE DEF c
    <2> QED
      BY <1>1, <1>9, <1>11, <1>12 DEF Holds
  <1> QED
    BY <1>5, <1>10, <1>13

\* What is left once n cells have been read.
LEMMA HoldsRead ==
    ASSUME SizeAssumption, NEW b \in BufferType, NEW c \in BufferType, NEW t \in 0 .. Size,
           NEW h \in Seq(Cell), Holds(b, t, h), NEW n \in 0 .. Len(h),
           c.buf = b.buf, c.head = b.head
    PROVE  /\ (t + n) % xLength = Wrap(t + n) /\ Wrap(t + n) \in 0 .. Size
           /\ SubSeq(h, n + 1, Len(h)) \in Seq(Cell) /\ Len(SubSeq(h, n + 1, Len(h))) = Len(h) - n
           /\ \A i \in 1 .. Len(h) - n : SubSeq(h, n + 1, Len(h))[i] = h[n + i]
           /\ Holds(c, Wrap(t + n), SubSeq(h, n + 1, Len(h)))
  <1> DEFINE g == SubSeq(h, n + 1, Len(h))
  <1>1. /\ Len(h) \in 0 .. Size /\ Size \in Nat /\ b.head = Wrap(t + Len(h))
        /\ \A i \in 1 .. Len(h) : i - 1 \in 0 .. Size /\ b.buf[Wrap(t + i - 1)] = h[i]
    BY HoldsParts DEF SizeAssumption
  <1>2. t + n \in 0 .. 2 * Size + 1 /\ n + 1 \in 1 .. Len(h) + 1 /\ Len(h) \in (n + 1) - 1 .. Len(h)
        /\ Len(h) - n \in 0 .. Size /\ n \in 0 .. Size
    BY <1>1
  <1>3. (t + n) % xLength = Wrap(t + n) /\ Wrap(t + n) \in 0 .. Size
    BY <1>2, WrapMod
  <1>4. g \in Seq(Cell) /\ Len(g) = Len(h) - n /\ \A i \in 1 .. Len(h) - n : g[i] = h[n + i]
    <2>1. /\ g \in Seq(Cell) /\ Len(g) = Len(h) - (n + 1) + 1
          /\ \A i \in 1 .. Len(h) - (n + 1) + 1 : g[i] = h[(n + 1) + i - 1]
      BY <1>2, SubSeqFacts
    <2>2. Len(h) - (n + 1) + 1 = Len(h) - n /\ \A i \in 1 .. Len(h) - n : (n + 1) + i - 1 = n + i
      BY <1>2
    <2> HIDE DEF g
    <2> QED
      BY <2>1, <2>2
  <1> HIDE DEF g
  <1>5. c.head = Wrap(Wrap(t + n) + Len(g))
    <2>1. n + Len(g) <= Size /\ Len(g) \in 0 .. Size /\ t + n + Len(g) = t + Len(h)
      BY <1>1, <1>2, <1>4
    <2>2. Wrap(Wrap(t + n) + Len(g)) = Wrap(t + n + Len(g))
      BY <1>2, <2>1, WrapTwice
    <2> QED
      BY <1>1, <2>1, <2>2
  <1>6. ASSUME NEW i \in 1 .. Len(g) PROVE c.buf[Wrap(Wrap(t + n) + i - 1)] = g[i]
    <2>1. n + i \in 1 .. Len(h) /\ i - 1 \in 0 .. Size /\ n + (i - 1) <= Size
          /\ t + n + (i - 1) = t + (n + i) - 1 /\ Wrap(t + n) + (i - 1) = Wrap(t + n) + i - 1
      BY <1>1, <1>2, <1>3, <1>4
    <2>2. Wrap(Wrap(t + n) + (i - 1)) = Wrap(t + n + (i - 1))
      BY <1>2, <2>1, WrapTwice
    <2>3. b.buf[Wrap(t + (n + i) - 1)] = h[n + i]
      BY <1>1, <2>1
    <2> QED
      BY <2>1, <2>2, <2>3, <1>4
  <1>7. Holds(c, Wrap(t + n), g)
    BY <1>1, <1>2, <1>4, <1>5, <1>6 DEF Holds
  <1> QED
    BY <1>3, <1>4, <1>7 DEF g

-----------------------------------------------------------------------------
(* Messages.                                                               *)

\* All messages are of m bytes, and a whole number of them fills the buffer.
LEMMA OneLength ==
    ASSUME SizeAssumption, MessageAssumption, Prefix > 0
    PROVE  /\ m \in Nat \ {0} /\ SendSizes = {m} /\ Whole(Size)
           /\ Prefix \in Nat \ {0} /\ Message \in Nat \ {0} /\ Message = Prefix + m
  <1>1. PICK a \in Nat \ {0}, k \in Nat \ {0} : SendSizes = {a} /\ Size = k * (a + Prefix)
    <2>1. PICK a \in SendSizes, k \in 1 .. Size : a > 0 /\ SendSizes = {a} /\ Size = k * (a + Prefix)
      BY DEF MessageAssumption
    <2>2. a \in Nat \ {0} /\ k \in Nat \ {0}
      BY <2>1 DEF SizeAssumption
    <2> QED
      BY <2>1, <2>2
  <1>2. m = a
    BY <1>1 DEF m
  <1>3. Size = k * Message /\ k \in Nat
    BY <1>1, <1>2 DEF Message, SizeAssumption
  <1>4. Whole(Size)
    BY <1>3 DEF Whole
  <1> QED
    BY <1>1, <1>2, <1>4 DEF Message, SizeAssumption

\* Whole numbers of messages.
LEMMA WholeFacts ==
    ASSUME Message \in Nat \ {0}
    PROVE  /\ Whole(0)
           /\ \A x : Whole(x) => x \in Nat /\ Whole(x + Message)
           /\ \A x : Whole(x) /\ x > 0 => x >= Message /\ Whole(x - Message)
           /\ \A x, y : Whole(x) /\ Whole(y) /\ x < y => x + Message <= y
  <1>0. Whole(0)
    <2>1. 0 = 0 * Message
      OBVIOUS
    <2> QED
      BY <2>1 DEF Whole
  <1>1. ASSUME NEW x, Whole(x) PROVE x \in Nat /\ Whole(x + Message)
    <2>1. PICK k \in Nat : x = k * Message
      BY <1>1 DEF Whole
    <2>2. x + Message = (k + 1) * Message /\ k + 1 \in Nat /\ x \in Nat
      BY <2>1
    <2> QED
      BY <2>2 DEF Whole
  <1>2. ASSUME NEW x, Whole(x), x > 0 PROVE x >= Message /\ Whole(x - Message)
    <2>1. PICK k \in Nat : x = k * Message
      BY <1>2 DEF Whole
    <2>2. k # 0
      BY <2>1, <1>2
    <2>3. PICK j \in Nat : k = j + 1
      <3>1. k - 1 \in Nat /\ k = (k - 1) + 1
        BY <2>2
      <3> QED
        BY <3>1
    <2>4. x = j * Message + Message /\ j * Message \in Nat
      BY <2>1, <2>3
    <2>5. x - Message = j * Message /\ x >= Message
      BY <2>4
    <2> QED
      BY <2>5 DEF Whole
  <1>3. ASSUME NEW x, NEW y, Whole(x), Whole(y), x < y PROVE x + Message <= y
    <2>1. PICK j \in Nat, k \in Nat : x = j * Message /\ y = k * Message
      BY <1>3 DEF Whole
    <2>2. j < k
      <3> SUFFICES ASSUME k <= j PROVE FALSE
        BY <2>1
      <3>1. PICK i \in Nat : j = k + i
        <4>1. j - k \in Nat /\ j = k + (j - k)
          OBVIOUS
        <4> QED
          BY <4>1
      <3>2. x = y + i * Message /\ i * Message \in Nat /\ y \in Nat
        BY <2>1, <3>1
      <3> QED
        BY <3>2, <1>3
    <2>3. PICK i \in Nat : k = j + 1 + i
      <3>1. k - j - 1 \in Nat /\ k = j + 1 + (k - j - 1)
        BY <2>2
      <3> QED
        BY <3>1
    <2>4. y = x + Message + i * Message /\ i * Message \in Nat /\ x \in Nat
      BY <2>1, <2>3
    <2> QED
      BY <2>4
  <1> QED
    BY <1>0, <1>1, <1>2, <1>3

\* The cells of a message and of its length.
LEMMA CellFacts ==
    ASSUME SizeAssumption, NEW n \in Nat
    PROVE  /\ Cells(n) \in Seq(Cell) /\ Len(Cells(n)) = n
           /\ Length(n) \in Seq(Cell) /\ Len(Length(n)) = Prefix
           /\ Prefix > 0 => Length(n)[1] = <<"len", n>>
  <1>1. Prefix \in Nat
    BY DEF SizeAssumption
  <1> QED
    BY <1>1 DEF Cells, Length, Cell

\* Cells taken for a sequence of messages: a length at the end, ...
LEMMA FormedLength ==
    ASSUME SizeAssumption, MessageAssumption, Prefix > 0,
           NEW h \in Seq(Cell), Formed(h), Whole(Len(h))
    PROVE  Formed(h \o Length(m)) /\ Whole(Len(h \o Length(m)) - Prefix)
  <1>1. /\ m \in Nat \ {0} /\ Prefix \in Nat \ {0} /\ Message \in Nat \ {0} /\ Message = Prefix + m
    BY OneLength
  <1> DEFINE l == Length(m)
  <1>2. l \in Seq(Cell) /\ Len(l) = Prefix
    BY <1>1, CellFacts
  <1> HIDE DEF l
  <1>3. /\ Len(h \o l) = Len(h) + Prefix /\ Len(h) \in Nat
        /\ \A i \in 1 .. Len(h) + Prefix : (h \o l)[i] = IF i <= Len(h) THEN h[i] ELSE l[i - Len(h)]
    <2>1. /\ Len(h \o l) = Len(h) + Len(l)
          /\ \A i \in 1 .. Len(h) + Len(l) :
                (h \o l)[i] = IF i <= Len(h) THEN h[i] ELSE l[i - Len(h)]
      BY <1>2, ConcatProperties, Zenon
    <2> QED
      BY <1>2, <2>1, LenProperties
  <1>4. ASSUME NEW j \in Nat, NEW p \in 1 .. Prefix, Whole(j), j + p <= Len(h) + Prefix
        PROVE  (h \o l)[j + p] = l[p]
    <2>1. CASE j + p <= Len(h)
      <3>1. h[j + p] = l[p]
        BY <2>1, <1>4 DEF Formed, l
      <3> QED
        BY <3>1, <2>1, <1>3, <1>4
    <2>2. CASE j + p > Len(h)
      <3>1. j >= Len(h)
        <4> SUFFICES ASSUME j < Len(h) PROVE FALSE
          BY <1>3
        <4>1. j + Message <= Len(h)
          BY <1>1, <1>4, WholeFacts
        <4> QED
          BY <4>1, <2>2, <1>1, <1>3
      <3>2. j <= Len(h)
        <4> SUFFICES ASSUME j > Len(h) PROVE FALSE
          BY <1>3
        <4>1. Len(h) + Message <= j
          BY <1>1, <1>4, WholeFacts
        <4> QED
          BY <4>1, <1>4, <1>1, <1>3
      <3>3. j = Len(h)
        BY <3>1, <3>2, <1>3
      <3>4. (j + p) - Len(h) = p /\ j + p \in 1 .. Len(h) + Prefix
        BY <3>3, <1>3, <1>1
      <3>5. (h \o l)[j + p] = l[(j + p) - Len(h)]
        BY <3>4, <2>2, <1>3
      <3> QED
        BY <3>4, <3>5
    <2>3. j + p <= Len(h) \/ j + p > Len(h)
      BY <1>1, <1>3
    <2> QED
      BY <2>1, <2>2, <2>3, Zenon
  <1>5. Formed(h \o l)
    <2> USE <1>3
    <2> QED
      BY <1>4 DEF Formed, l
  <1>6. Len(h \o l) - Prefix = Len(h)
    BY <1>1, <1>3
  <1> QED
    BY <1>5, <1>6 DEF l

\* ... the bytes behind it, ...
LEMMA FormedBytes ==
    ASSUME SizeAssumption, MessageAssumption, Prefix > 0,
           NEW h \in Seq(Cell), Formed(h), Prefix <= Len(h), Whole(Len(h) - Prefix)
    PROVE  Formed(h \o Cells(m)) /\ Whole(Len(h \o Cells(m)))
  <1>1. /\ m \in Nat \ {0} /\ Prefix \in Nat \ {0} /\ Message \in Nat \ {0} /\ Message = Prefix + m
    BY OneLength
  <1> DEFINE l == Cells(m)
  <1>2. l \in Seq(Cell) /\ Len(l) = m
    BY <1>1, CellFacts
  <1> HIDE DEF l
  <1>3. /\ Len(h \o l) = Len(h) + m /\ Len(h) \in Nat
        /\ \A i \in 1 .. Len(h) + m : (h \o l)[i] = IF i <= Len(h) THEN h[i] ELSE l[i - Len(h)]
    <2>1. /\ Len(h \o l) = Len(h) + Len(l)
          /\ \A i \in 1 .. Len(h) + Len(l) :
                (h \o l)[i] = IF i <= Len(h) THEN h[i] ELSE l[i - Len(h)]
      BY <1>2, ConcatProperties, Zenon
    <2> QED
      BY <1>2, <2>1, LenProperties
  <1>4. Whole(Len(h) + m)
    <2>1. Whole((Len(h) - Prefix) + Message)
      BY <1>1, WholeFacts
    <2>2. (Len(h) - Prefix) + Message = Len(h) + m
      BY <1>1, <1>3
    <2> QED
      BY <2>1, <2>2
  <1>5. ASSUME NEW j \in Nat, NEW p \in 1 .. Prefix, Whole(j), j + p <= Len(h) + m
        PROVE  (h \o l)[j + p] = Length(m)[p]
    <2>1. j < Len(h) + m
      BY <1>5, <1>3, <1>1
    <2>2. j + Message <= Len(h) + m
      BY <1>1, <1>4, <1>5, <2>1, WholeFacts
    <2>3. j + p <= Len(h) /\ j + p \in 1 .. Len(h) + m
      BY <2>2, <1>1, <1>3
    <2>4. h[j + p] = Length(m)[p]
      BY <2>3, <1>5 DEF Formed
    <2> QED
      BY <2>3, <2>4, <1>3
  <1>6. Formed(h \o l)
    BY <1>3, <1>5 DEF Formed
  <1> QED
    BY <1>3, <1>4, <1>6 DEF l

\* ... and the first message taken away.
LEMMA FormedRest ==
    ASSUME SizeAssumption, MessageAssumption, Prefix > 0,
           NEW h \in Seq(Cell), Formed(h), NEW g \in Seq(Cell), Len(h) >= Message,
           Len(g) = Len(h) - Message, \A i \in 1 .. Len(g) : g[i] = h[Message + i]
    PROVE  Formed(g)
  <1>1. /\ m \in Nat \ {0} /\ Prefix \in Nat \ {0} /\ Message \in Nat \ {0} /\ Message = Prefix + m
        /\ Len(h) \in Nat /\ Len(g) \in Nat
    BY OneLength, LenProperties
  <1>2. ASSUME NEW j \in Nat, NEW p \in 1 .. Prefix, Whole(j), j + p <= Len(g)
        PROVE  g[j + p] = Length(m)[p]
    <2>1. Whole(j + Message) /\ j + Message \in Nat
      BY <1>1, <1>2, WholeFacts
    <2>2. (j + Message) + p <= Len(h) /\ j + p \in 1 .. Len(g) /\ Message + (j + p) = (j + Message) + p
      BY <1>1, <1>2
    <2>3. h[(j + Message) + p] = Length(m)[p]
      BY <2>1, <2>2 DEF Formed
    <2> QED
      BY <2>2, <2>3
  <1> QED
    BY <1>2 DEF Formed

\* The cells at the start of a sequence of messages are the length of the first.
LEMMA FormedStart ==
    ASSUME SizeAssumption, MessageAssumption, Prefix > 0,
           NEW h \in Seq(Cell), Formed(h), Prefix <= Len(h), NEW g \in Seq(Cell),
           Len(g) = Len(h) - Prefix, \A i \in 1 .. Len(g) : g[i] = h[Prefix + i]
    PROVE  Length(m) \o g = h /\ h[1] = <<"len", m>>
  <1>1. m \in Nat \ {0} /\ Prefix \in Nat \ {0} /\ Message \in Nat \ {0} /\ Len(h) \in Nat /\ Len(g) \in Nat
    BY OneLength, LenProperties
  <1>2. /\ Length(m) \in Seq(Cell) /\ Len(Length(m)) = Prefix
        /\ Length(m)[1] = <<"len", m>>
    BY <1>1, CellFacts
  <1> DEFINE l == Length(m)
  <1>3. \A p \in 1 .. Prefix : h[p] = l[p]
    <2> TAKE p \in 1 .. Prefix
    <2>1. Whole(0) /\ 0 + p <= Len(h) /\ 0 + p = p /\ 0 \in Nat
      BY <1>1, WholeFacts
    <2> HIDE DEF l
    <2> QED
      BY <2>1 DEF Formed, l
  <1> HIDE DEF l
  <1>4. /\ l \o g \in Seq(Cell) /\ Len(l \o g) = Prefix + Len(g)
        /\ \A i \in 1 .. Prefix + Len(g) : (l \o g)[i] = IF i <= Prefix THEN l[i] ELSE g[i - Prefix]
    BY <1>2, ConcatProperties DEF l
  <1>5. Prefix + Len(g) = Len(h)
    BY <1>1
  <1>6. ASSUME NEW i \in 1 .. Len(h) PROVE (l \o g)[i] = h[i]
    <2>1. CASE i <= Prefix
      <3>1. i \in 1 .. Prefix
        BY <2>1, <1>1
      <3> QED
        BY <2>1, <3>1, <1>3, <1>4, <1>5
    <2>2. CASE ~(i <= Prefix)
      <3>1. i - Prefix \in 1 .. Len(g) /\ Prefix + (i - Prefix) = i
        BY <2>2, <1>1
      <3>2. g[i - Prefix] = h[i]
        BY <3>1
      <3> QED
        BY <2>2, <3>2, <1>4, <1>5
    <2> QED
      BY <2>1, <2>2
  <1>7. l \o g = h
    BY <1>4, <1>5, <1>6, SeqEqual
  <1> QED
    BY <1>1, <1>2, <1>3, <1>7 DEF l

-----------------------------------------------------------------------------
(* The parts of a state that meets the invariant, and what it implies.     *)

LEMMA Parts ==
    ASSUME SizeAssumption, Inv
    PROVE  /\ s \in BufferType /\ s.head \in 0 .. Size /\ s.tail \in 0 .. Size
           /\ q \in Seq(Cell) /\ Len(q) \in Nat
           /\ Length(r.n) \in Seq(Cell) /\ Len(Length(r.n)) = Prefix
           /\ Held \in Seq(Cell) /\ Base \in 0 .. Size
           /\ Len(Held) = IF r.pc = "restore" THEN Prefix + Len(q) ELSE Len(q)
           /\ w.n \in Nat /\ w.space \in Nat /\ r.n \in Nat /\ r.space \in Nat /\ r.tail \in 0 .. Size
           /\ Prefix \in Nat /\ Size \in Nat
  <1>1. /\ s \in BufferType /\ w \in CallType(WriterPlaces) /\ r \in CallType(ReaderPlaces)
        /\ q \in Seq(Cell) /\ Prefix \in Nat /\ Size \in Nat
    BY DEF Inv, TypeOK, SizeAssumption
  <1>2. /\ s.head \in 0 .. Size /\ s.tail \in 0 .. Size /\ Len(q) \in Nat
        /\ w.n \in Nat /\ w.space \in Nat /\ r.n \in Nat /\ r.space \in Nat /\ r.tail \in 0 .. Size
    BY <1>1 DEF BufferType, CallType
  <1>3. Length(r.n) \in Seq(Cell) /\ Len(Length(r.n)) = Prefix
    BY <1>2, CellFacts
  <1>4. Length(r.n) \o q \in Seq(Cell) /\ Len(Length(r.n) \o q) = Prefix + Len(q)
    BY <1>1, <1>3, ConcatProperties
  <1> QED
    BY <1>1, <1>2, <1>3, <1>4 DEF Held, Base

\* Between tail and head are the cells published and not read, also while the
\* reader has only taken a length that it will put back.
LEMMA InvHolds ==
    ASSUME SizeAssumption, Inv
    PROVE  Holds(s, s.tail, q) /\ prvBytesInBuffer(s) = Len(q)
           /\ xStreamBufferSpacesAvailable(s) = Size - Len(q)
  <1>1. Holds(s, Base, Held) /\ (r.pc = "restore" => s.tail = Wrap(r.tail + Prefix))
    BY DEF Inv, RingInv
  <1>2. CASE r.pc # "restore"
    BY <1>1, <1>2, Parts, HoldsCount DEF Held, Base
  <1>3. CASE r.pc = "restore"
    <2> DEFINE h == Length(r.n) \o q
    <2>1. Held = h /\ Base = r.tail
      BY <1>3 DEF Held, Base
    <2>2. /\ Len(h) = Prefix + Len(q) /\ h \in Seq(Cell)
          /\ \A i \in 1 .. Len(q) : h[Prefix + i] = q[i]
      <3>1. /\ h \in Seq(Cell) /\ Len(h) = Len(Length(r.n)) + Len(q)
            /\ \A i \in 1 .. Len(Length(r.n)) + Len(q) :
                  h[i] = IF i <= Len(Length(r.n)) THEN Length(r.n)[i] ELSE q[i - Len(Length(r.n))]
        BY Parts, ConcatProperties, Zenon
      <3>2. Len(Length(r.n)) = Prefix /\ Prefix \in Nat /\ Len(q) \in Nat
        BY Parts
      <3> HIDE DEF h
      <3>3. ASSUME NEW i \in 1 .. Len(q) PROVE h[Prefix + i] = q[i]
        <4>1. Prefix + i \in 1 .. Prefix + Len(q) /\ ~(Prefix + i <= Prefix) /\ (Prefix + i) - Prefix = i
          BY <3>2
        <4>2. h[Prefix + i] = q[(Prefix + i) - Prefix]
          BY <3>1, <3>2, <4>1
        <4> QED
          BY <4>1, <4>2
      <3> QED
        BY <3>1, <3>2, <3>3
    <2> HIDE DEF h
    <2>3. Prefix \in 0 .. Len(h)
      BY <2>2, Parts
    <2> DEFINE g == SubSeq(h, Prefix + 1, Len(h))
    <2>4. /\ g \in Seq(Cell) /\ Len(g) = Len(h) - Prefix
          /\ \A i \in 1 .. Len(h) - Prefix : g[i] = h[Prefix + i]
          /\ Holds(s, Wrap(r.tail + Prefix), g)
      <3>1. s \in BufferType /\ r.tail \in 0 .. Size /\ Holds(s, r.tail, h)
        BY <1>1, <2>1, Parts
      <3> QED
        BY <2>2, <2>3, <3>1, HoldsRead, Zenon
    <2> HIDE DEF g
    <2>5. g = q
      <3>1. Len(h) - Prefix = Len(q)
        BY <2>2, Parts
      <3> QED
        BY <2>2, <2>4, <3>1, Parts, SeqEqual
    <2>6. Holds(s, s.tail, q)
      BY <1>1, <1>3, <2>4, <2>5
    <2> QED
      BY <2>6, Parts, HoldsCount
  <1> QED
    BY <1>2, <1>3

LEMMA InvImplies ==
    ASSUME SizeAssumption, Inv
    PROVE  /\ Intact
           /\ WholeMessage
           /\ Prefix = 0 => WriterNotForgotten
  <1>1. Intact
    <2>1. Peek(s, Len(q)) = q
      BY InvHolds, Parts, HoldsPeek
    <2> QED
      BY <2>1, InvHolds DEF Intact
  <1>2. WholeMessage
    BY DEF WholeMessage, Inv, MessageInv
  <1>3. Prefix = 0 => WriterNotForgotten
    BY DEF WriterNotForgotten, Inv, StreamInv, WaitInv
  <1> QED
    BY <1>1, <1>2, <1>3

\* What the writer finds room for fits behind what is held: a length that is put
\* back needs no room that a message could use.
LEMMA SpaceFits ==
    ASSUME SizeAssumption, MessageAssumption, Inv, w.pc # "data", NEW n \in SendSizes,
           NEW k, k = Written(n, Size - Len(q)), k > 0
    PROVE  k \in Nat /\ Len(Held) + Prefix + k <= Size /\ (Prefix > 0 => n = m /\ k = m)
  <1>0. n \in Nat /\ Len(q) <= Size
    BY InvHolds, Parts DEF SizeAssumption, Holds
  <1>1. CASE Prefix = 0
    <2>1. Held = q
      BY <1>1 DEF Held, Inv, StreamInv
    <2> QED
      BY <1>0, <1>1, <2>1, Parts DEF Written, Least
  <1>2. CASE Prefix > 0
    <2>1. /\ SendSizes = {m} /\ m \in Nat \ {0} /\ Whole(Size)
          /\ Message \in Nat \ {0} /\ Message = Prefix + m
      BY <1>2, OneLength
    <2>2. n = m /\ k = m /\ Size - Len(q) >= Message
      BY <1>0, <1>2, <2>1, Parts DEF Written
    <2>3. CASE r.pc # "restore"
      BY <2>1, <2>2, <2>3, <1>2, Parts
    <2>4. CASE r.pc = "restore"
      <3>1. Full = Held /\ Whole(Len(Held))
        BY <1>2, <2>4 DEF Inv, MessageInv, Full, Held
      <3>2. Len(Held) < Size
        BY <2>1, <2>2, <2>4, <1>2, Parts
      <3>3. Len(Held) + Message <= Size
        BY <2>1, <3>1, <3>2, WholeFacts
      <3>4. Len(Held) \in Nat /\ Prefix \in Nat
        BY Parts, LenProperties
      <3> HIDE DEF Held
      <3> QED
        BY <2>1, <2>2, <3>3, <3>4, <1>2
    <2> QED
      BY <2>3, <2>4
  <1> QED
    BY <1>1, <1>2, Parts

\* More bytes than a length are a message.
LEMMA MoreThanLength ==
    ASSUME SizeAssumption, MessageAssumption, Inv, Prefix > 0, r.pc \notin {"data", "restore"},
           Len(q) > Prefix
    PROVE  Len(q) >= Message
  <1>1. Message \in Nat \ {0} /\ Message = Prefix + m /\ m \in Nat
    BY OneLength
  <1>2. Full = q
    BY DEF Full
  <1>3. CASE w.pc # "data"
    <2>1. Whole(Len(q)) /\ Len(q) > 0
      BY <1>2, <1>3, Parts DEF Inv, MessageInv
    <2> QED
      BY <1>1, <2>1, WholeFacts
  <1>4. CASE w.pc = "data"
    <2>1. Whole(Len(q) - Prefix) /\ Len(q) - Prefix > 0
      BY <1>2, <1>4, Parts DEF Inv, MessageInv
    <2>2. Len(q) - Prefix >= Message
      BY <1>1, <2>1, WholeFacts
    <2> QED
      BY <1>1, <2>2, Parts
  <1> QED
    BY <1>3, <1>4

-----------------------------------------------------------------------------
(* What steps do to the ring.                                              *)

\* The indices, the cells and what is published are as before.
Still == s'.head = s.head /\ s'.tail = s.tail /\ s'.buf = s.buf /\ q' = q

\* Neither before nor after the step is a length about to be put back.
NoRestore == r.pc # "restore" /\ r'.pc # "restore"

LEMMA StillKeeps ==
    ASSUME SizeAssumption, Inv, Still, r' = r \/ NoRestore
    PROVE  /\ RingInv'
           /\ Held' = Held
           /\ xStreamBufferSpacesAvailable(s)' = xStreamBufferSpacesAvailable(s)
           /\ prvBytesInBuffer(s)' = prvBytesInBuffer(s)
  <1>1. Held' = Held /\ Base' = Base
    BY DEF Held, Base, Still, NoRestore
  <1>2. Holds(s, Base, Held)' /\ (r'.pc = "restore" => s'.tail = Wrap(r'.tail + Prefix))
    BY <1>1 DEF Inv, RingInv, Holds, Still, NoRestore
  <1>3. RingInv'
    BY <1>2 DEF RingInv
  <1>4. /\ xStreamBufferSpacesAvailable(s)' = xStreamBufferSpacesAvailable(s)
        /\ prvBytesInBuffer(s)' = prvBytesInBuffer(s)
    BY DEF xStreamBufferSpacesAvailable, prvBytesInBuffer, Still
  <1> QED
    BY <1>1, <1>3, <1>4

\* A step of the writer that moves nothing.
LEMMA WriterStill ==
    ASSUME SizeAssumption, Inv, TypeOK', Still, r' = r, w' = w \/ (w.pc # "data" /\ w'.pc # "data"),
           w' # w => RoomInv', WaitInv' \/ Prefix > 0
    PROVE  Inv'
  <1>1. RingInv' /\ Held' = Held
    BY StillKeeps
  <1>2. RoomInv'
    <2>1. CASE w' = w
      BY <1>1, <2>1 DEF Inv, RoomInv, Written, Least
    <2> QED
      BY <2>1
  <1>3. CountInv'
    BY DEF Inv, CountInv, Still
  <1>4. StreamInv'
    BY Parts DEF Inv, StreamInv
  <1>5. MessageInv'
    <2>1. Full' = Full
      BY DEF Full, Still
    <2> HIDE DEF Full
    <2>2. Formed(Full)' = Formed(Full) /\ Whole(Len(Full))' = Whole(Len(Full))
          /\ Whole(Len(Full) - Prefix)' = Whole(Len(Full) - Prefix)
      BY <2>1 DEF Formed, Whole
    <2> QED
      BY <2>1, <2>2 DEF Inv, MessageInv
  <1> QED
    BY <1>1, <1>2, <1>3, <1>4, <1>5 DEF Inv

\* A step of the reader that moves nothing, outside the reading of a message.
LEMMA ReaderStill ==
    ASSUME SizeAssumption, Inv, TypeOK', Still, w' = w,
           r.pc \notin {"data", "restore"}, r'.pc \notin {"data", "restore"},
           CountInv', WaitInv' \/ Prefix > 0,
           Prefix > 0 /\ r'.pc = "length" /\ r'.space > Prefix => r'.space >= Message
    PROVE  Inv'
  <1>1. RingInv' /\ Held' = Held
    BY StillKeeps DEF NoRestore
  <1>2. RoomInv'
    BY <1>1 DEF Inv, RoomInv, Written, Least
  <1>3. StreamInv'
    BY Parts DEF Inv, StreamInv
  <1>4. MessageInv'
    <2>1. Full' = Full
      BY DEF Full, Still
    <2>2. Formed(Full)' = Formed(Full) /\ Whole(Len(Full))' = Whole(Len(Full))
          /\ Whole(Len(Full) - Prefix)' = Whole(Len(Full) - Prefix)
      BY <2>1 DEF Formed, Whole
    <2> QED
      BY <2>1, <2>2 DEF Inv, MessageInv
  <1> QED
    BY <1>1, <1>2, <1>3, <1>4 DEF Inv

\* A write of d behind what is held.
Writes(d) == LET c == prvWriteBytesToBuffer(s, d)
             IN s'.head = c.head /\ s'.tail = c.tail /\ s'.buf = c.buf /\ q' = q \o d

LEMMA WriteKeeps ==
    ASSUME SizeAssumption, Inv, r' = r, NEW d \in Seq(Cell), Writes(d), Len(Held) + Len(d) <= Size
    PROVE  /\ RingInv' /\ CountInv'
           /\ Len(Held') = Len(Held) + Len(d)
           /\ q' \in Seq(Cell) /\ Len(q') = Len(q) + Len(d)
           /\ Full' = Full \o d /\ Full \in Seq(Cell)
           /\ prvWriteBytesToBuffer(s, d) \in BufferType
           /\ LET c == prvWriteBytesToBuffer(s, d)
              IN c.trigger = s.trigger /\ c.rwait = s.rwait /\ c.swait = s.swait
  <1> DEFINE c == prvWriteBytesToBuffer(s, d)
  <1>1. /\ c \in BufferType /\ c.tail = s.tail
        /\ c.trigger = s.trigger /\ c.rwait = s.rwait /\ c.swait = s.swait
        /\ Holds(c, Base, Held \o d)
    BY Parts, HoldsWrite DEF Inv, RingInv
  <1> HIDE DEF c
  <1>2. s'.head = c.head /\ s'.tail = s.tail /\ s'.buf = c.buf /\ q' = q \o d
    BY <1>1 DEF Writes, c
  <1>3. q' \in Seq(Cell) /\ Len(q') = Len(q) + Len(d)
    BY <1>2, Parts, ConcatProperties
  <1>4. Held' = Held \o d /\ Base' = Base
    <2>1. (Length(r.n) \o q) \o d = Length(r.n) \o (q \o d)
      <3>1. Length(r.n) \in Seq(Cell) /\ q \in Seq(Cell)
        BY Parts
      <3> QED
        BY <3>1, ConcatAssociative
    <2> QED
      BY <1>2, <2>1 DEF Held, Base
  <1>5. Holds(s, Base, Held)'
    BY <1>1, <1>2, <1>4 DEF Holds
  <1>6. RingInv'
    BY <1>2, <1>5 DEF RingInv, Inv
  <1>7. CountInv'
    BY <1>3, Parts, LenProperties DEF CountInv, Inv
  <1>8. Len(Held') = Len(Held) + Len(d)
    BY <1>4, Parts, ConcatProperties
  <1>9. Full' = Full \o d /\ Full \in Seq(Cell)
    <2>1. CASE r.pc \in {"data", "restore"}
      <3>1. r.n \in Nat /\ (Prefix > 0 => r.n = m)
        BY <2>1, Parts DEF Inv, MessageInv
      <3>2. Length(m) \in Seq(Cell)
        <4>1. CASE Prefix > 0
          BY <3>1, <4>1, CellFacts
        <4>2. CASE Prefix = 0
          BY <4>2 DEF Length
        <4> QED
          BY <4>1, <4>2, Parts
      <3>3. (Length(m) \o q) \o d = Length(m) \o (q \o d)
        <4>1. q \in Seq(Cell)
          BY Parts
        <4> QED
          BY <3>2, <4>1, ConcatAssociative
      <3>4. Length(m) \o q \in Seq(Cell)
        BY <3>2, Parts, ConcatProperties
      <3> QED
        BY <2>1, <3>3, <3>4, <1>2 DEF Full
    <2>2. CASE r.pc \notin {"data", "restore"}
      BY <2>2, <1>2, Parts DEF Full
    <2> QED
      BY <2>1, <2>2
  <1> QED
    BY <1>1, <1>3, <1>6, <1>7, <1>8, <1>9 DEF c

\* A read of n cells that are there, after which no length is to be put back.
Takes(n) == s'.head = s.head /\ s'.buf = s.buf /\ s'.tail = (s.tail + n) % xLength
            /\ q' = SubSeq(q, n + 1, Len(q))

LEMMA ReadKeeps ==
    ASSUME SizeAssumption, Inv, NEW n \in 0 .. Len(q), Takes(n), NoRestore, s' \in BufferType
    PROVE  /\ RingInv'
           /\ Held = q /\ Held' = q'
           /\ q' \in Seq(Cell) /\ Len(q') = Len(q) - n
           /\ \A i \in 1 .. Len(q') : q'[i] = q[n + i]
  <1>1. Held = q /\ Base = s.tail /\ Held' = q' /\ Base' = s'.tail
    BY DEF Held, Base, NoRestore
  <1>2. /\ (s.tail + n) % xLength = Wrap(s.tail + n) /\ Wrap(s.tail + n) \in 0 .. Size
        /\ q' \in Seq(Cell) /\ Len(q') = Len(q) - n
        /\ \A i \in 1 .. Len(q) - n : q'[i] = q[n + i]
        /\ Holds(s', Wrap(s.tail + n), q')
    <2>1. /\ Holds(s, s.tail, q) /\ s \in BufferType /\ s.tail \in 0 .. Size /\ q \in Seq(Cell)
          /\ s'.buf = s.buf /\ s'.head = s.head /\ q' = SubSeq(q, n + 1, Len(q))
      BY InvHolds, Parts DEF Takes
    <2>2. /\ (s.tail + n) % xLength = Wrap(s.tail + n) /\ Wrap(s.tail + n) \in 0 .. Size
          /\ SubSeq(q, n + 1, Len(q)) \in Seq(Cell) /\ Len(SubSeq(q, n + 1, Len(q))) = Len(q) - n
          /\ \A i \in 1 .. Len(q) - n : SubSeq(q, n + 1, Len(q))[i] = q[n + i]
          /\ Holds(s', Wrap(s.tail + n), SubSeq(q, n + 1, Len(q)))
      BY <2>1, HoldsRead, Zenon
    <2> QED
      BY <2>1, <2>2, Zenon
  <1>3. RingInv'
    BY <1>1, <1>2 DEF RingInv, Takes, NoRestore
  <1> QED
    BY <1>1, <1>2, <1>3

\* Reading leaves room for what the writer counted on.
LEMMA RoomLeft ==
    ASSUME SizeAssumption, Inv, w' = w, Len(Held') \in Nat, Len(Held') <= Len(Held)
    PROVE  RoomInv'
  <1> DEFINE k == Written(w.n, w.space)
  <1>1. k' = k
    BY DEF Written, Least
  <1>2. k \in Nat
    BY Parts DEF Written, Least
  <1>3. Len(Held) \in Nat
    BY Parts, LenProperties
  <1> HIDE DEF k
  <1>4. /\ w.pc \in {"check", "wait", "awake", "space", "length"} /\ k > 0
              => Len(Held) + Prefix + k <= Size
        /\ w.pc = "data" => k > 0 /\ Len(Held) + k <= Size
    BY DEF Inv, RoomInv, k
  <1>5. /\ w.pc \in {"check", "wait", "awake", "space", "length"} /\ k > 0
              => Len(Held') + Prefix + k <= Size
        /\ w.pc = "data" => k > 0 /\ Len(Held') + k <= Size
    <2>1. Prefix \in Nat /\ Size \in Nat
      BY Parts
    <2>2. ASSUME NEW x \in Nat, x <= Size, Len(Held') <= Len(Held), Len(Held) + x <= Size
          PROVE  Len(Held') + x <= Size
      BY <2>1, <2>2, <1>3
    <2> QED
      BY <1>2, <1>3, <1>4, <2>1
  <1> QED
    BY <1>1, <1>5 DEF RoomInv, k

\* A message taken away leaves messages.
LEMMA MessageGone ==
    ASSUME SizeAssumption, MessageAssumption, Prefix > 0, NEW h \in Seq(Cell), NEW g \in Seq(Cell),
           NEW part \in BOOLEAN,
           Formed(h), ~part => Whole(Len(h)), part => Whole(Len(h) - Prefix), Len(h) >= Message,
           Len(g) = Len(h) - Message, \A i \in 1 .. Len(g) : g[i] = h[Message + i]
    PROVE  /\ Formed(g) /\ (~part => Whole(Len(g)))
           /\ part => Prefix <= Len(g) /\ Whole(Len(g) - Prefix)
  <1>1. /\ m \in Nat \ {0} /\ Prefix \in Nat \ {0} /\ Message \in Nat \ {0} /\ Message = Prefix + m
        /\ Len(h) \in Nat /\ Len(g) \in Nat
    BY OneLength, LenProperties
  <1>2. Formed(g)
    BY FormedRest
  <1>3. ~part => Whole(Len(g))
    BY <1>1, WholeFacts
  <1>4. ASSUME part PROVE Prefix <= Len(g) /\ Whole(Len(g) - Prefix)
    <2>1. Whole(Len(h) - Prefix) /\ Len(h) - Prefix > 0
      BY <1>1, <1>4
    <2>2. Len(h) - Prefix >= Message /\ Whole((Len(h) - Prefix) - Message)
      BY <1>1, <2>1, WholeFacts
    <2>3. (Len(h) - Prefix) - Message = Len(g) - Prefix
      BY <1>1
    <2> QED
      BY <1>1, <2>2, <2>3
  <1> QED
    BY <1>2, <1>3, <1>4

-----------------------------------------------------------------------------
(* The steps of the writer.                                                *)

LEMMA IdleType == /\ SizeAssumption => Idle \in CallType(WriterPlaces) /\ Idle \in CallType(ReaderPlaces)
                  /\ Idle.pc = "out"
  BY DEF Idle, CallType, WriterPlaces, ReaderPlaces, SizeAssumption

\* What is known of the types, without the definitions of the invariant.
LEMMA Types ==
    ASSUME Inv
    PROVE  /\ s \in BufferType /\ w \in CallType(WriterPlaces) /\ r \in CallType(ReaderPlaces)
           /\ note \in [writer : BOOLEAN, reader : BOOLEAN]
           /\ q \in Seq(Cell) /\ (w.pc # "out" => w.n \in SendSizes)
  BY DEF Inv, TypeOK

LEMMA SendNext ==
    ASSUME SizeAssumption, Inv, NEW n \in SendSizes, NEW b \in BOOLEAN, xStreamBufferSend(n, b)
    PROVE  Inv'
  <1>1. /\ w.pc = "out" /\ s' = s /\ r' = r /\ note' = note /\ q' = q
        /\ w' = [Idle EXCEPT !.pc = IF b THEN "check" ELSE "space", !.n = n, !.block = b]
    BY DEF xStreamBufferSend
  <1>2. n \in Nat
    BY DEF SizeAssumption
  <1>3. w' \in CallType(WriterPlaces) /\ w'.n = n /\ w'.space = 0 /\ w'.pc \in {"check", "space"}
    BY <1>1, <1>2, IdleType DEF CallType, WriterPlaces, Idle, SizeAssumption
  <1>4. TypeOK'
    BY <1>1, <1>3, Types DEF TypeOK
  <1>5. RoomInv'
    BY <1>3 DEF RoomInv, Written
  <1>6. WaitInv'
    BY <1>3 DEF WaitInv
  <1> QED
    BY <1>1, <1>3, <1>4, <1>5, <1>6, WriterStill DEF Still

LEMMA SendCheckNext ==
    ASSUME SizeAssumption, MessageAssumption, Inv, SendCheck
    PROVE  Inv'
  <1> DEFINE space == xStreamBufferSpacesAvailable(s)
             far == [w EXCEPT !.pc = "wait", !.space = space]
             near == [w EXCEPT !.pc = "space", !.space = space]
  <1>1. w.pc = "check" /\ r' = r /\ q' = q
    BY DEF SendCheck
  <1>2. space \in Nat /\ space = Size - Len(q) /\ w.n \in SendSizes /\ Written(w.n, space) \in Nat
    <2>1. Len(q) <= Size /\ space = Size - Len(q) /\ Len(q) \in Nat /\ Size \in Nat /\ w.n \in Nat
      BY InvHolds, Parts DEF Holds
    <2>2. w.n \in SendSizes
      BY <1>1, Types
    <2> QED
      BY <2>1, <2>2 DEF Written, Least
  <1>3. Written(w.n, space) > 0 => Len(Held) + Prefix + Written(w.n, space) <= Size
    BY <1>1, <1>2, SpaceFits
  <1> HIDE DEF space
  <1>4. ASSUME space < w.n + Prefix, w' = far, s' = [s EXCEPT !.swait = TRUE],
               note' = [note EXCEPT !.writer = FALSE]
        PROVE  Inv'
    <2>1. /\ w' \in CallType(WriterPlaces) /\ w'.pc = "wait" /\ w'.n = w.n /\ w'.space = space
          /\ s' \in BufferType /\ s'.swait /\ note' \in [writer : BOOLEAN, reader : BOOLEAN]
      BY <1>2, <1>4, Types DEF CallType, WriterPlaces, BufferType
    <2>2. TypeOK'
      BY <1>1, <1>2, <2>1, Types DEF TypeOK
    <2>3. Still
      BY <1>1, <1>4, Types DEF Still, BufferType
    <2>4. Held' = Held /\ xStreamBufferSpacesAvailable(s)' = space
      BY <1>1, <2>3, StillKeeps DEF space
    <2>5. RoomInv'
      BY <1>3, <2>1, <2>4 DEF RoomInv, Written, Least
    <2>6. WaitInv'
      BY <1>4, <2>1, <2>4, <1>2, Parts DEF WaitInv
    <2> QED
      BY <1>1, <2>1, <2>2, <2>3, <2>5, <2>6, WriterStill
  <1>5. ASSUME w' = near, s' = s, note' = note
        PROVE  Inv'
    <2>1. w' \in CallType(WriterPlaces) /\ w'.pc = "space" /\ w'.n = w.n /\ w'.space = space
      BY <1>2, <1>5, Types DEF CallType, WriterPlaces
    <2>2. TypeOK'
      BY <1>1, <1>2, <1>5, <2>1, Types DEF TypeOK
    <2>3. Still
      BY <1>1, <1>5 DEF Still
    <2>4. Held' = Held
      BY <1>1, <2>3, StillKeeps
    <2>5. RoomInv'
      BY <1>3, <2>1, <2>4 DEF RoomInv, Written, Least
    <2>6. WaitInv'
      BY <2>1 DEF WaitInv
    <2> QED
      BY <1>1, <2>1, <2>2, <2>3, <2>5, <2>6, WriterStill
  <1> QED
    BY <1>4, <1>5 DEF SendCheck, space

LEMMA SendWakesNext ==
    ASSUME SizeAssumption, Inv, SendWakes
    PROVE  Inv'
  <1>1. /\ w.pc = "wait" /\ s' = s /\ r' = r /\ q' = q
        /\ note' = [note EXCEPT !.writer = FALSE]
        /\ w' = [w EXCEPT !.pc = "awake"] \/ w' = [w EXCEPT !.pc = "awake", !.late = TRUE]
    BY DEF SendWakes
  <1>2. /\ w' \in CallType(WriterPlaces) /\ w'.pc = "awake" /\ w'.n = w.n /\ w'.space = w.space
        /\ note' \in [writer : BOOLEAN, reader : BOOLEAN]
    BY <1>1, Types DEF CallType, WriterPlaces
  <1>3. TypeOK'
    BY <1>1, <1>2, Types DEF TypeOK
  <1>4. Still
    BY <1>1 DEF Still
  <1>5. Held' = Held
    BY <1>1, <1>4, StillKeeps
  <1>6. RoomInv'
    BY <1>1, <1>2, <1>5 DEF Inv, RoomInv, Written, Least
  <1>7. WaitInv'
    BY <1>2 DEF WaitInv
  <1> QED
    BY <1>1, <1>2, <1>3, <1>4, <1>6, <1>7, WriterStill

LEMMA SendAwakeNext ==
    ASSUME SizeAssumption, Inv, SendAwake
    PROVE  Inv'
  <1>1. /\ w.pc = "awake" /\ r' = r /\ q' = q /\ note' = note
        /\ s' = [s EXCEPT !.swait = FALSE]
        /\ w' = [w EXCEPT !.pc = IF w.late THEN "space" ELSE "check"]
    BY DEF SendAwake
  <1>2. /\ w' \in CallType(WriterPlaces) /\ w'.pc \in {"space", "check"}
        /\ w'.n = w.n /\ w'.space = w.space /\ s' \in BufferType
    BY <1>1, Types DEF CallType, WriterPlaces, BufferType
  <1>3. TypeOK'
    BY <1>1, <1>2, Types DEF TypeOK
  <1>4. Still
    BY <1>1, Types DEF Still, BufferType
  <1>5. Held' = Held
    BY <1>1, <1>4, StillKeeps
  <1>6. RoomInv'
    BY <1>1, <1>2, <1>5 DEF Inv, RoomInv, Written, Least
  <1>7. WaitInv'
    BY <1>2 DEF WaitInv
  <1> QED
    BY <1>1, <1>2, <1>3, <1>4, <1>6, <1>7, WriterStill

LEMMA SendSpaceNext ==
    ASSUME SizeAssumption, MessageAssumption, Inv, SendSpace
    PROVE  Inv'
  <1> DEFINE space == IF w.space = 0 THEN xStreamBufferSpacesAvailable(s) ELSE w.space
  <1>1. /\ w.pc = "space" /\ s' = s /\ r' = r /\ q' = q /\ note' = note
        /\ w' = [w EXCEPT !.pc = "length", !.space = space]
    BY DEF SendSpace
  <1>2. /\ xStreamBufferSpacesAvailable(s) \in Nat /\ xStreamBufferSpacesAvailable(s) = Size - Len(q)
        /\ w.n \in SendSizes /\ w.n \in Nat /\ w.space \in Nat
    <2>1. /\ Len(q) <= Size /\ Len(q) \in Nat /\ Size \in Nat /\ w.n \in Nat /\ w.space \in Nat
          /\ xStreamBufferSpacesAvailable(s) = Size - Len(q)
      BY InvHolds, Parts DEF Holds
    <2>2. w.n \in SendSizes
      BY <1>1, Types
    <2> QED
      BY <2>1, <2>2
  <1>3. space \in Nat
    BY <1>2
  <1>4. Written(w.n, space) > 0 => Len(Held) + Prefix + Written(w.n, space) <= Size
    <2>1. CASE w.space = 0
      <3>1. space = Size - Len(q)
        BY <1>2, <2>1
      <3> HIDE DEF space
      <3> QED
        BY <1>1, <1>2, <3>1, SpaceFits
    <2>2. CASE w.space # 0
      <3>1. space = w.space
        BY <2>2
      <3> HIDE DEF space
      <3> QED
        BY <1>1, <3>1 DEF Inv, RoomInv
    <2> QED
      BY <2>1, <2>2
  <1> HIDE DEF space
  <1>5. w' \in CallType(WriterPlaces) /\ w'.pc = "length" /\ w'.n = w.n /\ w'.space = space
    BY <1>1, <1>3, Types DEF CallType, WriterPlaces
  <1>6. TypeOK'
    BY <1>1, <1>2, <1>5, Types DEF TypeOK
  <1>7. Still
    BY <1>1 DEF Still
  <1>8. Held' = Held
    BY <1>1, <1>7, StillKeeps
  <1>9. RoomInv'
    BY <1>4, <1>5, <1>8 DEF RoomInv, Written, Least
  <1>10. WaitInv'
    BY <1>5 DEF WaitInv
  <1> QED
    BY <1>1, <1>5, <1>6, <1>7, <1>9, <1>10, WriterStill

\* A writer whose call is over.
LEMMA WriterLeaves ==
    ASSUME SizeAssumption, Inv, Still, r' = r, s' \in BufferType,
           note' \in [writer : BOOLEAN, reader : BOOLEAN], w.pc # "data", w' = Idle
    PROVE  Inv'
  <1>1. w' \in CallType(WriterPlaces) /\ w'.pc = "out"
    BY IdleType
  <1>2. TypeOK'
    BY <1>1, Types DEF TypeOK, Still
  <1>3. RoomInv' /\ WaitInv'
    BY <1>1 DEF RoomInv, WaitInv
  <1> QED
    BY <1>1, <1>2, <1>3, WriterStill

\* A notification of the reader leaves the ring and the writer's registration alone.
LEMMA CompletedType ==
    ASSUME NEW b \in BufferType, note \in [writer : BOOLEAN, reader : BOOLEAN], SendCompleted(b)
    PROVE  /\ s' \in BufferType /\ s'.head = b.head /\ s'.tail = b.tail /\ s'.buf = b.buf
           /\ s'.swait = b.swait
           /\ note' \in [writer : BOOLEAN, reader : BOOLEAN] /\ note'.writer = note.writer
  BY DEF SendCompleted, BufferType

LEMMA SendEndsNext ==
    ASSUME SizeAssumption, Inv, SendEnds
    PROVE  Inv'
  <1>1. w.pc = "sent" /\ SendCompleted(s) /\ w' = Idle /\ r' = r /\ q' = q
    BY DEF SendEnds
  <1>2. /\ s' \in BufferType /\ note' \in [writer : BOOLEAN, reader : BOOLEAN]
        /\ s'.head = s.head /\ s'.tail = s.tail /\ s'.buf = s.buf
    BY <1>1, Types, CompletedType
  <1> QED
    BY <1>1, <1>2, WriterLeaves DEF Still

\* What the writer writes once it is about to.
LEMMA WrittenFacts ==
    ASSUME SizeAssumption, MessageAssumption, NEW n \in SendSizes, NEW space \in Nat,
           Written(n, space) > 0
    PROVE  n \in Nat /\ Written(n, space) \in Nat /\ (Prefix > 0 => n = m /\ Written(n, space) = m)
  <1>1. n \in Nat /\ Prefix \in Nat
    BY DEF SizeAssumption
  <1>2. Prefix > 0 => n = m
    BY OneLength
  <1> QED
    BY <1>1, <1>2 DEF Written, Least

LEMMA SendLengthNext ==
    ASSUME SizeAssumption, MessageAssumption, Inv, SendLength
    PROVE  Inv'
  <1> DEFINE k == Written(w.n, w.space)
             d == Length(w.n)
  <1>1. w.pc = "length" /\ r' = r /\ note' = note /\ w.n \in SendSizes /\ w.n \in Nat /\ w.space \in Nat
    BY Types, Parts DEF SendLength
  <1>2. CASE k = 0
    BY <1>1, <1>2, Types, WriterLeaves DEF SendLength, Still
  <1>3. CASE k # 0
    <2>1. s' = prvWriteBytesToBuffer(s, d) /\ q' = q \o d /\ w' = [w EXCEPT !.pc = "data"]
      BY <1>3 DEF SendLength
    <2>2. k \in Nat /\ k > 0
      BY <1>1, <1>3, Parts DEF Written, Least
    <2>3. Len(Held) + Prefix + k <= Size
      BY <1>1, <2>2 DEF Inv, RoomInv
    <2>4. d \in Seq(Cell) /\ Len(d) = Prefix
      BY <1>1, CellFacts
    <2>5. Len(Held) \in Nat /\ Prefix \in Nat /\ Size \in Nat
      BY Parts, LenProperties
    <2>6. Prefix > 0 => w.n = m /\ k = m
      BY <1>1, <2>2, WrittenFacts
    <2>7. w' \in CallType(WriterPlaces) /\ w'.pc = "data" /\ w'.n = w.n /\ w'.space = w.space
      BY <2>1, Types DEF CallType, WriterPlaces
    <2> HIDE DEF k, d
    <2>8. /\ RingInv' /\ CountInv' /\ Len(Held') = Len(Held) + Len(d) /\ q' \in Seq(Cell)
          /\ Full' = Full \o d /\ Full \in Seq(Cell) /\ prvWriteBytesToBuffer(s, d) \in BufferType
      <3>1. Writes(d)
        BY <2>1 DEF Writes
      <3>2. Len(Held) + Len(d) <= Size
        BY <2>2, <2>3, <2>4, <2>5
      <3> QED
        BY <1>1, <2>4, <3>1, <3>2, WriteKeeps
    <2>9. TypeOK'
      BY <1>1, <2>1, <2>7, <2>8, Types DEF TypeOK
    <2>10. RoomInv'
      <3>1. Written(w.n, w.space)' = k
        BY <2>7 DEF Written, Least, k
      <3>2. Len(Held') + k <= Size
        BY <2>2, <2>3, <2>4, <2>5, <2>8
      <3> QED
        BY <2>2, <2>7, <3>1, <3>2 DEF RoomInv
    <2>11. StreamInv'
      BY <1>1, <2>7 DEF Inv, StreamInv, WaitInv
    <2>12. MessageInv'
      <3> SUFFICES ASSUME Prefix > 0 PROVE MessageInv'
        BY DEF MessageInv
      <3>1. d = Length(m)
        BY <2>6 DEF d
      <3>2. Formed(Full) /\ Whole(Len(Full))
        BY <1>1 DEF Inv, MessageInv
      <3>3. Formed(Full \o d) /\ Whole(Len(Full \o d) - Prefix)
        BY <2>8, <3>1, <3>2, FormedLength
      <3>4. Prefix <= Len(Full \o d)
        BY <2>4, <2>5, <2>8, ConcatProperties, LenProperties
      <3>5. /\ r'.pc = "length" /\ r'.space > Prefix => r'.space >= Message
            /\ r'.pc = "data" => r'.n = m /\ r'.space >= m
            /\ r'.pc = "restore" => r'.n = m
        BY <1>1 DEF Inv, MessageInv
      <3>6. Formed(Full)' /\ Whole(Len(Full) - Prefix)' /\ Prefix <= Len(Full)'
        BY <2>8, <3>3, <3>4 DEF Formed, Whole
      <3> QED
        BY <2>7, <3>5, <3>6 DEF MessageInv
    <2> QED
      BY <2>8, <2>9, <2>10, <2>11, <2>12 DEF Inv
  <1> QED
    BY <1>2, <1>3

LEMMA SendDataNext ==
    ASSUME SizeAssumption, MessageAssumption, Inv, SendData
    PROVE  Inv'
  <1> DEFINE k == Written(w.n, w.space)
             d == Cells(k)
  <1>1. /\ w.pc = "data" /\ r' = r /\ note' = note /\ w.n \in SendSizes /\ w.n \in Nat /\ w.space \in Nat
        /\ s' = prvWriteBytesToBuffer(s, d) /\ q' = q \o d /\ w' = [w EXCEPT !.pc = "sent"]
    BY Types, Parts DEF SendData
  <1>2. k > 0 /\ Len(Held) + k <= Size
    BY <1>1 DEF Inv, RoomInv
  <1>3. k \in Nat /\ (Prefix > 0 => k = m)
    BY <1>1, <1>2, WrittenFacts
  <1>4. d \in Seq(Cell) /\ Len(d) = k
    BY <1>3, CellFacts
  <1>5. w' \in CallType(WriterPlaces) /\ w'.pc = "sent" /\ w'.n = w.n
    BY <1>1, Types DEF CallType, WriterPlaces
  <1> HIDE DEF k
  <1>6. Prefix > 0 => d = Cells(m)
    BY <1>3
  <1> HIDE DEF d
  <1>7. /\ RingInv' /\ CountInv' /\ q' \in Seq(Cell)
        /\ Full' = Full \o d /\ Full \in Seq(Cell) /\ prvWriteBytesToBuffer(s, d) \in BufferType
    <2>1. Writes(d)
      BY <1>1 DEF Writes
    <2> QED
      BY <1>1, <1>2, <1>4, <2>1, WriteKeeps
  <1>8. TypeOK'
    BY <1>1, <1>5, <1>7, Types DEF TypeOK
  <1>9. RoomInv'
    BY <1>5 DEF RoomInv
  <1>10. StreamInv'
    BY <1>1, <1>5 DEF Inv, StreamInv, WaitInv
  <1>11. MessageInv'
    <2> SUFFICES ASSUME Prefix > 0 PROVE MessageInv'
      BY DEF MessageInv
    <2>1. Formed(Full) /\ Prefix <= Len(Full) /\ Whole(Len(Full) - Prefix)
      BY <1>1 DEF Inv, MessageInv
    <2>2. Formed(Full \o d) /\ Whole(Len(Full \o d))
      BY <1>6, <1>7, <2>1, FormedBytes
    <2>3. /\ r'.pc = "length" /\ r'.space > Prefix => r'.space >= Message
          /\ r'.pc = "data" => r'.n = m /\ r'.space >= m
          /\ r'.pc = "restore" => r'.n = m
      BY <1>1 DEF Inv, MessageInv
    <2>4. Formed(Full)' /\ Whole(Len(Full))'
      BY <1>7, <2>2 DEF Formed, Whole
    <2> QED
      BY <1>5, <2>3, <2>4 DEF MessageInv
  <1> QED
    BY <1>7, <1>8, <1>9, <1>10, <1>11 DEF Inv

LEMMA SendFromISRNext ==
    ASSUME SizeAssumption, MessageAssumption, Inv, NEW n \in SendSizes, xStreamBufferSendFromISR(n)
    PROVE  Inv'
  <1> DEFINE k == Written(n, xStreamBufferSpacesAvailable(s))
             d == Length(n) \o Cells(k)
             c == prvWriteBytesToBuffer(s, d)
  <1>1. /\ w.pc = "out" /\ k > 0 /\ SendCompleted(c) /\ q' = q \o d /\ w' = w /\ r' = r
    BY DEF xStreamBufferSendFromISR
  <1>2. k = Written(n, Size - Len(q))
    BY InvHolds
  <1> HIDE DEF k
  <1>3. k \in Nat /\ Len(Held) + Prefix + k <= Size /\ (Prefix > 0 => n = m /\ k = m) /\ n \in Nat
    BY <1>1, <1>2, SpaceFits DEF SizeAssumption
  <1>4. /\ Length(n) \in Seq(Cell) /\ Len(Length(n)) = Prefix
        /\ Cells(k) \in Seq(Cell) /\ Len(Cells(k)) = k
    BY <1>3, CellFacts
  <1>5. d \in Seq(Cell) /\ Len(d) = Prefix + k
    BY <1>4, ConcatProperties
  <1> HIDE DEF d
  <1>6. Len(Held) \in Nat /\ Prefix \in Nat /\ Size \in Nat
    BY Parts, LenProperties
  <1>7. Len(Held) + Len(d) <= Size
    BY <1>3, <1>5, <1>6
  <1>8. c \in BufferType /\ c.swait = s.swait
    BY <1>5, <1>7, Parts, HoldsWrite DEF Inv, RingInv
  <1> HIDE DEF c
  <1>9. /\ s' \in BufferType /\ s'.head = c.head /\ s'.tail = c.tail /\ s'.buf = c.buf
        /\ s'.swait = s.swait
        /\ note' \in [writer : BOOLEAN, reader : BOOLEAN] /\ note'.writer = note.writer
    BY <1>1, <1>8, Types, CompletedType
  <1>10. Writes(d)
    BY <1>1, <1>9 DEF Writes, c
  <1>11. RingInv' /\ CountInv' /\ q' \in Seq(Cell) /\ Full' = Full \o d /\ Full \in Seq(Cell)
    BY <1>1, <1>5, <1>7, <1>10, WriteKeeps
  <1>12. TypeOK'
    BY <1>1, <1>9, <1>11, Types DEF TypeOK
  <1>13. RoomInv'
    BY <1>1 DEF RoomInv
  <1>14. StreamInv'
    BY <1>1 DEF Inv, StreamInv, WaitInv
  <1>15. MessageInv'
    <2> SUFFICES ASSUME Prefix > 0 PROVE MessageInv'
      BY DEF MessageInv
    <2>1. Formed(Full) /\ Whole(Len(Full))
      BY <1>1 DEF Inv, MessageInv
    <2> DEFINE h == Full \o Length(m)
    <2>2. Length(m) \in Seq(Cell) /\ Len(Length(m)) = Prefix /\ Cells(m) \in Seq(Cell)
      BY <1>3, <1>4
    <2>3. h \in Seq(Cell) /\ Len(h) = Len(Full) + Prefix
      BY <1>11, <2>2, ConcatProperties
    <2>4. Formed(h) /\ Whole(Len(h) - Prefix) /\ Prefix <= Len(h)
      <3>1. Len(Full) \in Nat
        BY <1>11, LenProperties
      <3>2. Formed(h) /\ Whole(Len(h) - Prefix)
        BY <1>11, <2>1, FormedLength
      <3> HIDE DEF h
      <3> QED
        BY <3>1, <3>2, <2>3, <1>6
    <2>5. Formed(h \o Cells(m)) /\ Whole(Len(h \o Cells(m)))
      <3> HIDE DEF h
      <3> QED
        BY <2>3, <2>4, FormedBytes
    <2>6. Full \o d = h \o Cells(m)
      <3>1. (Full \o Length(m)) \o Cells(m) = Full \o (Length(m) \o Cells(m))
        BY <1>11, <2>2, ConcatAssociative
      <3> QED
        BY <3>1, <1>3 DEF d
    <2>7. /\ r'.pc = "length" /\ r'.space > Prefix => r'.space >= Message
          /\ r'.pc = "data" => r'.n = m /\ r'.space >= m
          /\ r'.pc = "restore" => r'.n = m
      BY <1>1 DEF Inv, MessageInv
    <2>8. Formed(Full)' /\ Whole(Len(Full))'
      <3> HIDE DEF h
      <3> QED
        BY <1>11, <2>5, <2>6 DEF Formed, Whole
    <2> QED
      BY <1>1, <2>7, <2>8 DEF MessageInv
  <1> QED
    BY <1>11, <1>12, <1>13, <1>14, <1>15 DEF Inv

\* The handler of another buffer's notification, the reset and the trigger level.
LEMMA SendCompletedNext ==
    ASSUME SizeAssumption, Inv, xStreamBufferSendCompletedFromISR
    PROVE  Inv'
  <1>1. /\ s' = [s EXCEPT !.rwait = FALSE] /\ note' = [note EXCEPT !.reader = TRUE]
        /\ w' = w /\ r' = r /\ q' = q
    BY DEF xStreamBufferSendCompletedFromISR
  <1>2. /\ s' \in BufferType /\ s'.head = s.head /\ s'.tail = s.tail /\ s'.buf = s.buf
        /\ s'.swait = s.swait
        /\ note' \in [writer : BOOLEAN, reader : BOOLEAN] /\ note'.writer = note.writer
    BY <1>1, Types DEF BufferType
  <1>3. TypeOK' /\ Still
    BY <1>1, <1>2, Types DEF TypeOK, Still
  <1>4. xStreamBufferSpacesAvailable(s)' = xStreamBufferSpacesAvailable(s)
    BY <1>1, <1>3, StillKeeps
  <1>5. WaitInv' \/ Prefix > 0
    BY <1>1, <1>2, <1>4, Parts DEF Inv, StreamInv, WaitInv
  <1> QED
    BY <1>1, <1>3, <1>5, WriterStill

LEMMA SetTriggerNext ==
    ASSUME SizeAssumption, Inv, NEW level \in Triggers, xStreamBufferSetTriggerLevel(level)
    PROVE  Inv'
  <1>1. s' = [s EXCEPT !.trigger = AtLeastOne(level)] /\ note' = note /\ w' = w /\ r' = r /\ q' = q
    BY DEF xStreamBufferSetTriggerLevel
  <1>2. AtLeastOne(level) \in Nat
    BY DEF AtLeastOne, SizeAssumption
  <1>3. /\ s' \in BufferType /\ s'.head = s.head /\ s'.tail = s.tail /\ s'.buf = s.buf
        /\ s'.swait = s.swait
    BY <1>1, <1>2, Types DEF BufferType
  <1>4. TypeOK' /\ Still
    BY <1>1, <1>3, Types DEF TypeOK, Still
  <1>5. xStreamBufferSpacesAvailable(s)' = xStreamBufferSpacesAvailable(s)
    BY <1>1, <1>4, StillKeeps
  <1>6. WaitInv' \/ Prefix > 0
    BY <1>1, <1>3, <1>5, Parts DEF Inv, StreamInv, WaitInv
  <1> QED
    BY <1>1, <1>4, <1>6, WriterStill

-----------------------------------------------------------------------------
(* The steps of the reader, and the reset.                                 *)

LEMMA ReceiveNext ==
    ASSUME SizeAssumption, MessageAssumption, Inv, NEW n \in ReadSizes, NEW b \in BOOLEAN,
           xStreamBufferReceive(n, b)
    PROVE  Inv'
  <1> DEFINE avail == prvBytesInBuffer(s)
             call == [Idle EXCEPT !.n = n, !.space = avail, !.block = b]
  <1>1. r.pc = "out" /\ w' = w /\ q' = q
    BY DEF xStreamBufferReceive
  <1>2. n \in Nat /\ avail = Len(q) /\ avail \in Nat
    BY InvHolds, Parts DEF SizeAssumption
  <1>3. Prefix > 0 /\ avail > Prefix => avail >= Message
    BY <1>1, <1>2, MoreThanLength
  <1> HIDE DEF avail
  <1>4. /\ s' \in BufferType /\ s'.head = s.head /\ s'.tail = s.tail /\ s'.buf = s.buf
        /\ s'.swait = s.swait
        /\ note' \in [writer : BOOLEAN, reader : BOOLEAN] /\ note'.writer = note.writer
        /\ r' = [call EXCEPT !.pc = "wait"] \/ r' = [call EXCEPT !.pc = "length"]
    BY Types DEF xStreamBufferReceive, BufferType, avail
  <1>5. /\ r' \in CallType(ReaderPlaces) /\ r'.pc \in {"wait", "length"} /\ r'.space = avail
    BY <1>2, <1>4, IdleType DEF CallType, ReaderPlaces, Idle, SizeAssumption
  <1>6. TypeOK' /\ Still
    BY <1>1, <1>4, <1>5, Types DEF TypeOK, Still
  <1>7. CountInv'
    BY <1>1, <1>2, <1>5 DEF CountInv
  <1>8. xStreamBufferSpacesAvailable(s)' = xStreamBufferSpacesAvailable(s)
    BY <1>1, <1>5, <1>6, StillKeeps DEF NoRestore
  <1>9. WaitInv' \/ Prefix > 0
    BY <1>1, <1>4, <1>8, Parts DEF Inv, StreamInv, WaitInv
  <1> QED
    BY <1>1, <1>3, <1>5, <1>6, <1>7, <1>9, ReaderStill

LEMMA ReceiveWakesNext ==
    ASSUME SizeAssumption, Inv, ReceiveWakes
    PROVE  Inv'
  <1>1. /\ r.pc = "wait" /\ s' = s /\ w' = w /\ q' = q
        /\ r' = [r EXCEPT !.pc = "awake"] /\ note' = [note EXCEPT !.reader = FALSE]
    BY DEF ReceiveWakes
  <1>2. /\ r' \in CallType(ReaderPlaces) /\ r'.pc = "awake"
        /\ note' \in [writer : BOOLEAN, reader : BOOLEAN] /\ note'.writer = note.writer
    BY <1>1, Types DEF CallType, ReaderPlaces
  <1>3. TypeOK' /\ Still
    BY <1>1, <1>2, Types DEF TypeOK, Still
  <1>4. CountInv'
    BY <1>2 DEF CountInv
  <1>5. WaitInv' \/ Prefix > 0
    BY <1>1, <1>2, Parts
       DEF Inv, StreamInv, WaitInv, xStreamBufferSpacesAvailable
  <1> QED
    BY <1>1, <1>2, <1>3, <1>4, <1>5, ReaderStill

LEMMA ReceiveAwakeNext ==
    ASSUME SizeAssumption, MessageAssumption, Inv, ReceiveAwake
    PROVE  Inv'
  <1>1. /\ r.pc = "awake" /\ w' = w /\ q' = q /\ note' = note
        /\ s' = [s EXCEPT !.rwait = FALSE]
        /\ r' = [r EXCEPT !.pc = "length", !.space = prvBytesInBuffer(s)]
    BY DEF ReceiveAwake
  <1>2. prvBytesInBuffer(s) = Len(q) /\ Len(q) \in Nat
    BY InvHolds, Parts
  <1>3. Prefix > 0 /\ Len(q) > Prefix => Len(q) >= Message
    BY <1>1, MoreThanLength
  <1>4. /\ r' \in CallType(ReaderPlaces) /\ r'.pc = "length" /\ r'.space = Len(q)
        /\ s' \in BufferType /\ s'.head = s.head /\ s'.tail = s.tail /\ s'.buf = s.buf
        /\ s'.swait = s.swait
    BY <1>1, <1>2, Types DEF CallType, ReaderPlaces, BufferType
  <1>5. TypeOK' /\ Still
    BY <1>1, <1>4, Types DEF TypeOK, Still
  <1>6. CountInv'
    BY <1>1, <1>2, <1>4 DEF CountInv
  <1>7. xStreamBufferSpacesAvailable(s)' = xStreamBufferSpacesAvailable(s)
    BY <1>1, <1>4, <1>5, StillKeeps DEF NoRestore
  <1>8. WaitInv' \/ Prefix > 0
    BY <1>1, <1>4, <1>7, Parts DEF Inv, StreamInv, WaitInv
  <1> QED
    BY <1>1, <1>3, <1>4, <1>5, <1>6, <1>8, ReaderStill

\* A reader whose call is over, having moved nothing in this step.
LEMMA ReaderLeaves ==
    ASSUME SizeAssumption, Inv, Still, w' = w, s' \in BufferType,
           note' \in [writer : BOOLEAN, reader : BOOLEAN],
           r.pc \in {"length", "read"}, r' = Idle, WaitInv' \/ Prefix > 0
    PROVE  Inv'
  <1>1. r' \in CallType(ReaderPlaces) /\ r'.pc = "out"
    BY IdleType
  <1>2. TypeOK'
    BY <1>1, Types DEF TypeOK, Still
  <1>3. CountInv'
    BY <1>1 DEF CountInv
  <1> QED
    BY <1>1, <1>2, <1>3, ReaderStill

LEMMA ReadLengthNext ==
    ASSUME SizeAssumption, MessageAssumption, Inv, ReadLength
    PROVE  Inv'
  <1>1. r.pc = "length" /\ w' = w /\ note' = note
    BY DEF ReadLength
  <1>2. /\ s \in BufferType /\ q \in Seq(Cell) /\ Len(q) \in Nat /\ Prefix \in Nat /\ Size \in Nat
        /\ r.n \in Nat /\ r.space \in Nat /\ s.tail \in 0 .. Size
        /\ Holds(s, s.tail, q)
    BY Parts, InvHolds
  <1>3. CASE r.space <= Prefix
    <2>1. r' = Idle /\ s' = s /\ q' = q
      BY <1>3 DEF ReadLength
    <2>2. WaitInv' \/ Prefix > 0
      BY <1>1, <2>1, <1>2 DEF Inv, StreamInv, WaitInv, xStreamBufferSpacesAvailable
    <2> QED
      BY <1>1, <2>1, <2>2, Types, ReaderLeaves DEF Still
  <1>4. CASE ~(r.space <= Prefix)
    <2> DEFINE n == IF Prefix = 0 THEN r.n ELSE Peek(s, Prefix)[1][2]
    <2>1. /\ s' = prvReadBytesFromBuffer(s, Prefix) /\ q' = SubSeq(q, Prefix + 1, Len(q))
          /\ r' = [r EXCEPT !.pc = IF n > r.n THEN "restore" ELSE "data",
                            !.n = n, !.tail = s.tail, !.space = @ - Prefix]
      BY <1>4 DEF ReadLength
    <2>2. r.space <= Len(q) /\ Prefix \in 0 .. Len(q)
      BY <1>1, <1>2, <1>4 DEF Inv, CountInv
    <2>3. /\ (s.tail + Prefix) % xLength = Wrap(s.tail + Prefix) /\ Wrap(s.tail + Prefix) \in 0 .. Size
          /\ SubSeq(q, Prefix + 1, Len(q)) \in Seq(Cell)
          /\ Len(SubSeq(q, Prefix + 1, Len(q))) = Len(q) - Prefix
          /\ \A i \in 1 .. Len(q) - Prefix : SubSeq(q, Prefix + 1, Len(q))[i] = q[Prefix + i]
      BY <1>2, <2>2, HoldsRead, Zenon
    <2>4. /\ s' \in BufferType /\ s'.head = s.head /\ s'.buf = s.buf /\ s'.swait = s.swait
          /\ s'.tail = Wrap(s.tail + Prefix) /\ s'.tail = (s.tail + Prefix) % xLength
          /\ q' \in Seq(Cell) /\ Len(q') = Len(q) - Prefix
          /\ \A i \in 1 .. Len(q') : q'[i] = q[Prefix + i]
      BY <1>2, <2>1, <2>3 DEF BufferType, prvReadBytesFromBuffer
    <2>5. Prefix > 0 => /\ n = m /\ Length(m) \o q' = q /\ m \in Nat
                        /\ r.space >= Message /\ Message = Prefix + m
      <3> SUFFICES ASSUME Prefix > 0
                   PROVE  /\ n = m /\ Length(m) \o q' = q /\ m \in Nat
                          /\ r.space >= Message /\ Message = Prefix + m
        OBVIOUS
      <3>1. Formed(Full) /\ Full = q /\ r.space >= Message
        BY <1>1, <1>2, <1>4 DEF Inv, MessageInv, Full
      <3>2. m \in Nat /\ Message = Prefix + m
        BY OneLength
      <3>3. Prefix <= Len(q)
        BY <2>2
      <3>4. Length(m) \o q' = q /\ q[1] = <<"len", m>>
        BY <1>2, <2>4, <3>1, <3>3, FormedStart
      <3>5. Peek(s, Prefix)[1] = q[1]
        <4>1. \A i \in 1 .. Prefix : Peek(s, Prefix)[i] = q[i]
          BY <1>2, <2>2, HoldsPeek
        <4> QED
          BY <1>2, <4>1
      <3> QED
        BY <3>1, <3>2, <3>4, <3>5
    <2>6. n \in Nat /\ r.space - Prefix \in Nat
      BY <1>2, <1>4, <2>5
    <2> HIDE DEF n
    <2>7. /\ r' \in CallType(ReaderPlaces) /\ r'.pc \in {"restore", "data"}
          /\ r'.n = n /\ r'.tail = s.tail /\ r'.space = r.space - Prefix
          /\ r'.pc = "restore" => n > r.n
      BY <1>2, <2>1, <2>6, Types DEF CallType, ReaderPlaces
    <2>8. TypeOK'
      BY <1>1, <2>4, <2>7, Types DEF TypeOK
    <2>9. Held = q /\ Base = s.tail
      BY <1>1 DEF Held, Base
    <2>10. RingInv' /\ Len(Held') \in Nat /\ Len(Held') <= Len(Held)
      <3>1. CASE r'.pc = "data"
        <4>1. NoRestore /\ Takes(Prefix)
          BY <1>1, <3>1, <2>1, <2>4 DEF NoRestore, Takes
        <4>2. RingInv' /\ Held = q /\ Held' = q' /\ Len(q') = Len(q) - Prefix
          BY <2>2, <2>4, <4>1, ReadKeeps
        <4> QED
          BY <1>2, <2>2, <4>2
      <3>2. CASE r'.pc = "restore"
        <4>1. Prefix > 0 /\ n = m
          BY <2>5, <2>7, <3>2, <1>2 DEF n
        <4>2. Held' = q /\ Base' = s.tail
          BY <2>5, <2>7, <3>2, <4>1 DEF Held, Base, Length
        <4>3. Holds(s, Base, Held)'
          BY <1>2, <2>4, <4>2 DEF Holds
        <4>4. RingInv'
          BY <2>4, <2>7, <4>3 DEF RingInv
        <4> QED
          BY <1>2, <2>9, <4>2, <4>4
      <3> QED
        BY <2>7, <3>1, <3>2
    <2>11. RoomInv'
      BY <1>1, <2>10, RoomLeft
    <2>12. CountInv'
      BY <1>2, <2>2, <2>4, <2>7 DEF CountInv
    <2>13. StreamInv'
      <3> SUFFICES ASSUME Prefix = 0 PROVE r'.pc # "restore" /\ WaitInv'
        BY DEF StreamInv
      <3>1. r'.pc # "restore"
        BY <1>2, <2>7 DEF n
      <3>2. WaitInv'
        BY <1>1, <2>4, <2>7, <3>1 DEF WaitInv, Inv, StreamInv
      <3> QED
        BY <3>1, <3>2
    <2>14. MessageInv'
      <3> SUFFICES ASSUME Prefix > 0 PROVE MessageInv'
        BY DEF MessageInv
      <3>1. Full' = Full
        BY <1>1, <2>5, <2>7 DEF Full, Length
      <3>2. Formed(Full)' = Formed(Full) /\ Whole(Len(Full))' = Whole(Len(Full))
            /\ Whole(Len(Full) - Prefix)' = Whole(Len(Full) - Prefix)
        BY <3>1 DEF Formed, Whole
      <3>3. r'.n = m /\ r'.space >= m
        BY <1>2, <2>5, <2>7
      <3> QED
        BY <1>1, <2>7, <3>1, <3>2, <3>3 DEF Inv, MessageInv
    <2> QED
      BY <2>8, <2>10, <2>11, <2>12, <2>13, <2>14 DEF Inv
  <1> QED
    BY <1>3, <1>4

LEMMA ReadRestoreNext ==
    ASSUME SizeAssumption, MessageAssumption, Inv, ReadRestore
    PROVE  Inv'
  <1>1. /\ r.pc = "restore" /\ w' = w /\ note' = note /\ r' = Idle
        /\ s' = [s EXCEPT !.tail = r.tail] /\ q' = Length(r.n) \o q
    BY DEF ReadRestore
  <1>2. Prefix > 0 /\ r.n = m /\ r.tail \in 0 .. Size
    BY <1>1, Parts DEF Inv, StreamInv, MessageInv
  <1>3. /\ s' \in BufferType /\ s'.head = s.head /\ s'.buf = s.buf /\ s'.tail = r.tail
        /\ r' \in CallType(ReaderPlaces) /\ r'.pc = "out"
    BY <1>1, <1>2, Types, IdleType DEF BufferType
  <1>4. Held' = Held /\ Base' = Base /\ q' = Held /\ q' = Full /\ Full' = Full
    BY <1>1, <1>2, <1>3 DEF Held, Base, Full
  <1>5. q' \in Seq(Cell)
    BY <1>4, Parts
  <1>6. TypeOK'
    BY <1>1, <1>3, <1>5, Types DEF TypeOK
  <1>7. Holds(s, Base, Held)'
    BY <1>3, <1>4 DEF Inv, RingInv, Holds
  <1>8. RingInv' /\ CountInv' /\ StreamInv'
    BY <1>2, <1>3, <1>7, Parts DEF RingInv, CountInv, StreamInv
  <1>9. RoomInv'
    BY <1>1, <1>4, RoomLeft, Parts, LenProperties
  <1>10. MessageInv'
    <2>1. Formed(Full)' = Formed(Full) /\ Whole(Len(Full))' = Whole(Len(Full))
          /\ Whole(Len(Full) - Prefix)' = Whole(Len(Full) - Prefix)
      BY <1>4 DEF Formed, Whole
    <2> QED
      BY <1>1, <1>3, <1>4, <2>1 DEF Inv, MessageInv
  <1> QED
    BY <1>6, <1>8, <1>9, <1>10 DEF Inv

LEMMA ReadDataNext ==
    ASSUME SizeAssumption, MessageAssumption, Inv, ReadData
    PROVE  Inv'
  <1> DEFINE k == Least(r.space, r.n)
  <1>1. /\ r.pc = "data" /\ w' = w /\ note' = note
        /\ s' = prvReadBytesFromBuffer(s, k) /\ q' = SubSeq(q, k + 1, Len(q))
        /\ r' = [r EXCEPT !.pc = "read"]
    BY DEF ReadData
  <1>2. /\ s \in BufferType /\ q \in Seq(Cell) /\ Len(q) \in Nat /\ Prefix \in Nat /\ Size \in Nat
        /\ r.n \in Nat /\ r.space \in Nat /\ s.tail \in 0 .. Size
        /\ Holds(s, s.tail, q) /\ r.space <= Len(q)
    BY <1>1, Parts, InvHolds DEF Inv, CountInv
  <1>3. k \in 0 .. Len(q)
    BY <1>2 DEF Least
  <1>4. Prefix > 0 => k = m
    <2>1. Prefix > 0 => r.n = m /\ r.space >= m
      BY <1>1 DEF Inv, MessageInv
    <2> QED
      BY <1>2, <2>1 DEF Least
  <1> HIDE DEF k
  <1>5. s' = [s EXCEPT !.tail = (s.tail + k) % xLength]
    BY <1>1 DEF prvReadBytesFromBuffer
  <1>6. (s.tail + k) % xLength \in 0 .. Size
    BY <1>2, <1>3, HoldsRead
  <1>7. /\ s' \in BufferType /\ s'.head = s.head /\ s'.buf = s.buf /\ s'.swait = s.swait
        /\ s'.tail = (s.tail + k) % xLength
        /\ r' \in CallType(ReaderPlaces) /\ r'.pc = "read"
    BY <1>1, <1>2, <1>5, <1>6, Types DEF BufferType, CallType, ReaderPlaces
  <1>8. NoRestore /\ Takes(k)
    BY <1>1, <1>7 DEF NoRestore, Takes
  <1>9. /\ RingInv' /\ Held = q /\ Held' = q' /\ q' \in Seq(Cell) /\ Len(q') = Len(q) - k
        /\ \A i \in 1 .. Len(q') : q'[i] = q[k + i]
    BY <1>3, <1>7, <1>8, ReadKeeps
  <1>10. TypeOK'
    BY <1>1, <1>7, <1>9, Types DEF TypeOK
  <1>11. RoomInv'
    BY <1>1, <1>2, <1>3, <1>9, RoomLeft
  <1>12. CountInv'
    BY <1>7 DEF CountInv
  <1>13. StreamInv'
    BY <1>1, <1>7 DEF Inv, StreamInv, WaitInv
  <1>14. MessageInv'
    <2> SUFFICES ASSUME Prefix > 0 PROVE MessageInv'
      BY DEF MessageInv
    <2> DEFINE part == w.pc = "data"
               h == Length(m) \o q
    <2>1. m \in Nat /\ Message = Prefix + m
      BY OneLength
    <2>2. /\ Full = h /\ Formed(h) /\ (~part => Whole(Len(h))) /\ (part => Whole(Len(h) - Prefix))
          /\ part \in BOOLEAN
      BY <1>1 DEF Inv, MessageInv, Full
    <2>3. Length(m) \in Seq(Cell) /\ Len(Length(m)) = Prefix
      BY <2>1, CellFacts
    <2> DEFINE l == Length(m)
    <2>4. /\ h \in Seq(Cell) /\ Len(h) = Prefix + Len(q)
          /\ \A i \in 1 .. Prefix + Len(q) : h[i] = IF i <= Prefix THEN l[i] ELSE q[i - Prefix]
      BY <1>2, <2>3, ConcatProperties
    <2> HIDE DEF h, part, l
    <2>5. Len(h) >= Message /\ Len(q') = Len(h) - Message
      BY <1>2, <1>3, <1>4, <1>9, <2>1, <2>4
    <2>6. ASSUME NEW i \in 1 .. Len(q') PROVE q'[i] = h[Message + i]
      <3>1. /\ Message + i \in 1 .. Prefix + Len(q) /\ ~(Message + i <= Prefix)
            /\ (Message + i) - Prefix = k + i
        BY <1>2, <1>3, <1>4, <1>9, <2>1
      <3>2. h[Message + i] = q[(Message + i) - Prefix]
        BY <2>4, <3>1
      <3> QED
        BY <1>9, <3>1, <3>2
    <2>7. /\ Formed(q') /\ (~part => Whole(Len(q')))
          /\ part => Prefix <= Len(q') /\ Whole(Len(q') - Prefix)
      BY <1>9, <2>2, <2>4, <2>5, <2>6, MessageGone
    <2>8. Full' = q'
      BY <1>7 DEF Full
    <2>9. /\ Formed(Full)' /\ (~part => Whole(Len(Full))')
          /\ part => Prefix <= Len(Full)' /\ Whole(Len(Full) - Prefix)'
      BY <2>7, <2>8 DEF Formed, Whole
    <2> QED
      BY <1>1, <1>7, <2>9 DEF MessageInv, part
  <1> QED
    BY <1>9, <1>10, <1>11, <1>12, <1>13, <1>14 DEF Inv

\* A notification of the writer leaves the ring alone, and afterwards no writer
\* is registered: one that was has been notified.
LEMMA NotifiedType ==
    ASSUME NEW b \in BufferType, note \in [writer : BOOLEAN, reader : BOOLEAN], ReceiveCompleted(b)
    PROVE  /\ s' \in BufferType /\ s'.head = b.head /\ s'.tail = b.tail /\ s'.buf = b.buf
           /\ note' \in [writer : BOOLEAN, reader : BOOLEAN]
           /\ b.swait \/ note.writer => note'.writer
  BY DEF ReceiveCompleted, BufferType

LEMMA ReceiveEndsNext ==
    ASSUME SizeAssumption, Inv, ReceiveEnds
    PROVE  Inv'
  <1>1. r.pc = "read" /\ ReceiveCompleted(s) /\ r' = Idle /\ w' = w /\ q' = q
    BY DEF ReceiveEnds
  <1>2. /\ s' \in BufferType /\ s'.head = s.head /\ s'.tail = s.tail /\ s'.buf = s.buf
        /\ note' \in [writer : BOOLEAN, reader : BOOLEAN]
        /\ s.swait \/ note.writer => note'.writer
    BY <1>1, Types, NotifiedType
  <1>3. WaitInv' \/ Prefix > 0
    BY <1>1, <1>2, Parts DEF Inv, StreamInv, WaitInv
  <1> QED
    BY <1>1, <1>2, <1>3, ReaderLeaves DEF Still

LEMMA ReceiveFromISRNext ==
    ASSUME SizeAssumption, MessageAssumption, Inv, NEW n \in ReadSizes, xStreamBufferReceiveFromISR(n)
    PROVE  Inv'
  <1> DEFINE len == IF Prefix = 0 THEN n ELSE Peek(s, Prefix)[1][2]
             k == Least(prvBytesInBuffer(s) - Prefix, len)
             c == prvReadBytesFromBuffer(s, Prefix + k)
  <1>1. /\ r.pc = "out" /\ prvBytesInBuffer(s) > Prefix
        /\ ReceiveCompleted(c) /\ q' = SubSeq(q, Prefix + k + 1, Len(q)) /\ w' = w /\ r' = r
    BY DEF xStreamBufferReceiveFromISR
  <1>2. /\ s \in BufferType /\ q \in Seq(Cell) /\ Len(q) \in Nat /\ Prefix \in Nat /\ Size \in Nat
        /\ s.tail \in 0 .. Size /\ Holds(s, s.tail, q)
        /\ prvBytesInBuffer(s) = Len(q) /\ n \in Nat
    BY Parts, InvHolds DEF SizeAssumption
  <1>3. Prefix > 0 => /\ len = m /\ k = m /\ m \in Nat /\ Message = Prefix + m /\ Len(q) >= Message
    <2> SUFFICES ASSUME Prefix > 0
                 PROVE  len = m /\ k = m /\ m \in Nat /\ Message = Prefix + m /\ Len(q) >= Message
      OBVIOUS
    <2>1. m \in Nat /\ Message = Prefix + m
      BY OneLength
    <2>2. Len(q) >= Message
      BY <1>1, <1>2, MoreThanLength
    <2>3. Formed(Full) /\ Full = q
      BY <1>1 DEF Inv, MessageInv, Full
    <2> DEFINE g == SubSeq(q, Prefix + 1, Len(q))
    <2>4. Prefix \in 0 .. Len(q) /\ Prefix <= Len(q)
      BY <1>1, <1>2
    <2>5. /\ g \in Seq(Cell) /\ Len(g) = Len(q) - Prefix
          /\ \A i \in 1 .. Len(q) - Prefix : g[i] = q[Prefix + i]
      BY <1>2, <2>4, HoldsRead, Zenon
    <2> HIDE DEF g
    <2>6. q[1] = <<"len", m>>
      BY <1>2, <2>3, <2>4, <2>5, FormedStart
    <2>7. Peek(s, Prefix)[1] = q[1]
      <3>1. \A i \in 1 .. Prefix : Peek(s, Prefix)[i] = q[i]
        BY <1>2, <2>4, HoldsPeek
      <3> QED
        BY <1>2, <3>1
    <2>8. len = m
      BY <2>6, <2>7
    <2> HIDE DEF len
    <2>9. k = m
      BY <1>2, <2>1, <2>2, <2>8 DEF Least
    <2> QED
      BY <2>1, <2>2, <2>8, <2>9
  <1>4. Prefix + k \in 0 .. Len(q) /\ k \in Nat
    <2>1. len \in Nat
      BY <1>2, <1>3
    <2> HIDE DEF len
    <2> QED
      BY <1>1, <1>2, <2>1 DEF Least
  <1> HIDE DEF len, k
  <1>5. c = [s EXCEPT !.tail = (s.tail + (Prefix + k)) % xLength]
    BY DEF prvReadBytesFromBuffer
  <1>6. (s.tail + (Prefix + k)) % xLength \in 0 .. Size
    BY <1>2, <1>4, HoldsRead
  <1>7. /\ c \in BufferType /\ c.head = s.head /\ c.buf = s.buf /\ c.swait = s.swait
        /\ c.tail = (s.tail + (Prefix + k)) % xLength
    BY <1>2, <1>5, <1>6 DEF BufferType
  <1> HIDE DEF c
  <1>8. /\ s' \in BufferType /\ s'.head = s.head /\ s'.tail = c.tail /\ s'.buf = s.buf
        /\ note' \in [writer : BOOLEAN, reader : BOOLEAN]
        /\ s.swait \/ note.writer => note'.writer
    BY <1>1, <1>7, Types, NotifiedType
  <1>9. NoRestore /\ Takes(Prefix + k)
    BY <1>1, <1>2, <1>4, <1>7, <1>8 DEF NoRestore, Takes
  <1>10. /\ RingInv' /\ Held = q /\ Held' = q' /\ q' \in Seq(Cell) /\ Len(q') = Len(q) - (Prefix + k)
         /\ \A i \in 1 .. Len(q') : q'[i] = q[(Prefix + k) + i]
    BY <1>4, <1>8, <1>9, ReadKeeps
  <1>11. TypeOK'
    BY <1>1, <1>8, <1>10, Types DEF TypeOK
  <1>12. RoomInv'
    BY <1>1, <1>2, <1>4, <1>10, RoomLeft
  <1>13. CountInv'
    BY <1>1 DEF CountInv
  <1>14. StreamInv'
    BY <1>1, <1>8 DEF Inv, StreamInv, WaitInv
  <1>15. MessageInv'
    <2> SUFFICES ASSUME Prefix > 0 PROVE MessageInv'
      BY DEF MessageInv
    <2> DEFINE part == w.pc = "data"
    <2>1. /\ Full = q /\ Formed(q) /\ (~part => Whole(Len(q))) /\ (part => Whole(Len(q) - Prefix))
          /\ part \in BOOLEAN
      BY <1>1 DEF Inv, MessageInv, Full
    <2> HIDE DEF part
    <2>2. /\ Len(q') = Len(q) - Message /\ Len(q) >= Message
          /\ \A i \in 1 .. Len(q') : q'[i] = q[Message + i]
      BY <1>3, <1>10
    <2>3. /\ Formed(q') /\ (~part => Whole(Len(q')))
          /\ part => Prefix <= Len(q') /\ Whole(Len(q') - Prefix)
      BY <1>2, <1>10, <2>1, <2>2, MessageGone
    <2>4. Full' = q'
      BY <1>1 DEF Full
    <2>5. /\ Formed(Full)' /\ (~part => Whole(Len(Full))')
          /\ part => Prefix <= Len(Full)' /\ Whole(Len(Full) - Prefix)'
      BY <2>3, <2>4 DEF Formed, Whole
    <2> QED
      BY <1>1, <2>5 DEF MessageInv, part
  <1> QED
    BY <1>10, <1>11, <1>12, <1>13, <1>14, <1>15 DEF Inv

LEMMA ReceiveCompletedNext ==
    ASSUME SizeAssumption, Inv, xStreamBufferReceiveCompletedFromISR
    PROVE  Inv'
  <1>1. /\ s' = [s EXCEPT !.swait = FALSE] /\ note' = [note EXCEPT !.writer = TRUE]
        /\ w' = w /\ r' = r /\ q' = q
    BY DEF xStreamBufferReceiveCompletedFromISR
  <1>2. /\ s' \in BufferType /\ s'.head = s.head /\ s'.tail = s.tail /\ s'.buf = s.buf
        /\ note' \in [writer : BOOLEAN, reader : BOOLEAN] /\ note'.writer
    BY <1>1, Types DEF BufferType
  <1>3. TypeOK' /\ Still
    BY <1>1, <1>2, Types DEF TypeOK, Still
  <1>4. WaitInv'
    BY <1>2 DEF WaitInv
  <1> QED
    BY <1>1, <1>3, <1>4, WriterStill

\* A buffer as xStreamBufferGenericCreate and the reset leave it.
LEMMA EmptyBuffer ==
    ASSUME SizeAssumption, NEW trigger \in Nat
    PROVE  LET b == prvInitialiseNewStreamBuffer(trigger)
           IN b \in BufferType /\ b.tail = 0 /\ Holds(b, b.tail, <<>>)
  BY DEF prvInitialiseNewStreamBuffer, BufferType, Cell, Holds, Wrap, xLength, SizeAssumption

LEMMA EmptyInv ==
    ASSUME SizeAssumption, MessageAssumption, NEW trigger \in Nat,
           s = prvInitialiseNewStreamBuffer(trigger), q = <<>>,
           w \in CallType(WriterPlaces), r \in CallType(ReaderPlaces), w.pc = "out", r.pc = "out",
           note \in [writer : BOOLEAN, reader : BOOLEAN]
    PROVE  Inv
  <1>1. s \in BufferType /\ Holds(s, s.tail, <<>>)
    BY EmptyBuffer
  <1>2. TypeOK
    BY <1>1 DEF TypeOK
  <1>3. RingInv /\ RoomInv /\ CountInv /\ StreamInv
    BY <1>1 DEF RingInv, RoomInv, CountInv, StreamInv, WaitInv, Held, Base
  <1>4. MessageInv
    <2> SUFFICES ASSUME Prefix > 0 PROVE MessageInv
      BY DEF MessageInv
    <2>1. Full = <<>> /\ Len(Full) = 0
      BY DEF Full
    <2>2. Whole(Len(Full))
      BY <2>1, OneLength, WholeFacts
    <2>3. Formed(Full)
      <3>1. ASSUME NEW j \in Nat, NEW p \in 1 .. Prefix PROVE ~(j + p <= 0)
        BY DEF SizeAssumption
      <3> QED
        BY <2>1, <3>1 DEF Formed
    <2> QED
      BY <2>2, <2>3 DEF MessageInv
  <1> QED
    BY <1>2, <1>3, <1>4 DEF Inv

LEMMA ResetNext ==
    ASSUME SizeAssumption, MessageAssumption, Inv, xStreamBufferReset
    PROVE  Inv'
  <1>1. /\ s' = prvInitialiseNewStreamBuffer(s.trigger) /\ q' = <<>>
        /\ w' = w /\ r' = r /\ note' = note /\ w.pc = "out" /\ r.pc = "out"
    BY DEF xStreamBufferReset
  <1>2. s.trigger \in Nat
    BY Types DEF BufferType
  <1>3. s' \in BufferType /\ Holds(s', s'.tail, <<>>)
    BY <1>1, <1>2, EmptyBuffer
  <1>4. TypeOK'
    BY <1>1, <1>3, Types DEF TypeOK
  <1>5. RingInv' /\ RoomInv' /\ CountInv' /\ StreamInv'
    BY <1>1, <1>3 DEF RingInv, RoomInv, CountInv, StreamInv, WaitInv, Held, Base, Holds
  <1>6. MessageInv'
    <2> SUFFICES ASSUME Prefix > 0 PROVE MessageInv'
      BY DEF MessageInv
    <2>1. Full' = <<>> /\ Len(Full)' = 0
      BY <1>1 DEF Full
    <2>2. Whole(Len(Full))'
      <3>1. Whole(0)
        BY OneLength, WholeFacts
      <3> QED
        BY <2>1, <3>1 DEF Whole
    <2>3. Formed(Full)'
      <3>1. ASSUME NEW j \in Nat, NEW p \in 1 .. Prefix PROVE ~(j + p <= 0)
        BY DEF SizeAssumption
      <3> QED
        BY <2>1, <3>1 DEF Formed
    <2> QED
      BY <1>1, <2>2, <2>3 DEF MessageInv
  <1> QED
    BY <1>4, <1>5, <1>6 DEF Inv

-----------------------------------------------------------------------------
\* The invariant holds at the start and every step keeps it.
LEMMA StreamInit == SizeAssumption /\ MessageAssumption /\ Init => Inv
  <1> SUFFICES ASSUME SizeAssumption, MessageAssumption, Init PROVE Inv
    OBVIOUS
  <1>1. PICK level \in Triggers : s = prvInitialiseNewStreamBuffer(AtLeastOne(level))
    BY DEF Init
  <1>2. AtLeastOne(level) \in Nat
    BY DEF AtLeastOne, SizeAssumption
  <1>3. /\ w \in CallType(WriterPlaces) /\ r \in CallType(ReaderPlaces) /\ w.pc = "out" /\ r.pc = "out"
        /\ q = <<>> /\ note \in [writer : BOOLEAN, reader : BOOLEAN]
    BY IdleType DEF Init
  <1> QED
    BY <1>1, <1>2, <1>3, EmptyInv

LEMMA StreamNext == SizeAssumption /\ MessageAssumption /\ Inv /\ [Next]_vars => Inv'
  <1> SUFFICES ASSUME SizeAssumption, MessageAssumption, Inv, [Next]_vars PROVE Inv'
    OBVIOUS
  <1>1. CASE UNCHANGED vars
    <2>1. s' = s /\ w' = w /\ r' = r /\ note' = note /\ q' = q
      BY <1>1 DEF vars
    <2>2. TypeOK' /\ Still
      BY <2>1 DEF TypeOK, Inv, Still
    <2>3. WaitInv' \/ Prefix > 0
      BY <2>1, Parts DEF Inv, StreamInv, WaitInv, xStreamBufferSpacesAvailable
    <2> QED
      BY <2>1, <2>2, <2>3, WriterStill
  <1>2. CASE Writer
    BY <1>2, SendCheckNext, SendWakesNext, SendAwakeNext, SendSpaceNext, SendLengthNext,
       SendDataNext, SendEndsNext DEF Writer
  <1>3. CASE Reader
    BY <1>3, ReceiveWakesNext, ReceiveAwakeNext, ReadLengthNext, ReadRestoreNext, ReadDataNext,
       ReceiveEndsNext DEF Reader
  <1>4. CASE \E n \in SendSizes, b \in BOOLEAN : xStreamBufferSend(n, b)
    BY <1>4, SendNext
  <1>5. CASE \E n \in ReadSizes, b \in BOOLEAN : xStreamBufferReceive(n, b)
    BY <1>5, ReceiveNext
  <1>6. CASE \E n \in SendSizes : xStreamBufferSendFromISR(n)
    BY <1>6, SendFromISRNext
  <1>7. CASE \E n \in ReadSizes : xStreamBufferReceiveFromISR(n)
    BY <1>7, ReceiveFromISRNext
  <1>8. CASE xStreamBufferSendCompletedFromISR \/ xStreamBufferReceiveCompletedFromISR
    BY <1>8, SendCompletedNext, ReceiveCompletedNext
  <1>9. CASE xStreamBufferReset
    BY <1>9, ResetNext
  <1>10. CASE \E level \in Triggers : xStreamBufferSetTriggerLevel(level)
    BY <1>10, SetTriggerNext
  <1> QED
    BY <1>1, <1>2, <1>3, <1>4, <1>5, <1>6, <1>7, <1>8, <1>9, <1>10 DEF Next
===============================================================================
