---------------------------- MODULE StreamBuffer -----------------------------
(***************************************************************************)
(* A stream or message buffer of stream_buffer.c with one writer and one   *)
(* reader, each a task or an interrupt.  The ring is written and read      *)
(* without a lock, in the order of the code: bytes first, then the index.  *)
(* An interrupt runs its whole call in one step; a task is interrupted     *)
(* between any two accesses to the shared indices.                         *)
(***************************************************************************)
EXTENDS Integers, Sequences

CONSTANTS Size,        \* xBufferSizeBytes asked for; xLength is one more
          Prefix,      \* sbBYTES_TO_STORE_MESSAGE_LENGTH, 0 for a stream buffer
          SendSizes, ReadSizes,
          Triggers,    \* levels set by xStreamBufferSetTriggerLevel
          Timed        \* whether calls may be made with a timeout

SizeAssumption == /\ Size \in Nat \ {0} /\ Prefix \in Nat /\ Timed \in BOOLEAN
                  /\ SendSizes \subseteq Nat /\ ReadSizes \subseteq Nat /\ Triggers \subseteq Nat
                  /\ \A n \in SendSizes : n + Prefix <= Size

VARIABLES s,       \* the StreamBuffer_t: head, tail, cells, trigger, waiting tasks
          w, r,    \* the writer's and the reader's call
          note,    \* pending notification of each task
          q        \* cells published and not yet read, in order; not in the code

vars == <<s, w, r, note, q>>

xLength == Size + 1
Cells(n) == [i \in 1 .. n |-> <<"byte", i>>]
Length(n) == [i \in 1 .. Prefix |-> <<"len", IF i = 1 THEN n ELSE 0>>]
Least(a, b) == IF a < b THEN a ELSE b
Idle == [pc |-> "out", n |-> 0, space |-> 0, block |-> FALSE, late |-> FALSE, tail |-> 0]

prvInitialiseNewStreamBuffer(trigger) ==
    [head |-> 0, tail |-> 0, buf |-> [i \in 0 .. Size |-> <<"free", 0>>], trigger |-> trigger,
     rwait |-> FALSE, swait |-> FALSE]

\* A trigger level of 0 is taken for 1.
AtLeastOne(level) == IF level = 0 THEN 1 ELSE level

\* xStreamBufferGenericCreate with the first of the levels.
Init == /\ \E level \in Triggers : level <= Size /\ s = prvInitialiseNewStreamBuffer(AtLeastOne(level))
        /\ w = Idle /\ r = Idle
        /\ note = [writer |-> FALSE, reader |-> FALSE]
        /\ q = <<>>

prvBytesInBuffer(b) == LET c == xLength + b.head - b.tail IN IF c >= xLength THEN c - xLength ELSE c

xStreamBufferSpacesAvailable(b) ==
    LET c == xLength + b.tail - b.head - 1 IN IF c >= xLength THEN c - xLength ELSE c

\* Mutant: the second part of a write that wraps starts one cell late.
WriteLate(b, data) ==
    LET at(i) == IF b.head + i - 1 < xLength THEN b.head + i - 1 ELSE (b.head + i) % xLength
    IN [b EXCEPT !.buf = [c \in DOMAIN b.buf |->
                              IF \E i \in DOMAIN data : at(i) = c
                              THEN data[CHOOSE i \in DOMAIN data : at(i) = c] ELSE b.buf[c]],
                 !.head = (b.head + Len(data)) % xLength]

\* The two memcpy of prvWriteBytesToBuffer, then the head.
prvWriteBytesToBuffer(b, data) ==
    LET at(i) == (b.head + i - 1) % xLength
    IN [b EXCEPT !.buf = [c \in DOMAIN b.buf |->
                              IF \E i \in DOMAIN data : at(i) = c
                              THEN data[CHOOSE i \in DOMAIN data : at(i) = c] ELSE b.buf[c]],
                 !.head = (b.head + Len(data)) % xLength]

\* The bytes prvReadBytesFromBuffer copies, and the tail it leaves.
Peek(b, n) == [i \in 1 .. n |-> b.buf[(b.tail + i - 1) % xLength]]
prvReadBytesFromBuffer(b, n) == [b EXCEPT !.tail = (b.tail + n) % xLength]

\* prvWriteMessageToBuffer: how much of a call's data is written with this space.
Written(n, space) == IF space = 0 THEN 0 ELSE IF Prefix = 0 THEN Least(n, space)
                     ELSE IF space >= n + Prefix THEN n ELSE 0

-----------------------------------------------------------------------------
\* xStreamBufferSend starts; a call that does not block does not look at the space yet.
xStreamBufferSend(n, block) ==
    /\ w.pc = "out"
    /\ w' = [Idle EXCEPT !.pc = IF block THEN "check" ELSE "space", !.n = n, !.block = block]
    /\ UNCHANGED <<s, r, note, q>>

\* The critical section of its loop.
SendCheck ==
    /\ w.pc = "check"
    /\ LET space == xStreamBufferSpacesAvailable(s)
       IN IF space < w.n + Prefix
          THEN /\ w' = [w EXCEPT !.pc = "wait", !.space = space]
               /\ s' = [s EXCEPT !.swait = TRUE] /\ note' = [note EXCEPT !.writer = FALSE]
          ELSE w' = [w EXCEPT !.pc = "space", !.space = space] /\ UNCHANGED <<s, note>>
    /\ UNCHANGED <<r, q>>

\* xTaskNotifyWait returns, notified or late.
SendWakes == /\ w.pc = "wait"
             /\ \/ note.writer /\ w' = [w EXCEPT !.pc = "awake"]
                \/ Timed /\ w' = [w EXCEPT !.pc = "awake", !.late = TRUE]
             /\ note' = [note EXCEPT !.writer = FALSE]
             /\ UNCHANGED <<s, r, q>>

\* The space known is the one of the last check when the time is over.
SendAwake == /\ w.pc = "awake"
             /\ s' = [s EXCEPT !.swait = FALSE]
             /\ w' = [w EXCEPT !.pc = IF w.late THEN "space" ELSE "check"]
             /\ UNCHANGED <<r, note, q>>

SendSpace == /\ w.pc = "space"
             /\ w' = [w EXCEPT !.pc = "length",
                               !.space = IF @ = 0 THEN xStreamBufferSpacesAvailable(s) ELSE @]
             /\ UNCHANGED <<s, r, note, q>>

\* The length of a message is published before the message.
SendLength == /\ w.pc = "length"
              /\ IF Written(w.n, w.space) = 0
                 THEN w' = Idle /\ UNCHANGED <<s, q>>
                 ELSE /\ s' = prvWriteBytesToBuffer(s, Length(w.n)) /\ q' = q \o Length(w.n)
                      /\ w' = [w EXCEPT !.pc = "data"]
              /\ UNCHANGED <<r, note>>

SendData == /\ w.pc = "data"
            /\ LET data == Cells(Written(w.n, w.space))
               IN s' = prvWriteBytesToBuffer(s, data) /\ q' = q \o data
            /\ w' = [w EXCEPT !.pc = "sent"]
            /\ UNCHANGED <<r, note>>

\* Mutant: the trigger level has to be passed.
CompletedAbove(b) == IF prvBytesInBuffer(b) > b.trigger /\ b.rwait
                     THEN s' = [b EXCEPT !.rwait = FALSE] /\ note' = [note EXCEPT !.reader = TRUE]
                     ELSE s' = b /\ UNCHANGED note

\* sbSEND_COMPLETED once the trigger level is reached.
SendCompleted(b) == IF prvBytesInBuffer(b) >= b.trigger /\ b.rwait
                    THEN s' = [b EXCEPT !.rwait = FALSE] /\ note' = [note EXCEPT !.reader = TRUE]
                    ELSE s' = b /\ UNCHANGED note

SendEnds == w.pc = "sent" /\ SendCompleted(s) /\ w' = Idle /\ UNCHANGED <<r, q>>

\* The whole call of an interrupt that is the writer.
xStreamBufferSendFromISR(n) ==
    LET k == Written(n, xStreamBufferSpacesAvailable(s))
        data == Length(n) \o Cells(k)
    IN /\ w.pc = "out" /\ k > 0
       /\ SendCompleted(prvWriteBytesToBuffer(s, data)) /\ q' = q \o data
       /\ UNCHANGED <<w, r>>

xStreamBufferSendCompletedFromISR ==
    /\ s.rwait /\ s' = [s EXCEPT !.rwait = FALSE] /\ note' = [note EXCEPT !.reader = TRUE]
    /\ UNCHANGED <<w, r, q>>

-----------------------------------------------------------------------------
\* xStreamBufferReceive up to its wait; the check is a critical section.
xStreamBufferReceive(n, block) ==
    /\ r.pc = "out"
    /\ LET avail == prvBytesInBuffer(s)
           call == [Idle EXCEPT !.n = n, !.space = avail, !.block = block]
       IN IF block /\ avail <= Prefix
          THEN /\ r' = [call EXCEPT !.pc = "wait"]
               /\ s' = [s EXCEPT !.rwait = TRUE] /\ note' = [note EXCEPT !.reader = FALSE]
          ELSE r' = [call EXCEPT !.pc = "length"] /\ UNCHANGED <<s, note>>
    /\ UNCHANGED <<w, q>>

ReceiveWakes == /\ r.pc = "wait" /\ (note.reader \/ Timed)
                /\ r' = [r EXCEPT !.pc = "awake"]
                /\ note' = [note EXCEPT !.reader = FALSE]
                /\ UNCHANGED <<s, w, q>>

ReceiveAwake == /\ r.pc = "awake"
                /\ s' = [s EXCEPT !.rwait = FALSE]
                /\ r' = [r EXCEPT !.pc = "length", !.space = prvBytesInBuffer(s)]
                /\ UNCHANGED <<w, note, q>>

\* Mutant: a length without its message is taken for a message.
ReadLengthEager ==
    /\ r.pc = "length"
    /\ IF r.space = 0 THEN r' = Idle /\ UNCHANGED <<s, q>>
       ELSE /\ s' = prvReadBytesFromBuffer(s, Prefix)
            /\ q' = SubSeq(q, Prefix + 1, Len(q))
            /\ r' = [r EXCEPT !.pc = "data", !.tail = s.tail, !.space = @ - Prefix,
                              !.n = IF Prefix = 0 THEN @ ELSE Peek(s, Prefix)[1][2]]
    /\ UNCHANGED <<w, note>>

\* prvReadMessageFromBuffer takes the length out, moving the tail, before it knows
\* that the message fits.  The number of bytes to read is then the length.
ReadLength ==
    /\ r.pc = "length"
    /\ IF r.space <= Prefix THEN r' = Idle /\ UNCHANGED <<s, q>>
       ELSE /\ s' = prvReadBytesFromBuffer(s, Prefix)
            /\ q' = SubSeq(q, Prefix + 1, Len(q))
            /\ LET n == IF Prefix = 0 THEN r.n ELSE Peek(s, Prefix)[1][2]
               IN r' = [r EXCEPT !.pc = IF n > r.n THEN "restore" ELSE "data",
                                 !.n = n, !.tail = s.tail, !.space = @ - Prefix]
    /\ UNCHANGED <<w, note>>

\* The message does not fit: the length is put back by moving the tail back.
ReadRestore == /\ r.pc = "restore"
               /\ s' = [s EXCEPT !.tail = r.tail]
               /\ q' = Length(r.n) \o q
               /\ r' = Idle
               /\ UNCHANGED <<w, note>>

ReadData == /\ r.pc = "data"
            /\ LET k == Least(r.space, r.n)
               IN /\ s' = prvReadBytesFromBuffer(s, k)
                  /\ q' = SubSeq(q, k + 1, Len(q))
                  /\ r' = [r EXCEPT !.pc = "read"]
            /\ UNCHANGED <<w, note>>

\* Mutant: the writer is only told of an empty buffer.
NotifyWhenEmpty(b) == IF b.swait /\ prvBytesInBuffer(b) = 0
                      THEN s' = [b EXCEPT !.swait = FALSE] /\ note' = [note EXCEPT !.writer = TRUE]
                      ELSE s' = b /\ UNCHANGED note

\* sbRECEIVE_COMPLETED.
ReceiveCompleted(b) == IF b.swait
                       THEN s' = [b EXCEPT !.swait = FALSE] /\ note' = [note EXCEPT !.writer = TRUE]
                       ELSE s' = b /\ UNCHANGED note

ReceiveEnds == r.pc = "read" /\ ReceiveCompleted(s) /\ r' = Idle /\ UNCHANGED <<w, q>>

\* The whole call of an interrupt that is the reader.
xStreamBufferReceiveFromISR(n) ==
    LET len == IF Prefix = 0 THEN n ELSE Peek(s, Prefix)[1][2]
        k == Least(prvBytesInBuffer(s) - Prefix, len)
    IN /\ r.pc = "out" /\ prvBytesInBuffer(s) > Prefix /\ len <= n
       /\ ReceiveCompleted(prvReadBytesFromBuffer(s, Prefix + k))
       /\ q' = SubSeq(q, Prefix + k + 1, Len(q))
       /\ UNCHANGED <<w, r>>

xStreamBufferReceiveCompletedFromISR ==
    /\ s.swait /\ s' = [s EXCEPT !.swait = FALSE] /\ note' = [note EXCEPT !.writer = TRUE]
    /\ UNCHANGED <<w, r, q>>

-----------------------------------------------------------------------------
\* Refused while a task waits.  The code does not protect it against a call in
\* progress, so it is made when there is none.
xStreamBufferReset == /\ ~s.rwait /\ ~s.swait /\ w.pc = "out" /\ r.pc = "out"
                      /\ s' = prvInitialiseNewStreamBuffer(s.trigger) /\ q' = <<>>
                      /\ UNCHANGED <<w, r, note>>

xStreamBufferSetTriggerLevel(level) ==
    /\ AtLeastOne(level) <= xLength
    /\ s' = [s EXCEPT !.trigger = AtLeastOne(level)]
    /\ UNCHANGED <<w, r, note, q>>

Writer == \/ SendCheck \/ SendWakes \/ SendAwake \/ SendSpace \/ SendLength \/ SendData \/ SendEnds
Reader == \/ ReceiveWakes \/ ReceiveAwake \/ ReadLength \/ ReadRestore \/ ReadData \/ ReceiveEnds

Next == \/ \E n \in SendSizes, b \in BOOLEAN : xStreamBufferSend(n, b)
        \/ \E n \in ReadSizes, b \in BOOLEAN : xStreamBufferReceive(n, b)
        \/ Writer \/ Reader
        \/ \E n \in SendSizes : xStreamBufferSendFromISR(n)
        \/ \E n \in ReadSizes : xStreamBufferReceiveFromISR(n)
        \/ xStreamBufferSendCompletedFromISR \/ xStreamBufferReceiveCompletedFromISR
        \/ xStreamBufferReset
        \/ \E level \in Triggers : xStreamBufferSetTriggerLevel(level)

Spec == Init /\ [][Next]_vars

\* A writer and a reader that call again and again and wait without end.
Pump == \/ \E n \in SendSizes : xStreamBufferSend(n, TRUE)
        \/ Writer
Drain == \/ \E n \in ReadSizes : xStreamBufferReceive(n, TRUE)
         \/ Reader
Flowing == Pump \/ Drain
PumpSpec == Init /\ [][Flowing]_vars /\ WF_vars(Pump) /\ WF_vars(Drain)

-----------------------------------------------------------------------------
\* What is between tail and head is what was written and not read, in order: the
\* unlocked ring never loses, repeats or tears a byte or a message.
Intact == Peek(s, prvBytesInBuffer(s)) = q

\* A reader that got a message got all of it: the bytes it counted before it read
\* the length hold the message.
WholeMessage == Prefix > 0 /\ r.pc = "data" => r.space >= r.n

\* No writer sleeps while its data fits: a writer that waits and is not notified
\* has no space, unless the reader is about to notify it.
WriterNotForgotten ==
    w.pc = "wait" /\ ~note.writer /\ xStreamBufferSpacesAvailable(s) >= w.n + Prefix
        => r.pc \in {"data", "read", "restore"}

Reads == r.pc = "read"
\* Data flows: with endless waits and a trigger level the writer can reach, the
\* reader receives again and again.
Flow == []<>Reads

\* stream_buffer.h: "It is not valid to specify a trigger level that is greater
\* than the buffer size."  So a full buffer wakes its reader, once the writer's
\* call is over.
FullBufferWakesReader ==
    prvBytesInBuffer(s) = Size /\ w.pc # "sent" => ~(r.pc = "wait" /\ ~note.reader)
=============================================================================
