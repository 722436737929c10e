-------------------------- MODULE SerialDataProofs --------------------------
(***************************************************************************)
(* Proofs about SerialData, for any number and size of blocks and any      *)
(* number of bytes: a paced owner's blocks go out whole and in order, and  *)
(* no received byte is lost but to the purge of a write: the port          *)
(* implements the channel of PortChannel, which keeps both its orders.     *)
(***************************************************************************)
EXTENDS SerialData, SequenceTheorems, TLAPS

-----------------------------------------------------------------------------
(* Sequences *)

\* An element more, at the end.
LEMMA AppendSeq ==
  ASSUME NEW S, NEW s \in Seq(S), NEW e \in S
  PROVE  /\ Append(s, e) \in Seq(S)
         /\ Len(Append(s, e)) = Len(s) + 1
         /\ \A i \in 1..Len(s) : Append(s, e)[i] = s[i]
         /\ Append(s, e)[Len(s) + 1] = e
OBVIOUS

\* The elements of a sequence, by their places.
LEMMA RangeSeq ==
  ASSUME NEW S, NEW s \in Seq(S)
  PROVE  /\ Range(s) = {s[i] : i \in 1..Len(s)}
         /\ Range(s) \subseteq S
BY DEF Range

\* The elements with one more.
LEMMA RangeAppend ==
  ASSUME NEW S, NEW s \in Seq(S), NEW e \in S
  PROVE  Range(Append(s, e)) = Range(s) \cup {e}
<1>1. Append(s, e) \in Seq(S)
  BY AppendSeq
<1>2. Range(Append(s, e)) = {Append(s, e)[i] : i \in 1..(Len(s) + 1)}
  BY <1>1, RangeSeq, AppendSeq
<1>3. Len(s) \in Nat
  OBVIOUS
<1>4. Range(s) = {s[i] : i \in 1..Len(s)}
  BY RangeSeq
<1>5. QED
  BY <1>2, <1>3, <1>4, AppendSeq

\* The elements of two sequences together.
LEMMA RangeConcat ==
  ASSUME NEW S, NEW s \in Seq(S), NEW t \in Seq(S)
  PROVE  Range(s \o t) = Range(s) \cup Range(t)
<1>1. /\ s \o t \in Seq(S) /\ Len(s \o t) = Len(s) + Len(t)
      /\ Len(s) \in Nat /\ Len(t) \in Nat
  OBVIOUS
<1>2. Range(s \o t) = {(s \o t)[i] : i \in 1..(Len(s) + Len(t))}
  BY <1>1, RangeSeq
<1>3. \A i \in 1..Len(s) : (s \o t)[i] = s[i]
  BY <1>1, ConcatProperties
<1>4. \A i \in 1..Len(t) : (s \o t)[Len(s) + i] = t[i]
  BY <1>1, ConcatProperties
<1>5. \A i \in 1..(Len(s) + Len(t)) :
        i \in 1..Len(s) \/ \E j \in 1..Len(t) : i = Len(s) + j
  <2> SUFFICES ASSUME NEW i \in 1..(Len(s) + Len(t)), i \notin 1..Len(s)
               PROVE  \E j \in 1..Len(t) : i = Len(s) + j
    OBVIOUS
  <2>1. i - Len(s) \in 1..Len(t) /\ i = Len(s) + (i - Len(s))
    BY <1>1
  <2>2. QED
    BY <2>1
<1>6. \A j \in 1..Len(t) : Len(s) + j \in 1..(Len(s) + Len(t))
  BY <1>1
<1>7. \A i \in 1..Len(s) : i \in 1..(Len(s) + Len(t))
  BY <1>1
<1>8. Range(s) = {s[i] : i \in 1..Len(s)} /\ Range(t) = {t[i] : i \in 1..Len(t)}
  BY RangeSeq
<1>9. QED
  BY <1>2, <1>3, <1>4, <1>5, <1>6, <1>7, <1>8

\* A sequence cut in two.
LEMMA Cut ==
  ASSUME NEW S, NEW s \in Seq(S), NEW n \in 0..Len(s)
  PROVE  /\ SubSeq(s, 1, n) \in Seq(S) /\ SubSeq(s, n + 1, Len(s)) \in Seq(S)
         /\ Len(SubSeq(s, 1, n)) = n /\ Len(SubSeq(s, n + 1, Len(s))) = Len(s) - n
         /\ \A i \in 1..n : SubSeq(s, 1, n)[i] = s[i]
         /\ \A i \in 1..(Len(s) - n) : SubSeq(s, n + 1, Len(s))[i] = s[n + i]
<1>1. Len(s) \in Nat /\ n \in Nat /\ n <= Len(s) /\ \A i \in 1..Len(s) : s[i] \in S
  OBVIOUS
<1>2. \A i \in 1..n : s[i] \in S
  BY <1>1
<1>3. \A i \in (n + 1)..Len(s) : s[i] \in S
  BY <1>1
<1>4. /\ SubSeq(s, 1, n) \in Seq(S) /\ Len(SubSeq(s, 1, n)) = n
      /\ \A i \in 1..n : SubSeq(s, 1, n)[i] = s[i]
  BY <1>1, <1>2, SubSeqProperties
<1>5. /\ SubSeq(s, n + 1, Len(s)) \in Seq(S)
      /\ Len(SubSeq(s, n + 1, Len(s))) = Len(s) - n
      /\ \A i \in 1..(Len(s) - n) : SubSeq(s, n + 1, Len(s))[i] = s[n + i]
  BY <1>1, <1>3, SubSeqProperties
<1>6. QED
  BY <1>4, <1>5

\* Both halves of a cut sequence together are the sequence.
LEMMA CutConcat ==
  ASSUME NEW S, NEW s \in Seq(S), NEW n \in 0..Len(s)
  PROVE  SubSeq(s, 1, n) \o SubSeq(s, n + 1, Len(s)) = s
<1> DEFINE a == SubSeq(s, 1, n)
           b == SubSeq(s, n + 1, Len(s))
<1>1. /\ a \in Seq(S) /\ b \in Seq(S) /\ Len(a) = n /\ Len(b) = Len(s) - n
      /\ \A i \in 1..n : a[i] = s[i]
      /\ \A i \in 1..(Len(s) - n) : b[i] = s[n + i]
  BY Cut
<1>2. Len(s) \in Nat /\ n \in Nat /\ n <= Len(s)
  OBVIOUS
<1> HIDE DEF a, b
<1>3. Len(a) + Len(b) = Len(s)
  BY <1>1, <1>2
<1>4. /\ a \o b \in Seq(S) /\ Len(a \o b) = Len(s)
      /\ \A i \in 1..Len(s) : (a \o b)[i] = IF i <= n THEN a[i] ELSE b[i - n]
  BY <1>1, <1>3, ConcatProperties
<1>5. ASSUME NEW i \in 1..Len(s) PROVE (a \o b)[i] = s[i]
  <2>1. CASE i <= n
    BY <1>1, <1>2, <1>4, <2>1
  <2>2. CASE ~(i <= n)
    <3>1. i - n \in 1..(Len(s) - n) /\ n + (i - n) = i
      BY <1>2, <2>2
    <3>2. (a \o b)[i] = b[i - n]
      BY <1>4, <2>2
    <3>3. b[i - n] = s[n + (i - n)]
      BY <1>1, <3>1
    <3>4. QED
      BY <3>1, <3>2, <3>3
  <2>3. QED
    BY <2>1, <2>2, Zenon
<1>6. a \o b = s
  BY <1>4, <1>5, SeqEqual
<1>7. QED
  BY <1>6 DEF a, b

\* Cutting a sequence loses no element.
LEMMA RangeCut ==
  ASSUME NEW S, NEW s \in Seq(S), NEW n \in 0..Len(s)
  PROVE  Range(s) = Range(SubSeq(s, 1, n)) \cup Range(SubSeq(s, n + 1, Len(s)))
<1> DEFINE a == SubSeq(s, 1, n)
           b == SubSeq(s, n + 1, Len(s))
<1>1. a \in Seq(S) /\ b \in Seq(S)
  BY Cut
<1>2. a \o b = s
  BY CutConcat
<1> HIDE DEF a, b
<1>3. Range(a \o b) = Range(a) \cup Range(b)
  BY <1>1, RangeConcat
<1>4. Range(s) = Range(a) \cup Range(b)
  BY <1>2, <1>3, Zenon
<1>5. QED
  BY <1>4 DEF a, b

\* A rising sequence rises with a greater element behind it.
LEMMA RisingAppend ==
  ASSUME NEW s \in Seq(Int), NEW e \in Int, Rising(s), \A x \in Range(s) : x < e
  PROVE  Rising(Append(s, e))
<1>1. \A i \in 1..Len(s) : s[i] < e
  BY RangeSeq
<1>2. QED
  BY <1>1, AppendSeq, SMTT(20) DEF Rising

\* Two rising sequences, the second behind the first, rise together.
LEMMA RisingConcat ==
  ASSUME NEW s \in Seq(Int), NEW t \in Seq(Int), Rising(s), Rising(t), Before(s, t)
  PROVE  Rising(s \o t)
<1>1. \A i \in 1..Len(s), j \in 1..Len(t) : s[i] < t[j]
  <2>1. /\ Range(s) = {s[i] : i \in 1..Len(s)}
        /\ Range(t) = {t[i] : i \in 1..Len(t)}
    BY RangeSeq
  <2>2. QED
    BY <2>1 DEF Before
<1>2. /\ Len(s) \in Nat /\ Len(t) \in Nat /\ Len(s \o t) = Len(s) + Len(t)
      /\ \A i \in 1..(Len(s) + Len(t)) :
           (s \o t)[i] = IF i <= Len(s) THEN s[i] ELSE t[i - Len(s)]
  BY ConcatProperties
<1>3. ASSUME NEW i \in 1..Len(s \o t), NEW j \in 1..Len(s \o t), i < j
      PROVE  (s \o t)[i] < (s \o t)[j]
  <2>1. CASE j <= Len(s)
    <3>1. i \in 1..Len(s) /\ j \in 1..Len(s)
      BY <1>2, <1>3, <2>1
    <3>2. (s \o t)[i] = s[i] /\ (s \o t)[j] = s[j]
      BY <1>2, <3>1
    <3>3. QED
      BY <1>3, <3>1, <3>2 DEF Rising
  <2>2. CASE i <= Len(s) /\ Len(s) < j
    <3>1. i \in 1..Len(s) /\ j - Len(s) \in 1..Len(t) /\ ~(j <= Len(s))
      BY <1>2, <2>2
    <3>2. (s \o t)[i] = s[i] /\ (s \o t)[j] = t[j - Len(s)]
      BY <1>2, <3>1
    <3>3. QED
      BY <1>1, <3>1, <3>2
  <2>3. CASE Len(s) < i
    <3>1. i \in 1..(Len(s) + Len(t)) /\ j \in 1..(Len(s) + Len(t))
      BY <1>2
    <3>2. /\ i - Len(s) \in 1..Len(t) /\ j - Len(s) \in 1..Len(t)
          /\ i - Len(s) < j - Len(s) /\ ~(i <= Len(s)) /\ ~(j <= Len(s))
      BY <1>2, <1>3, <2>3, <3>1, SMTT(20)
    <3>3. (s \o t)[i] = t[i - Len(s)] /\ (s \o t)[j] = t[j - Len(s)]
      BY <1>2, <3>1, <3>2
    <3>4. QED
      BY <3>2, <3>3 DEF Rising
  <2>4. i \in Nat /\ j \in Nat
    OBVIOUS
  <2>5. j <= Len(s) \/ (i <= Len(s) /\ Len(s) < j) \/ Len(s) < i
    BY <1>2, <2>4
  <2>6. QED
    BY <2>1, <2>2, <2>3, <2>5, Zenon
<1>4. QED
  BY <1>3 DEF Rising

\* The parts of a rising sequence rise, the second behind the first.
LEMMA RisingCut ==
  ASSUME NEW s \in Seq(Int), NEW n \in 0..Len(s), Rising(s)
  PROVE  /\ Rising(SubSeq(s, 1, n)) /\ Rising(SubSeq(s, n + 1, Len(s)))
         /\ Before(SubSeq(s, 1, n), SubSeq(s, n + 1, Len(s)))
<1> DEFINE a == SubSeq(s, 1, n)
           b == SubSeq(s, n + 1, Len(s))
<1>1. /\ a \in Seq(Int) /\ b \in Seq(Int) /\ Len(a) = n /\ Len(b) = Len(s) - n
      /\ \A i \in 1..n : a[i] = s[i]
      /\ \A i \in 1..(Len(s) - n) : b[i] = s[n + i]
  BY Cut
<1>2. Len(s) \in Nat /\ n \in Nat /\ n <= Len(s)
  OBVIOUS
<1> HIDE DEF a, b
<1>3. ASSUME NEW i \in 1..Len(a), NEW j \in 1..Len(a), i < j PROVE a[i] < a[j]
  <2>1. i \in 1..Len(s) /\ j \in 1..Len(s) /\ i \in 1..n /\ j \in 1..n
    BY <1>1, <1>2
  <2>2. s[i] < s[j]
    BY <1>3, <2>1 DEF Rising
  <2>3. QED
    BY <1>1, <2>1, <2>2
<1>4. ASSUME NEW i \in 1..Len(b), NEW j \in 1..Len(b), i < j PROVE b[i] < b[j]
  <2>1. /\ n + i \in 1..Len(s) /\ n + j \in 1..Len(s) /\ n + i < n + j
        /\ i \in 1..(Len(s) - n) /\ j \in 1..(Len(s) - n)
    BY <1>1, <1>2, <1>4
  <2>2. s[n + i] < s[n + j]
    BY <2>1 DEF Rising
  <2>3. QED
    BY <1>1, <2>1, <2>2
<1>5. ASSUME NEW i \in 1..Len(a), NEW j \in 1..Len(b) PROVE a[i] < b[j]
  <2>1. /\ i \in 1..Len(s) /\ n + j \in 1..Len(s) /\ i < n + j
        /\ i \in 1..n /\ j \in 1..(Len(s) - n)
    BY <1>1, <1>2
  <2>2. s[i] < s[n + j]
    BY <2>1 DEF Rising
  <2>3. QED
    BY <1>1, <2>1, <2>2
<1>6. Before(a, b)
  <2>1. Range(a) = {a[i] : i \in 1..Len(a)} /\ Range(b) = {b[i] : i \in 1..Len(b)}
    BY <1>1, RangeSeq
  <2>2. QED
    BY <1>5, <2>1 DEF Before
<1>7. QED
  BY <1>3, <1>4, <1>6 DEF a, b, Rising

\* What a block is: as many cells as asked for, holding its number.
LEMMA BlockSeq ==
  ASSUME NEW k, NEW n \in Nat, NEW S, k \in S
  PROVE  Block(k, n) \in Seq(S) /\ Len(Block(k, n)) = n
BY DEF Block

\* A sequence is a prefix of itself.
LEMMA PrefixSelf ==
  ASSUME NEW S, NEW s \in Seq(S)
  PROVE  IsPrefix(s, s)
BY DEF IsPrefix

\* So it is of itself with an element more.
LEMMA PrefixAppend ==
  ASSUME NEW S, NEW s \in Seq(S), NEW e \in S
  PROVE  IsPrefix(s, Append(s, e))
<1>1. Append(s, e) = s \o <<e>> /\ <<e>> \in Seq(S)
  OBVIOUS
<1>2. Len(s) \in Nat /\ Len(Append(s, e)) = Len(s) + 1
  BY AppendSeq
<1>3. SubSeq(Append(s, e), 1, Len(s)) = s
  <2>1. \A i \in 1..Len(s) : Append(s, e)[i] = s[i] /\ s[i] \in S
    BY AppendSeq
  <2>2. /\ SubSeq(Append(s, e), 1, Len(s)) \in Seq(S)
        /\ Len(SubSeq(Append(s, e), 1, Len(s))) = Len(s)
        /\ \A i \in 1..Len(s) : SubSeq(Append(s, e), 1, Len(s))[i] = s[i]
    BY <1>2, <2>1, SubSeqProperties
  <2>3. QED
    BY <2>2, SeqEqual
<1>4. SubSeq(s, 1, Len(s)) = s
  BY SubSeqFull
<1>5. QED
  BY <1>2, <1>3, <1>4 DEF IsPrefix

-----------------------------------------------------------------------------
(* Types *)

OwnerTyped ==
  /\ paced \in BOOLEAN
  /\ m_szWriteBuffer \in [1..MaxSize -> 0..MaxWrites]
  /\ m_nWriteSize \in 1..MaxSize
  /\ opc \in {"idle", "copy", "size", "signal"}
  /\ request \in Seq(0..MaxWrites)
EventsTyped ==
  /\ m_hWriteEvent \in BOOLEAN /\ m_ovEvent \in BOOLEAN
  /\ waitPending \in BOOLEAN /\ commEvent \in BOOLEAN
ThreadTyped ==
  /\ pc \in {"loop", "wait", "size", "enter", "write", "pending", "read", "readFile", "send"}
  /\ sendLen \in 0..MaxSize
  /\ cbInQue \in 0..MaxRx
BytesTyped ==
  /\ rxQueue \in Seq(1..MaxRx) /\ rxBuff \in Seq(1..MaxRx)
  /\ arrived \in 0..MaxRx
  /\ delivered \in Seq(1..MaxRx) /\ purged \in SUBSET (1..MaxRx)
BlocksTyped == requested \in Seq(Seq(0..MaxWrites)) /\ wire \in Seq(Seq(0..MaxWrites))

\* TypeOK in five parts.
LEMMA TypeParts ==
  TypeOK <=> OwnerTyped /\ EventsTyped /\ ThreadTyped /\ BytesTyped /\ BlocksTyped
BY DEF TypeOK, OwnerTyped, EventsTyped, ThreadTyped, BytesTyped, BlocksTyped

\* A block of the number after the last fits the types.
LEMMA NextBlock ==
  ASSUME BlocksTyped, Len(requested) < MaxWrites, NEW n \in 1..MaxSize
  PROVE  /\ Block(Len(requested) + 1, n) \in Seq(0..MaxWrites)
         /\ Len(Block(Len(requested) + 1, n)) = n
<1>1. Len(requested) \in Nat
  BY DEF BlocksTyped
<1>2. Len(requested) + 1 \in 0..MaxWrites /\ n \in Nat
  BY <1>1, SerialDataAssumption
<1>3. QED
  BY <1>2, BlockSeq

\* The cells WriteFile takes are a block.
LEMMA CellsSeq ==
  ASSUME OwnerTyped, ThreadTyped
  PROVE  /\ SubSeq(m_szWriteBuffer, 1, sendLen) \in Seq(0..MaxWrites)
         /\ Len(SubSeq(m_szWriteBuffer, 1, sendLen)) = sendLen
         /\ \A i \in 1..sendLen :
              SubSeq(m_szWriteBuffer, 1, sendLen)[i] = m_szWriteBuffer[i]
<1>1. sendLen \in Nat /\ \A i \in 1..sendLen : i \in 1..MaxSize
  BY SerialDataAssumption DEF ThreadTyped
<1>2. \A i \in 1..sendLen : m_szWriteBuffer[i] \in 0..MaxWrites
  BY <1>1 DEF OwnerTyped
<1>3. QED
  BY <1>1, <1>2, SubSeqProperties

\* WriteToPort keeps the owner's types.
LEMMA OwnerStep ==
  ASSUME TypeOK, RequestSized, WriteBegin \/ OwnerWrites
  PROVE  OwnerTyped'
<1> USE TypeParts, SerialDataAssumption
<1>1. CASE WriteBegin
  <2>1. PICK n \in 1..MaxSize : request' = Block(Len(requested) + 1, n)
    BY <1>1 DEF WriteBegin
  <2>2. request' \in Seq(0..MaxWrites)
    BY <1>1, <2>1, NextBlock DEF WriteBegin
  <2>3. m_szWriteBuffer' \in [1..MaxSize -> 0..MaxWrites]
    BY <1>1 DEF WriteBegin, Blank
  <2>4. QED
    BY <1>1, <2>2, <2>3 DEF WriteBegin, OwnerTyped
<1>2. CASE WriteCopy
  <2>1. \A i \in 1..Len(request) : request[i] \in 0..MaxWrites
    BY DEF OwnerTyped
  <2>2. Len(request) \in Nat
    BY DEF OwnerTyped
  <2>3. \A i \in 1..MaxSize : i <= Len(request) => i \in 1..Len(request)
    BY <2>2
  <2>4. m_szWriteBuffer' \in [1..MaxSize -> 0..MaxWrites]
    BY <1>2, <2>1, <2>3 DEF WriteCopy, OwnerTyped
  <2>5. QED
    BY <1>2, <2>4 DEF WriteCopy, OwnerTyped
<1>3. CASE WriteSize
  BY <1>3 DEF WriteSize, OwnerTyped, RequestSized
<1>4. CASE WriteSignal
  BY <1>4 DEF WriteSignal, OwnerTyped
<1>5. QED
  BY <1>1, <1>2, <1>3, <1>4 DEF OwnerWrites

\* Only WriteToPort changes what is the owner's.
LEMMA OthersStep ==
  ASSUME OwnerReceives \/ ByteArrives \/ ThreadStep
  PROVE  UNCHANGED writer
BY Zenon DEF OwnerReceives, ByteArrives, ThreadStep, WaitCommEvent, WriteCharSize,
   WriteCharReset, WriteCharPurge, WriteFile, WriteCompletes, ReadBegin, ReceiveCount,
   ReceiveRead

\* WriteToPort changes nothing of the comm thread's and nothing that was received.
LEMMA WritesApart ==
  ASSUME WriteBegin \/ OwnerWrites
  PROVE  UNCHANGED <<thread, driver, rxBuff, wire, delivered, purged>>
BY Zenon DEF WriteBegin, OwnerWrites, WriteCopy, WriteSize, WriteSignal

\* Every step keeps the events Booleans.
LEMMA EventsStep ==
  ASSUME EventsTyped, Next
  PROVE  EventsTyped'
<1> USE DEF EventsTyped, driver
<1>1. CASE WriteBegin
  BY <1>1, Zenon DEF WriteBegin
<1>2. CASE OwnerWrites
  BY <1>2, Zenon DEF OwnerWrites, WriteCopy, WriteSize, WriteSignal
<1>3. CASE OwnerReceives
  BY <1>3, Zenon DEF OwnerReceives
<1>4. CASE ByteArrives
  BY <1>4 DEF ByteArrives
<1>5. CASE WaitCommEvent
  BY <1>5 DEF WaitCommEvent
<1>6. CASE WriteCharSize
  BY <1>6, Zenon DEF WriteCharSize
<1>7. CASE WriteCharReset
  BY <1>7, Zenon DEF WriteCharReset
<1>8. CASE WriteCharPurge
  BY <1>8, Zenon DEF WriteCharPurge
<1>9. CASE WriteFile
  BY <1>9, Zenon DEF WriteFile
<1>10. CASE WriteCompletes
  BY <1>10, Zenon DEF WriteCompletes
<1>11. CASE ReadBegin
  BY <1>11, Zenon DEF ReadBegin
<1>12. CASE ReceiveCount
  BY <1>12, Zenon DEF ReceiveCount
<1>13. CASE ReceiveRead
  BY <1>13, Zenon DEF ReceiveRead
<1>14. QED
  BY <1>1, <1>2, <1>3, <1>4, <1>5, <1>6, <1>7, <1>8, <1>9, <1>10, <1>11, <1>12, <1>13
     DEF Next, ThreadStep

\* Every step keeps the comm thread's types.
LEMMA ThreadTypeStep ==
  ASSUME TypeOK, ReadProgress, Next
  PROVE  ThreadTyped'
<1> USE TypeParts DEF ThreadTyped
<1>1. CASE WriteBegin \/ OwnerWrites
  BY <1>1, WritesApart DEF thread
<1>2. CASE OwnerReceives
  BY <1>2 DEF OwnerReceives
<1>3. CASE ByteArrives
  BY <1>3 DEF ByteArrives, thread
<1>4. CASE WaitCommEvent
  BY <1>4 DEF WaitCommEvent
<1>5. CASE WriteCharSize
  BY <1>5, SerialDataAssumption DEF WriteCharSize, OwnerTyped
<1>6. CASE WriteCharReset
  BY <1>6 DEF WriteCharReset
<1>7. CASE WriteCharPurge
  BY <1>7 DEF WriteCharPurge
<1>8. CASE WriteFile
  BY <1>8 DEF WriteFile
<1>9. CASE WriteCompletes
  BY <1>9 DEF WriteCompletes
<1>10. CASE ReadBegin
  BY <1>10 DEF ReadBegin
<1>11. CASE ReceiveCount
  <2>1. Len(rxQueue) \in 0..MaxRx
    BY SerialDataAssumption DEF ReadProgress, BytesTyped
  <2>2. QED
    BY <1>11, <2>1 DEF ReceiveCount
<1>12. CASE ReceiveRead
  BY <1>12 DEF ReceiveRead
<1>13. QED
  BY <1>1, <1>2, <1>3, <1>4, <1>5, <1>6, <1>7, <1>8, <1>9, <1>10, <1>11, <1>12
     DEF Next, ThreadStep

\* Every step keeps the blocks handed over and sent sequences of cells.
LEMMA BlocksStep ==
  ASSUME TypeOK, Next
  PROVE  BlocksTyped'
<1> USE TypeParts
<1>1. CASE WriteBegin
  <2>1. PICK n \in 1..MaxSize : request' = Block(Len(requested) + 1, n)
    BY <1>1 DEF WriteBegin
  <2>2. request' \in Seq(0..MaxWrites)
    BY <1>1, <2>1, NextBlock DEF WriteBegin
  <2>3. Append(requested, request') \in Seq(Seq(0..MaxWrites))
    BY <2>2, AppendSeq DEF BlocksTyped
  <2>4. QED
    BY <1>1, <2>3 DEF WriteBegin, BlocksTyped
<1>2. CASE WriteFile
  <2>1. Append(wire, SubSeq(m_szWriteBuffer, 1, sendLen)) \in Seq(Seq(0..MaxWrites))
    BY CellsSeq, AppendSeq DEF BlocksTyped
  <2>2. UNCHANGED requested
    BY <1>2 DEF WriteFile, writer
  <2>3. QED
    BY <1>2, <2>1, <2>2 DEF WriteFile, BlocksTyped
<1>3. CASE OwnerWrites \/ OwnerReceives \/ ByteArrives
  BY <1>3 DEF OwnerWrites, WriteCopy, WriteSize, WriteSignal, OwnerReceives, ByteArrives,
              writer, BlocksTyped
<1>4. CASE ThreadStep /\ ~WriteFile
  BY <1>4 DEF ThreadStep, WaitCommEvent, WriteCharSize, WriteCharReset, WriteCharPurge,
              WriteCompletes, ReadBegin, ReceiveCount, ReceiveRead, writer, BlocksTyped
<1>5. QED
  BY <1>1, <1>2, <1>3, <1>4 DEF Next, ThreadStep

\* Every step keeps the block being handed over of a size that fits.
LEMMA SizedStep ==
  ASSUME TypeOK, RequestSized, Next
  PROVE  RequestSized'
<1> USE TypeParts DEF RequestSized
<1>1. CASE WriteBegin
  <2>1. PICK n \in 1..MaxSize : request' = Block(Len(requested) + 1, n)
    BY <1>1 DEF WriteBegin
  <2>2. QED
    BY <1>1, <2>1, NextBlock DEF WriteBegin
<1>2. CASE OwnerWrites
  BY <1>2 DEF OwnerWrites, WriteCopy, WriteSize, WriteSignal
<1>3. CASE OwnerReceives \/ ByteArrives \/ ThreadStep
  BY <1>3, OthersStep DEF writer
<1>4. QED
  BY <1>1, <1>2, <1>3 DEF Next

-----------------------------------------------------------------------------
(* Received bytes *)

\* The types of the bytes, as the lemmas on sequences need them.
LEMMA BytesFacts ==
  ASSUME TypeOK, NothingVanishes
  PROVE  /\ delivered \in Seq(Int) /\ rxBuff \in Seq(Int) /\ rxQueue \in Seq(Int)
         /\ arrived \in Nat /\ arrived <= MaxRx
         /\ Range(delivered) \subseteq 1..arrived /\ Range(rxBuff) \subseteq 1..arrived
         /\ Range(rxQueue) \subseteq 1..arrived /\ purged \subseteq 1..arrived
<1>1. /\ delivered \in Seq(1..MaxRx) /\ rxBuff \in Seq(1..MaxRx)
      /\ rxQueue \in Seq(1..MaxRx) /\ arrived \in Nat /\ arrived <= MaxRx
  BY SerialDataAssumption DEF TypeOK
<1>2. delivered \in Seq(Int) /\ rxBuff \in Seq(Int) /\ rxQueue \in Seq(Int)
  <2>1. 1..MaxRx \subseteq Int
    OBVIOUS
  <2>2. QED
    BY <1>1, <2>1, SeqMonotonic
<1>3. QED
  BY <1>1, <1>2 DEF NothingVanishes

\* An empty sequence rises and is before and behind every other.
LEMMA EmptyFacts ==
  /\ Range(<<>>) = {} /\ Rising(<<>>) /\ Len(<<>>) = 0
  /\ \A t : Before(<<>>, t) /\ Before(t, <<>>)
<1>1. Range(<<>>) = {}
  BY DEF Range
<1>2. QED
  BY <1>1 DEF Rising, Before

\* Steps that move no byte.
LEMMA BytesKept ==
  ASSUME TypeOK, BytesInv, UNCHANGED <<rxQueue, rxBuff, arrived, delivered, purged>>,
         pc' = "readFile" => cbInQue' <= Len(rxQueue), pc = "send" => pc' = "send"
  PROVE  BytesTyped' /\ BytesInv'
<1>1. BytesTyped'
  BY TypeParts DEF BytesTyped
<1>2. ReadProgress'
  BY DEF BytesInv, ReadProgress
<1>3. BytesOrdered'
  BY DEF BytesInv, BytesOrdered, Rising, Before
<1>4. NothingVanishes'
  BY DEF BytesInv, NothingVanishes, Rising
<1>5. QED
  BY <1>1, <1>2, <1>3, <1>4 DEF BytesInv

\* A byte that arrives is later than all others.
LEMMA ArrivesStep ==
  ASSUME TypeOK, BytesInv, ByteArrives
  PROVE  BytesTyped' /\ BytesInv'
<1> DEFINE e == arrived + 1
<1>1. /\ arrived' = e /\ rxQueue' = Append(rxQueue, e) /\ arrived < MaxRx
      /\ UNCHANGED <<thread, rxBuff, delivered, purged>>
  BY DEF ByteArrives
<1>2. e \in Int /\ e \in 1..MaxRx /\ \A x \in 1..arrived : x < e
  BY <1>1, BytesFacts, SerialDataAssumption DEF BytesInv
<1>3. Range(rxQueue') = Range(rxQueue) \cup {e}
  BY <1>1, <1>2, BytesFacts, RangeAppend DEF BytesInv
<1>4. BytesTyped'
  <2>1. arrived' \in 0..MaxRx
    BY <1>1, <1>2, SerialDataAssumption
  <2>2. rxQueue' \in Seq(1..MaxRx)
    BY <1>1, <1>2, AppendSeq, TypeParts DEF BytesTyped
  <2>3. QED
    BY <1>1, <2>1, <2>2, TypeParts DEF BytesTyped
<1>5. Rising(rxQueue')
  <2>1. \A x \in Range(rxQueue) : x < e
    BY <1>2, BytesFacts DEF BytesInv
  <2>2. QED
    BY <1>1, <1>2, <2>1, BytesFacts, RisingAppend DEF BytesInv, BytesOrdered
<1>6. Before(delivered, rxQueue') /\ Before(rxBuff, rxQueue')
  BY <1>2, <1>3, BytesFacts DEF BytesInv, BytesOrdered, Before
<1>7. e \notin purged /\ e \notin Range(delivered)
  BY <1>2, BytesFacts DEF BytesInv
<1>8. BytesOrdered'
  <2>1. Rising(rxBuff)' /\ Before(delivered, rxBuff)'
    BY <1>1 DEF BytesInv, BytesOrdered, Rising, Before
  <2>2. (purged \cap (Range(rxBuff) \cup Range(rxQueue)) = {})'
    BY <1>1, <1>3, <1>7 DEF BytesInv, BytesOrdered
  <2>3. Before(delivered, rxQueue)' /\ Before(rxBuff, rxQueue)' /\ Rising(rxQueue)'
    BY <1>1, <1>5, <1>6 DEF Before, Rising
  <2>4. QED
    BY <2>1, <2>2, <2>3 DEF BytesOrdered
<1>9. NothingVanishes'
  <2>1. Rising(delivered)'
    BY <1>1 DEF BytesInv, NothingVanishes, Rising
  <2>2. 1..e = 1..arrived \cup {e}
    BY BytesFacts DEF BytesInv
  <2>3. (1..arrived = Range(delivered) \cup Range(rxBuff) \cup Range(rxQueue) \cup purged)'
    BY <1>1, <1>3, <2>2 DEF BytesInv, NothingVanishes
  <2>4. (Range(delivered) \cap (Range(rxBuff) \cup Range(rxQueue) \cup purged) = {})'
    BY <1>1, <1>3, <1>7 DEF BytesInv, NothingVanishes
  <2>5. QED
    BY <2>1, <2>3, <2>4 DEF NothingVanishes
<1>10. ReadProgress'
  <2>1. /\ Len(rxQueue') = Len(rxQueue) + 1 /\ Len(rxQueue) \in Nat
    BY <1>1, <1>2, BytesFacts, AppendSeq DEF BytesInv
  <2>2. cbInQue \in Nat
    BY SerialDataAssumption, TypeParts DEF ThreadTyped
  <2>3. QED
    BY <1>1, <2>1, <2>2, BytesFacts DEF BytesInv, ReadProgress, thread
<1>11. QED
  BY <1>4, <1>8, <1>9, <1>10 DEF BytesInv

\* The owner receives what is behind all he received before.
LEMMA ReceivesStep ==
  ASSUME TypeOK, BytesInv, OwnerReceives
  PROVE  BytesTyped' /\ BytesInv'
<1>1. /\ delivered' = delivered \o rxBuff /\ rxBuff' = <<>> /\ pc' = "read"
      /\ UNCHANGED <<rxQueue, arrived, purged>>
  BY DEF OwnerReceives, driver
<1>2. Range(delivered') = Range(delivered) \cup Range(rxBuff) /\ Range(rxBuff') = {}
  BY <1>1, BytesFacts, RangeConcat, EmptyFacts DEF BytesInv
<1>3. BytesTyped'
  <2>1. delivered' \in Seq(1..MaxRx)
    BY <1>1, ConcatProperties, TypeParts DEF BytesTyped
  <2>2. rxBuff' \in Seq(1..MaxRx)
    BY <1>1
  <2>3. QED
    BY <1>1, <2>1, <2>2, TypeParts DEF BytesTyped
<1>4. Rising(delivered')
  BY <1>1, BytesFacts, RisingConcat DEF BytesInv, BytesOrdered, NothingVanishes
<1>5. Before(delivered', rxQueue')
  BY <1>1, <1>2 DEF BytesInv, BytesOrdered, Before
<1>6. Range(rxBuff) \cap Range(rxQueue) = {}
  BY BytesFacts DEF BytesInv, BytesOrdered, Before
<1>7. BytesOrdered'
  <2>1. Rising(rxBuff') /\ Before(delivered', rxBuff') /\ Before(rxBuff', rxQueue')
    BY <1>1, EmptyFacts
  <2>2. (purged \cap (Range(rxBuff) \cup Range(rxQueue)) = {})'
    BY <1>1, <1>2 DEF BytesInv, BytesOrdered
  <2>3. Rising(rxQueue')
    BY <1>1 DEF BytesInv, BytesOrdered
  <2>4. QED
    BY <1>5, <2>1, <2>2, <2>3 DEF BytesOrdered, Rising, Before
<1>8. NothingVanishes'
  <2>1. (1..arrived = Range(delivered) \cup Range(rxBuff) \cup Range(rxQueue) \cup purged)'
    BY <1>1, <1>2 DEF BytesInv, NothingVanishes
  <2>2. (Range(delivered) \cap (Range(rxBuff) \cup Range(rxQueue) \cup purged) = {})'
    BY <1>1, <1>2, <1>6 DEF BytesInv, NothingVanishes, BytesOrdered
  <2>3. QED
    BY <1>4, <2>1, <2>2 DEF NothingVanishes, Rising
<1>9. ReadProgress'
  BY <1>1 DEF BytesInv, ReadProgress
<1>10. QED
  BY <1>3, <1>7, <1>8, <1>9 DEF BytesInv

\* A purge moves the driver's bytes to the purged ones.
LEMMA PurgeStep ==
  ASSUME TypeOK, BytesInv, WriteCharPurge
  PROVE  BytesTyped' /\ BytesInv'
<1>1. /\ purged' = purged \cup Range(rxQueue) /\ rxQueue' = <<>>
      /\ pc = "enter" /\ pc' = "write"
      /\ UNCHANGED <<arrived, rxBuff, delivered>>
  BY DEF WriteCharPurge
<1>2. Range(rxQueue') = {} /\ Range(rxQueue) \subseteq 1..MaxRx
  BY <1>1, EmptyFacts, RangeSeq, TypeParts DEF BytesTyped
<1>3. BytesTyped'
  <2>1. rxQueue' \in Seq(1..MaxRx)
    BY <1>1
  <2>2. QED
    BY <1>1, <1>2, <2>1, TypeParts DEF BytesTyped
<1>4. Range(rxBuff) \cap Range(rxQueue) = {} /\ Range(delivered) \cap Range(rxQueue) = {}
  BY BytesFacts DEF BytesInv, BytesOrdered, Before
<1>5. BytesOrdered'
  <2>1. Rising(rxQueue') /\ Before(delivered', rxQueue') /\ Before(rxBuff', rxQueue')
    BY <1>1, EmptyFacts
  <2>2. (purged \cap (Range(rxBuff) \cup Range(rxQueue)) = {})'
    BY <1>1, <1>2, <1>4 DEF BytesInv, BytesOrdered
  <2>3. Rising(rxBuff') /\ Before(delivered', rxBuff')
    BY <1>1 DEF BytesInv, BytesOrdered
  <2>4. QED
    BY <2>1, <2>2, <2>3 DEF BytesOrdered, Rising, Before
<1>6. NothingVanishes'
  <2>1. Rising(delivered')
    BY <1>1 DEF BytesInv, NothingVanishes
  <2>2. (1..arrived = Range(delivered) \cup Range(rxBuff) \cup Range(rxQueue) \cup purged)'
    BY <1>1, <1>2 DEF BytesInv, NothingVanishes
  <2>3. (Range(delivered) \cap (Range(rxBuff) \cup Range(rxQueue) \cup purged) = {})'
    BY <1>1, <1>2, <1>4 DEF BytesInv, NothingVanishes
  <2>4. QED
    BY <2>1, <2>2, <2>3 DEF NothingVanishes, Rising
<1>7. ReadProgress'
  <2>1. Len(rxQueue') = 0 /\ arrived \in Nat
    BY <1>1, BytesFacts, EmptyFacts DEF BytesInv
  <2>2. QED
    BY <1>1, <2>1 DEF BytesInv, ReadProgress
<1>8. QED
  BY <1>3, <1>5, <1>6, <1>7 DEF BytesInv

\* A read moves the first of the driver's bytes, and no other.
LEMMA ReadStep ==
  ASSUME TypeOK, BytesInv, ReceiveRead
  PROVE  BytesTyped' /\ BytesInv'
<1>1. /\ rxBuff' = SubSeq(rxQueue, 1, cbInQue)
      /\ rxQueue' = SubSeq(rxQueue, cbInQue + 1, Len(rxQueue))
      /\ pc = "readFile" /\ pc' = "send"
      /\ UNCHANGED <<arrived, delivered, purged>>
  BY DEF ReceiveRead
<1>2. cbInQue \in 0..Len(rxQueue) /\ rxBuff = <<>>
  <2>1. Len(rxQueue) \in Nat /\ cbInQue \in Nat
    BY BytesFacts, SerialDataAssumption, TypeParts DEF BytesInv, ThreadTyped
  <2>2. QED
    BY <1>1, <2>1 DEF BytesInv, ReadProgress
<1>3. Range(rxQueue) = Range(rxBuff') \cup Range(rxQueue') /\ Range(rxBuff) = {}
  BY <1>1, <1>2, BytesFacts, RangeCut, EmptyFacts DEF BytesInv
<1>4. Rising(rxBuff') /\ Rising(rxQueue') /\ Before(rxBuff', rxQueue')
  BY <1>1, <1>2, BytesFacts, RisingCut DEF BytesInv, BytesOrdered
<1>5. BytesTyped'
  <2>1. rxBuff' \in Seq(1..MaxRx) /\ rxQueue' \in Seq(1..MaxRx)
    BY <1>1, <1>2, Cut, TypeParts DEF BytesTyped
  <2>2. QED
    BY <1>1, <2>1, TypeParts DEF BytesTyped
<1>6. Before(delivered', rxBuff') /\ Before(delivered', rxQueue')
  BY <1>1, <1>3 DEF BytesInv, BytesOrdered, Before
<1>7. BytesOrdered'
  <2>1. (purged \cap (Range(rxBuff) \cup Range(rxQueue)) = {})'
    BY <1>1, <1>3 DEF BytesInv, BytesOrdered
  <2>2. QED
    BY <1>4, <1>6, <2>1 DEF BytesOrdered, Rising, Before
<1>8. NothingVanishes'
  <2>1. Rising(delivered')
    BY <1>1 DEF BytesInv, NothingVanishes
  <2>2. (1..arrived = Range(delivered) \cup Range(rxBuff) \cup Range(rxQueue) \cup purged)'
    BY <1>1, <1>3 DEF BytesInv, NothingVanishes
  <2>3. (Range(delivered) \cap (Range(rxBuff) \cup Range(rxQueue) \cup purged) = {})'
    BY <1>1, <1>3 DEF BytesInv, NothingVanishes
  <2>4. QED
    BY <2>1, <2>2, <2>3 DEF NothingVanishes, Rising
<1>9. ReadProgress'
  <2>1. Len(rxQueue') = Len(rxQueue) - cbInQue
    BY <1>1, <1>2, BytesFacts, Cut DEF BytesInv
  <2>2. QED
    BY <1>1, <1>2, <2>1, BytesFacts DEF BytesInv, ReadProgress
<1>10. QED
  BY <1>5, <1>7, <1>8, <1>9 DEF BytesInv

\* Every step keeps the bytes, in their order.
LEMMA BytesStep ==
  ASSUME TypeOK, BytesInv, Next
  PROVE  BytesTyped' /\ BytesInv'
<1>1. CASE WriteBegin \/ OwnerWrites
  BY <1>1, WritesApart, BytesKept DEF thread, driver, BytesInv, ReadProgress
<1>2. CASE OwnerReceives
  BY <1>2, ReceivesStep
<1>3. CASE ByteArrives
  BY <1>3, ArrivesStep
<1>4. CASE WriteCharPurge
  BY <1>4, PurgeStep
<1>5. CASE ReceiveRead
  BY <1>5, ReadStep
<1>6. CASE ReceiveCount
  <2>1. Len(rxQueue) \in Nat
    BY BytesFacts DEF BytesInv
  <2>2. QED
    BY <1>6, <2>1, BytesKept DEF ReceiveCount, driver
<1>7. CASE WaitCommEvent
  BY <1>7, BytesKept DEF WaitCommEvent
<1>8. CASE WriteCharSize
  BY <1>8, BytesKept DEF WriteCharSize, driver
<1>9. CASE WriteCharReset
  BY <1>9, BytesKept DEF WriteCharReset, driver
<1>10. CASE WriteFile
  BY <1>10, BytesKept DEF WriteFile, driver
<1>11. CASE WriteCompletes
  BY <1>11, BytesKept DEF WriteCompletes, driver
<1>12. CASE ReadBegin
  BY <1>12, BytesKept DEF ReadBegin, driver
<1>13. QED
  BY <1>1, <1>2, <1>3, <1>4, <1>5, <1>6, <1>7, <1>8, <1>9, <1>10, <1>11, <1>12
     DEF Next, ThreadStep

-----------------------------------------------------------------------------
(* The blocks of any owner, paced or not *)

\* Steps that begin, signal, fetch and send no block.
LEMMA ClaimsKept ==
  ASSUME NoneTwice, UNCHANGED <<requested, wire, m_hWriteEvent>>,
         opc' = "idle" <=> opc = "idle",
         pc' = pc \/ {pc, pc'} \cap {"size", "enter", "write"} = {}
  PROVE  NoneTwice'
<1>1. pc' \in {"enter", "write"} <=> pc \in {"enter", "write"}
  OBVIOUS
<1>2. pc' = "size" => pc = "size"
  OBVIOUS
<1>3. m_hWriteEvent' <=> m_hWriteEvent
  OBVIOUS
<1>4. Claims' = Claims
  BY <1>1, <1>3 DEF Claims
<1>5. QED
  BY <1>2, <1>3, <1>4 DEF NoneTwice

\* The lengths of what was handed over and sent are numbers.
LEMMA LengthFacts ==
  ASSUME BlocksTyped
  PROVE  Len(requested) \in Nat /\ Len(wire) \in Nat
BY DEF BlocksTyped

\* A block is handed over before it is claimed, and its claim passes from the owner
\* to the event and on to WriteChar, which gives it up with the sending.
LEMMA ClaimsStep ==
  ASSUME TypeOK, NoneTwice, Next
  PROVE  NoneTwice'
<1> USE TypeParts, LengthFacts
<1>1. CASE WriteBegin
  <2>1. /\ opc = "idle" /\ opc' = "copy" /\ m_hWriteEvent' = m_hWriteEvent
        /\ UNCHANGED <<pc, wire>> /\ requested' = Append(requested, request')
    BY <1>1, Zenon DEF WriteBegin, thread
  <2>2. request' \in Seq(0..MaxWrites)
    BY <1>1, OwnerStep, NextBlock DEF WriteBegin
  <2>3. Len(requested') = Len(requested) + 1
    BY <2>1, <2>2, AppendSeq DEF BlocksTyped
  <2>4. Claims' = Claims + 1 /\ Claims \in Nat
    BY <2>1 DEF Claims
  <2>5. QED
    BY <2>1, <2>3, <2>4 DEF NoneTwice
<1>2. CASE WriteCopy \/ WriteSize
  BY <1>2, ClaimsKept, Zenon DEF WriteCopy, WriteSize, thread
<1>3. CASE WriteSignal
  <2>1. opc = "signal" /\ opc' = "idle" /\ m_hWriteEvent' /\ UNCHANGED <<pc, wire, requested>>
    BY <1>3, Zenon DEF WriteSignal, thread
  <2>2. Claims \in Nat /\ Claims' \in Nat /\ Claims' <= Claims
    BY <2>1 DEF Claims
  <2>3. QED
    BY <2>1, <2>2 DEF NoneTwice
<1>4. CASE WriteCharSize
  <2>1. /\ pc = "wait" /\ pc' = "size" /\ m_hWriteEvent /\ m_hWriteEvent'
        /\ UNCHANGED <<opc, wire, requested>>
    BY <1>4, Zenon DEF WriteCharSize, writer
  <2>2. Claims' = Claims
    BY <2>1 DEF Claims
  <2>3. QED
    BY <2>1, <2>2 DEF NoneTwice
<1>5. CASE WriteCharReset
  <2>1. /\ pc = "size" /\ pc' = "enter" /\ ~m_hWriteEvent'
        /\ UNCHANGED <<opc, wire, requested>>
    BY <1>5, Zenon DEF WriteCharReset, writer
  <2>2. m_hWriteEvent
    BY <2>1 DEF NoneTwice
  <2>3. Claims' = Claims
    BY <2>1, <2>2 DEF Claims
  <2>4. QED
    BY <2>1, <2>3 DEF NoneTwice
<1>6. CASE WriteCharPurge
  <2>1. /\ pc = "enter" /\ pc' = "write" /\ m_hWriteEvent' = m_hWriteEvent
        /\ UNCHANGED <<opc, wire, requested>>
    BY <1>6, Zenon DEF WriteCharPurge, writer
  <2>2. Claims' = Claims
    BY <2>1 DEF Claims
  <2>3. QED
    BY <2>1, <2>2 DEF NoneTwice
<1>7. CASE WriteFile
  <2>1. /\ pc = "write" /\ pc' \in {"loop", "pending"} /\ m_hWriteEvent' = m_hWriteEvent
        /\ UNCHANGED <<opc, requested>>
        /\ wire' = Append(wire, SubSeq(m_szWriteBuffer, 1, sendLen))
    BY <1>7 DEF WriteFile, writer
  <2>2. Len(wire') = Len(wire) + 1
    BY <2>1, CellsSeq, AppendSeq DEF BlocksTyped
  <2>3. Claims' + 1 = Claims /\ Claims' \in Nat
    BY <2>1 DEF Claims
  <2>4. QED
    BY <2>1, <2>2, <2>3 DEF NoneTwice
<1>8. CASE OwnerReceives
  BY <1>8, ClaimsKept DEF OwnerReceives, writer
<1>9. CASE ByteArrives
  BY <1>9, ClaimsKept, Zenon DEF ByteArrives, writer, thread
<1>10. CASE WaitCommEvent
  BY <1>10, ClaimsKept DEF WaitCommEvent, writer
<1>11. CASE WriteCompletes \/ ReadBegin \/ ReceiveCount \/ ReceiveRead
  BY <1>11, ClaimsKept DEF WriteCompletes, ReadBegin, ReceiveCount, ReceiveRead, writer
<1>12. QED
  BY <1>1, <1>2, <1>3, <1>4, <1>5, <1>6, <1>7, <1>8, <1>9, <1>10, <1>11
     DEF Next, OwnerWrites, ThreadStep

\* Cells come from the block being handed over, whose number is the last one's.
LEMMA CellsStep ==
  ASSUME TypeOK, RequestSized, CellsAnnounced, Next
  PROVE  CellsAnnounced'
<1> USE TypeParts, LengthFacts
<1>1. CASE WriteBegin
  <2>1. PICK n \in 1..MaxSize : request' = Block(Len(requested) + 1, n)
    BY <1>1 DEF WriteBegin
  <2>2. request' \in Seq(0..MaxWrites) /\ Len(request') = n
    BY <1>1, <2>1, NextBlock DEF WriteBegin
  <2>3. Len(requested') = Len(requested) + 1
    BY <1>1, <2>2, AppendSeq DEF WriteBegin, BlocksTyped
  <2>4. \A i \in 1..Len(request') : request'[i] <= Len(requested')
    BY <2>1, <2>2, <2>3 DEF Block
  <2>5. \A i \in 1..MaxSize : m_szWriteBuffer'[i] <= Len(requested')
    BY <1>1, <2>3 DEF WriteBegin, Blank
  <2>6. UNCHANGED <<pc, sendLen>>
    BY <1>1 DEF WriteBegin, thread
  <2>7. QED
    BY <2>4, <2>5, <2>6 DEF CellsAnnounced
<1>2. CASE WriteCopy
  <2>1. /\ UNCHANGED <<requested, request, pc, sendLen>>
        /\ m_szWriteBuffer' = [i \in 1..MaxSize |->
                                 IF i <= Len(request) THEN request[i] ELSE m_szWriteBuffer[i]]
    BY <1>2, Zenon DEF WriteCopy, thread
  <2>2. \A i \in 1..MaxSize : i <= Len(request) => i \in 1..Len(request)
    BY DEF OwnerTyped
  <2>3. \A i \in 1..MaxSize : m_szWriteBuffer'[i] <= Len(requested)
    BY <2>1, <2>2 DEF CellsAnnounced
  <2>4. QED
    BY <2>1, <2>3 DEF CellsAnnounced
<1>3. CASE WriteSize \/ WriteSignal
  BY <1>3 DEF WriteSize, WriteSignal, thread, CellsAnnounced
<1>4. CASE OwnerReceives \/ ByteArrives \/ ThreadStep
  <2>1. UNCHANGED <<m_szWriteBuffer, request, requested>>
    BY <1>4, OthersStep DEF writer
  <2>2. pc' \in {"size", "enter", "write"} => sendLen' # 0
    <3>1. CASE WriteCharSize
      BY <3>1, SerialDataAssumption DEF WriteCharSize, OwnerTyped
    <3>2. CASE ByteArrives
      BY <3>2 DEF ByteArrives, thread, CellsAnnounced
    <3>3. CASE OwnerReceives \/ (ThreadStep /\ ~WriteCharSize)
      BY <3>3 DEF OwnerReceives, ThreadStep, WaitCommEvent, WriteCharReset, WriteCharPurge,
                  WriteFile, WriteCompletes, ReadBegin, ReceiveCount, ReceiveRead,
                  CellsAnnounced
    <3>4. QED
      BY <1>4, <3>1, <3>2, <3>3
  <2>3. QED
    BY <2>1, <2>2 DEF CellsAnnounced
<1>5. QED
  BY <1>1, <1>2, <1>3, <1>4 DEF Next, OwnerWrites

-----------------------------------------------------------------------------
(* A paced owner's blocks *)

\* WriteToPort begins while nothing is under way.
LEMMA BeginStep ==
  ASSUME TypeOK, paced, OneUnderway, WriteBegin
  PROVE  OneUnderway'
<1>1. /\ opc = "idle" /\ opc' = "copy" /\ wire = requested /\ ~m_hWriteEvent
      /\ pc \in {"loop", "wait"} /\ requested' = Append(requested, request')
      /\ UNCHANGED <<wire, pc>>
  BY DEF WriteBegin, MayWrite, thread
<1>2. ~m_hWriteEvent'
  BY Zenon DEF WriteBegin, MayWrite
<1>3. Len(request') \in 1..MaxSize
  <2>1. PICK n \in 1..MaxSize : request' = Block(Len(requested) + 1, n)
    BY DEF WriteBegin
  <2>2. QED
    BY <2>1, NextBlock, TypeParts DEF WriteBegin
<1>4. Underway'
  BY <1>1 DEF Underway
<1>5. requested' = Append(wire', request')
  BY <1>1, Zenon
<1>6. pc' \notin {"size", "enter", "write", "pending"}
  BY <1>1
<1>7. QED
  BY <1>1, <1>2, <1>3, <1>4, <1>5, <1>6 DEF OneUnderway

\* Its steps complete the buffer, then the size, before the event.
LEMMA WritesStep ==
  ASSUME TypeOK, RequestSized, OneUnderway, OwnerWrites
  PROVE  OneUnderway'
<1>1. /\ opc # "idle" /\ ~m_hWriteEvent /\ pc \notin {"size", "enter", "write", "pending"}
      /\ requested = Append(wire, request)
      /\ Len(request) \in 1..MaxSize
      /\ opc \notin {"copy", "size"} => m_nWriteSize = Len(request)
      /\ opc # "copy" => \A i \in 1..Len(request) : m_szWriteBuffer[i] = request[i]
  BY DEF OneUnderway, Underway, OwnerWrites, WriteCopy, WriteSize, WriteSignal
<1>2. UNCHANGED <<requested, wire, request, pc, sendLen>>
  BY Zenon DEF OwnerWrites, WriteCopy, WriteSize, WriteSignal, thread
<1>3. requested' = Append(wire', request') /\ Len(request') \in 1..MaxSize
  BY <1>1, <1>2, Zenon
<1>4. pc' \notin {"size", "enter", "write", "pending"}
  BY <1>1, <1>2
<1>5. CASE WriteCopy
  <2>1. opc' = "size" /\ UNCHANGED m_hWriteEvent
    BY <1>5, Zenon DEF WriteCopy
  <2>2. \A i \in 1..Len(request) : m_szWriteBuffer'[i] = request[i]
    BY <1>1, <1>5, SerialDataAssumption DEF WriteCopy
  <2>3. ~m_hWriteEvent' /\ Underway'
    BY <1>1, <2>1 DEF Underway
  <2>4. QED
    BY <1>2, <1>3, <1>4, <2>1, <2>2, <2>3 DEF OneUnderway
<1>6. CASE WriteSize
  <2>1. /\ opc = "size" /\ opc' = "signal" /\ m_nWriteSize' = Len(request)
        /\ UNCHANGED <<m_hWriteEvent, m_szWriteBuffer>>
    BY <1>6, Zenon DEF WriteSize
  <2>2. ~m_hWriteEvent' /\ Underway'
    BY <1>1, <2>1 DEF Underway
  <2>3. \A i \in 1..Len(request) : m_szWriteBuffer'[i] = request[i]
    BY <1>1, <2>1
  <2>4. QED
    BY <1>2, <1>3, <1>4, <2>1, <2>2, <2>3 DEF OneUnderway
<1>7. CASE WriteSignal
  <2>1. /\ opc = "signal" /\ opc' = "idle" /\ m_hWriteEvent'
        /\ UNCHANGED <<m_nWriteSize, m_szWriteBuffer>>
    BY <1>7, Zenon DEF WriteSignal
  <2>2. Underway'
    BY <2>1 DEF Underway
  <2>3. /\ \A i \in 1..Len(request) : m_szWriteBuffer'[i] = request[i]
        /\ m_nWriteSize' = Len(request)
    BY <1>1, <2>1
  <2>4. QED
    BY <1>2, <1>3, <1>4, <2>1, <2>2, <2>3 DEF OneUnderway
<1>8. QED
  BY <1>5, <1>6, <1>7 DEF OwnerWrites

\* Steps of the comm thread, the driver and the owner's message loop that have
\* nothing to do with blocks.
LEMMA UnderwayKept ==
  ASSUME OneUnderway, UNCHANGED <<writer, m_hWriteEvent, wire, sendLen>>,
         pc' = pc \/ {pc, pc'} \cap {"size", "enter", "write", "pending"} = {}
  PROVE  OneUnderway'
<1>1. UNCHANGED <<m_szWriteBuffer, m_nWriteSize, opc, request, requested, wire, sendLen>>
  BY DEF writer
<1>2. m_hWriteEvent' = m_hWriteEvent
  OBVIOUS
<1>3. \A x \in {"size", "enter", "write", "pending"} : pc' = x <=> pc = x
  OBVIOUS
<1>4. Underway' <=> Underway
  BY <1>1, <1>2, <1>3 DEF Underway
<1>5. QED
  BY <1>1, <1>2, <1>3, <1>4 DEF OneUnderway

\* WriteChar takes the size while the event is set, resets it and sends the cells.
LEMMA SendStep ==
  ASSUME TypeOK, OneUnderway,
         WriteCharSize \/ WriteCharReset \/ WriteCharPurge \/ WriteFile \/ WriteCompletes
  PROVE  OneUnderway'
<1>1. UNCHANGED <<m_szWriteBuffer, m_nWriteSize, opc, request, requested>>
  BY Zenon DEF WriteCharSize, WriteCharReset, WriteCharPurge, WriteFile, WriteCompletes,
               writer
<1>2. CASE WriteCharSize
  <2>1. /\ pc = "wait" /\ pc' = "size" /\ m_hWriteEvent /\ m_hWriteEvent'
        /\ sendLen' = m_nWriteSize /\ UNCHANGED wire
    BY <1>2, Zenon DEF WriteCharSize
  <2>2. Underway /\ Underway' /\ opc = "idle"
    BY <1>1, <2>1 DEF Underway, OneUnderway
  <2>3. requested' = Append(wire', request')
    BY <1>1, <2>1, <2>2, Zenon DEF OneUnderway
  <2>4. QED
    BY <1>1, <2>1, <2>2, <2>3 DEF OneUnderway
<1>3. CASE WriteCharReset
  <2>1. /\ pc = "size" /\ pc' = "enter" /\ ~m_hWriteEvent'
        /\ UNCHANGED <<wire, sendLen>>
    BY <1>3, Zenon DEF WriteCharReset
  <2>2. Underway /\ Underway' /\ opc = "idle"
    BY <1>1, <2>1 DEF Underway, OneUnderway
  <2>3. requested' = Append(wire', request')
    BY <1>1, <2>1, <2>2, Zenon DEF OneUnderway
  <2>4. QED
    BY <1>1, <2>1, <2>2, <2>3 DEF OneUnderway
<1>4. CASE WriteCharPurge
  <2>1. /\ pc = "enter" /\ pc' = "write" /\ m_hWriteEvent' = m_hWriteEvent
        /\ UNCHANGED <<wire, sendLen>>
    BY <1>4, Zenon DEF WriteCharPurge
  <2>2. Underway /\ Underway' /\ opc = "idle" /\ ~m_hWriteEvent /\ ~m_hWriteEvent'
    BY <1>1, <2>1 DEF Underway, OneUnderway
  <2>3. requested' = Append(wire', request')
    BY <1>1, <2>1, <2>2, Zenon DEF OneUnderway
  <2>4. QED
    BY <1>1, <2>1, <2>2, <2>3 DEF OneUnderway
<1>5. CASE WriteFile
  <2>1. /\ pc = "write" /\ pc' \in {"loop", "pending"} /\ m_hWriteEvent' = m_hWriteEvent
        /\ wire' = Append(wire, SubSeq(m_szWriteBuffer, 1, sendLen))
    BY <1>5 DEF WriteFile
  <2>2. /\ opc = "idle" /\ ~m_hWriteEvent /\ requested = Append(wire, request)
        /\ sendLen = Len(request)
        /\ \A i \in 1..Len(request) : m_szWriteBuffer[i] = request[i]
    BY <2>1 DEF Underway, OneUnderway
  <2>3. SubSeq(m_szWriteBuffer, 1, sendLen) = request
    <3>1. request \in Seq(0..MaxWrites)
      BY TypeParts DEF OwnerTyped
    <3>2. QED
      BY <2>2, <3>1, CellsSeq, SeqEqual, TypeParts
  <2>4. requested' = wire'
    BY <1>1, <2>1, <2>2, <2>3, Zenon
  <2>5. ~Underway' /\ opc' = "idle" /\ ~m_hWriteEvent'
    BY <1>1, <2>1, <2>2 DEF Underway
  <2>6. QED
    BY <2>1, <2>4, <2>5 DEF OneUnderway
<1>6. CASE WriteCompletes
  <2>1. /\ pc = "pending" /\ pc' = "loop" /\ m_hWriteEvent' = m_hWriteEvent
        /\ UNCHANGED <<wire, sendLen>>
    BY <1>6, Zenon DEF WriteCompletes
  <2>2. ~Underway /\ ~Underway' /\ opc = "idle" /\ ~m_hWriteEvent /\ ~m_hWriteEvent'
    BY <1>1, <2>1 DEF Underway, OneUnderway
  <2>3. requested' = wire'
    BY <1>1, <2>1, <2>2, Zenon DEF OneUnderway
  <2>4. QED
    BY <1>1, <2>1, <2>2, <2>3 DEF OneUnderway
<1>7. QED
  BY <1>2, <1>3, <1>4, <1>5, <1>6

\* Every step of a paced owner's port keeps one block under way at most.
LEMMA UnderwayStep ==
  ASSUME TypeOK, RequestSized, paced, OneUnderway, Next
  PROVE  OneUnderway'
<1>1. CASE WriteBegin
  BY <1>1, BeginStep
<1>2. CASE OwnerWrites
  BY <1>2, WritesStep
<1>3. CASE WriteCharSize \/ WriteCharReset \/ WriteCharPurge \/ WriteFile \/ WriteCompletes
  BY <1>3, SendStep
<1>4. CASE OwnerReceives
  BY <1>4, UnderwayKept DEF OwnerReceives
<1>5. CASE ByteArrives
  BY <1>5, UnderwayKept DEF ByteArrives, thread
<1>6. CASE WaitCommEvent
  BY <1>6, UnderwayKept DEF WaitCommEvent
<1>7. CASE ReadBegin
  BY <1>7, UnderwayKept DEF ReadBegin
<1>8. CASE ReceiveCount
  BY <1>8, UnderwayKept DEF ReceiveCount
<1>9. CASE ReceiveRead
  BY <1>9, UnderwayKept DEF ReceiveRead
<1>10. QED
  BY <1>1, <1>2, <1>3, <1>4, <1>5, <1>6, <1>7, <1>8, <1>9 DEF Next, ThreadStep

-----------------------------------------------------------------------------
(* The theorems *)

\* The inductive invariant holds at the start.
LEMMA InitIInv == ASSUME Init PROVE IInv
<1>1. TypeOK
  <2>1. OwnerTyped
    <3>1. 1 \in 1..MaxSize /\ 0 \in 0..MaxWrites
      BY SerialDataAssumption
    <3>2. m_szWriteBuffer \in [1..MaxSize -> 0..MaxWrites]
      BY <3>1 DEF Init, Blank
    <3>3. QED
      BY <3>1, <3>2 DEF Init, OwnerTyped
  <2>2. EventsTyped
    BY DEF Init, EventsTyped
  <2>3. ThreadTyped
    BY SerialDataAssumption DEF Init, ThreadTyped
  <2>4. BytesTyped
    BY SerialDataAssumption DEF Init, BytesTyped
  <2>5. BlocksTyped
    BY EmptySeq DEF Init, BlocksTyped
  <2>6. QED
    BY <2>1, <2>2, <2>3, <2>4, <2>5, TypeParts
<1>2. RequestSized
  BY DEF Init, RequestSized
<1>3. BytesInv
  <2>1. Range(<<>>) = {} /\ Rising(<<>>) /\ Before(<<>>, <<>>) /\ Len(<<>>) = 0
    BY EmptyFacts
  <2>2. ReadProgress
    BY <2>1 DEF Init, ReadProgress
  <2>3. BytesOrdered
    BY <2>1 DEF Init, BytesOrdered
  <2>4. NothingVanishes
    BY <2>1 DEF Init, NothingVanishes
  <2>5. QED
    BY <2>2, <2>3, <2>4 DEF BytesInv
<1>4. OneUnderway
  BY DEF Init, OneUnderway, Underway
<1>5. NoneTwice
  BY DEF Init, NoneTwice, Claims
<1>6. CellsAnnounced
  BY DEF Init, CellsAnnounced, Blank
<1>7. QED
  BY <1>1, <1>2, <1>3, <1>4, <1>5, <1>6 DEF IInv

\* Every step keeps the inductive invariant.
LEMMA IInvStep == ASSUME IInv, [Next]_vars PROVE IInv'
<1>1. CASE Next
  <2>1. TypeOK /\ RequestSized /\ BytesInv
    BY DEF IInv
  <2>2. OwnerTyped'
    BY <1>1, <2>1, OwnerStep, OthersStep, TypeParts DEF Next, OwnerTyped, writer
  <2>3. TypeOK'
    BY <1>1, <2>1, <2>2, EventsStep, ThreadTypeStep, BlocksStep, BytesStep, TypeParts
       DEF BytesInv, TypeOK, OwnerTyped, EventsTyped, ThreadTyped, BytesTyped, BlocksTyped
  <2>4. RequestSized' /\ BytesInv'
    BY <1>1, <2>1, SizedStep, BytesStep
  <2>5. UNCHANGED paced
    BY <1>1, OthersStep
       DEF Next, OwnerWrites, WriteBegin, WriteCopy, WriteSize, WriteSignal, writer
  <2>6. paced' => OneUnderway'
    BY <1>1, <2>1, <2>5, UnderwayStep DEF IInv
  <2>7. NoneTwice' /\ CellsAnnounced'
    BY <1>1, ClaimsStep, CellsStep DEF IInv
  <2>8. QED
    BY <2>3, <2>4, <2>6, <2>7 DEF IInv
<1>2. CASE UNCHANGED vars
  <2>1. UNCHANGED <<paced, m_szWriteBuffer, m_nWriteSize, opc, request, requested,
                    m_hWriteEvent, m_ovEvent, pc, sendLen, cbInQue, rxQueue, waitPending,
                    commEvent, arrived, rxBuff, wire, delivered, purged>>
    BY <1>2 DEF vars, writer, thread, driver
  <2>2. TypeOK'
    BY <2>1 DEF IInv, TypeOK
  <2>3. RequestSized' /\ BytesInv'
    BY <2>1 DEF IInv, RequestSized, BytesInv, ReadProgress, BytesOrdered, NothingVanishes,
                Rising, Before
  <2>4. paced' => OneUnderway'
    BY <2>1 DEF IInv, OneUnderway, Underway
  <2>5. NoneTwice'
    BY <2>1, ClaimsKept DEF IInv
  <2>6. CellsAnnounced'
    BY <2>1 DEF IInv, CellsAnnounced
  <2>7. QED
    BY <2>2, <2>3, <2>4, <2>5, <2>6 DEF IInv
<1>3. QED
  BY <1>1, <1>2

\* The invariant of the data path: bytes in order on their whole way and, with a
\* paced owner, at most one block under way.
THEOREM Invariance == Spec => []IInv
<1>1. Init => IInv
  BY InitIInv
<1>2. IInv /\ [Next]_vars => IInv'
  BY IInvStep
<1>3. QED
  BY <1>1, <1>2, PTL DEF Spec

\* Every variable keeps its type, for any number and size of blocks.
THEOREM TypeCorrect == Spec => []TypeOK
<1>1. IInv => TypeOK
  BY DEF IInv
<1>2. QED
  BY <1>1, Invariance, PTL

\* Received bytes reach the owner in order, at most once, or are lost to a purge.
THEOREM BytesConserved == Spec => []NothingVanishes
<1>1. IInv => NothingVanishes
  BY DEF IInv, BytesInv
<1>2. QED
  BY <1>1, Invariance, PTL

\* What has gone out is a prefix of what a paced owner handed over.
THEOREM WireCorrect == Spec => []WireFollowsRequests
<1>1. IInv => WireFollowsRequests
  <2> SUFFICES ASSUME IInv, paced PROVE IsPrefix(wire, requested)
    BY DEF WireFollowsRequests
  <2>1. /\ wire \in Seq(Seq(0..MaxWrites)) /\ OneUnderway
        /\ request \in Seq(0..MaxWrites)
    BY DEF IInv, TypeOK
  <2>2. requested = wire \/ requested = Append(wire, request)
    BY <2>1, Zenon DEF OneUnderway
  <2>3. IsPrefix(wire, wire) /\ IsPrefix(wire, Append(wire, request))
    BY <2>1, PrefixSelf, PrefixAppend
  <2>4. CASE requested = wire
    BY <2>3, <2>4, Zenon
  <2>5. CASE requested = Append(wire, request)
    BY <2>3, <2>5, Zenon
  <2>6. QED
    BY <2>2, <2>4, <2>5, Zenon
<1>2. QED
  BY <1>1, Invariance, PTL

-----------------------------------------------------------------------------
(* The abstract channel *)

\* Cutting a concatenation where it was joined gives its parts back.
LEMMA ConcatCut ==
  ASSUME NEW S, NEW s \in Seq(S), NEW t \in Seq(S)
  PROVE  /\ s \o t \in Seq(S) /\ Len(s \o t) = Len(s) + Len(t)
         /\ SubSeq(s \o t, 1, Len(s)) = s
         /\ SubSeq(s \o t, Len(s) + 1, Len(s \o t)) = t
<1>1. /\ s \o t \in Seq(S) /\ Len(s \o t) = Len(s) + Len(t)
      /\ Len(s) \in Nat /\ Len(t) \in Nat
  OBVIOUS
<1>2. \A i \in 1..Len(s) : (s \o t)[i] = s[i]
  BY <1>1, ConcatProperties
<1>3. \A i \in 1..Len(t) : (s \o t)[Len(s) + i] = t[i]
  BY <1>1, ConcatProperties
<1>4. Len(s) \in 0..Len(s \o t) /\ Len(s \o t) - Len(s) = Len(t)
  BY <1>1
<1> DEFINE a == SubSeq(s \o t, 1, Len(s))
           b == SubSeq(s \o t, Len(s) + 1, Len(s \o t))
<1>5. /\ a \in Seq(S) /\ b \in Seq(S) /\ Len(a) = Len(s) /\ Len(b) = Len(t)
      /\ \A i \in 1..Len(s) : a[i] = (s \o t)[i]
      /\ \A i \in 1..Len(t) : b[i] = (s \o t)[Len(s) + i]
  BY <1>1, <1>4, Cut
<1> HIDE DEF a, b
<1>6. a = s
  BY <1>2, <1>5, SeqEqual
<1>7. b = t
  BY <1>3, <1>5, SeqEqual
<1>8. QED
  BY <1>1, <1>6, <1>7 DEF a, b

\* An element behind the second of two sequences is behind both.
LEMMA ConcatAppend ==
  ASSUME NEW S, NEW s \in Seq(S), NEW t \in Seq(S), NEW e \in S
  PROVE  s \o Append(t, e) = Append(s \o t, e)
OBVIOUS

\* Nothing before or behind a sequence is the sequence.
LEMMA ConcatEmpty ==
  ASSUME NEW S, NEW s \in Seq(S)
  PROVE  <<>> \o s = s /\ s \o <<>> = s
OBVIOUS

\* What is on its way is a sequence of bytes.
LEMMA TransitFacts ==
  ASSUME IInv
  PROVE  /\ rxBuff \in Seq(1..MaxRx) /\ rxQueue \in Seq(1..MaxRx)
         /\ rxBuff \o rxQueue \in Seq(1..MaxRx)
         /\ pc # "send" => rxBuff = <<>>
BY TypeParts DEF IInv, BytesTyped, BytesInv, ReadProgress

\* A step that changes neither blocks nor bytes is a stutter of the channel.
LEMMA ChannelStutter ==
  ASSUME UNCHANGED <<paced, requested, wire, arrived, rxBuff, rxQueue, delivered, purged>>
  PROVE  UNCHANGED Channel!channel
BY Zenon DEF Channel!channel, Channel!out, Channel!in

\* Memory, size and event of WriteToPort, and the thread's own steps, are inside.
LEMMA InnerSteps ==
  ASSUME \/ OwnerWrites \/ WaitCommEvent \/ WriteCharSize \/ WriteCharReset
         \/ WriteCompletes \/ ReadBegin \/ ReceiveCount
  PROVE  UNCHANGED Channel!channel
<1>1. CASE OwnerWrites
  BY <1>1, ChannelStutter, Zenon DEF OwnerWrites, WriteCopy, WriteSize, WriteSignal, driver
<1>2. CASE WaitCommEvent
  BY <1>2, ChannelStutter, Zenon DEF WaitCommEvent, writer
<1>3. CASE WriteCharSize \/ WriteCharReset \/ WriteCompletes
  BY <1>3, ChannelStutter, Zenon
     DEF WriteCharSize, WriteCharReset, WriteCompletes, writer, driver
<1>4. CASE ReadBegin \/ ReceiveCount
  BY <1>4, ChannelStutter, Zenon DEF ReadBegin, ReceiveCount, writer, driver
<1>5. QED
  BY <1>1, <1>2, <1>3, <1>4

\* The call of WriteToPort hands a block over.
LEMMA BeginHandsOver ==
  ASSUME IInv, WriteBegin
  PROVE  Channel!HandOver
<1>1. PICK n \in 1..MaxSize : request' = Block(Len(requested) + 1, n)
  BY DEF WriteBegin
<1>2. requested' = Append(requested, request') /\ (paced => wire = requested)
  BY DEF WriteBegin, MayWrite
<1>3. requested' = Append(requested, [i \in 1..n |-> Len(requested) + 1])
  BY <1>1, <1>2 DEF Block
<1>4. UNCHANGED <<paced, wire, arrived, rxBuff, rxQueue, delivered, purged>>
  BY Zenon DEF WriteBegin, driver
<1>5. UNCHANGED <<paced, wire, Channel!in>>
  BY <1>4, Zenon DEF Channel!in
<1>6. QED
  BY <1>1, <1>2, <1>3, <1>5, Zenon DEF Channel!HandOver

\* WriteFile sends a block: the very one of a paced owner, announced cells otherwise.
LEMMA WriteFileSends ==
  ASSUME IInv, WriteFile
  PROVE  Channel!Send
<1> DEFINE block == SubSeq(m_szWriteBuffer, 1, sendLen)
<1>1. /\ pc = "write" /\ wire' = Append(wire, block)
      /\ UNCHANGED <<paced, requested, arrived, rxBuff, rxQueue, delivered, purged>>
  BY Zenon DEF WriteFile, writer, driver
<1>2. UNCHANGED <<paced, requested, Channel!in>>
  BY <1>1, Zenon DEF Channel!in
<1>3. OwnerTyped /\ ThreadTyped /\ BlocksTyped
  BY TypeParts DEF IInv
<1>4. Len(wire) < Len(requested)
  <2>1. Claims >= 1 /\ Claims \in Nat
    BY <1>1 DEF Claims
  <2>2. QED
    BY <1>3, <2>1, LengthFacts DEF IInv, NoneTwice
<1>5. /\ block \in Seq(0..MaxWrites) /\ Len(block) = sendLen
      /\ \A i \in 1..sendLen : block[i] = m_szWriteBuffer[i]
  BY <1>3, CellsSeq
<1> HIDE DEF block
<1>6. CASE paced
  <2>1. OneUnderway /\ Underway
    BY <1>1, <1>6 DEF IInv, Underway
  <2>2. /\ requested = Append(wire, request) /\ opc = "idle" /\ sendLen = Len(request)
        /\ \A i \in 1..Len(request) : m_szWriteBuffer[i] = request[i]
    BY <1>1, <2>1 DEF OneUnderway
  <2>3. request \in Seq(0..MaxWrites) /\ wire \in Seq(Seq(0..MaxWrites))
    BY <1>3 DEF OwnerTyped, BlocksTyped
  <2>4. block = request
    BY <1>5, <2>2, <2>3, SeqEqual
  <2>5. requested[Len(wire) + 1] = request
    BY <2>2, <2>3, AppendSeq
  <2>6. wire' = Append(wire, requested[Len(wire) + 1])
    BY <1>1, <2>4, <2>5, Zenon
  <2>7. QED
    BY <1>2, <1>4, <1>6, <2>6, Zenon DEF Channel!Send
<1>7. CASE ~paced
  <2>1. sendLen \in 1..MaxSize
    BY <1>1, <1>3, SerialDataAssumption DEF IInv, CellsAnnounced, ThreadTyped
  <2>2. \A i \in 1..sendLen : i \in 1..MaxSize
    BY <2>1, SerialDataAssumption
  <2>3. \A i \in 1..sendLen : block[i] \in 0..Len(requested)
    BY <1>3, <1>5, <2>2, LengthFacts, SerialDataAssumption
       DEF IInv, CellsAnnounced, OwnerTyped
  <2>4. block \in [1..sendLen -> 0..Len(requested)]
    BY <1>5, <2>3
  <2>5. block \in Channel!Cells
    BY <2>1, <2>4 DEF Channel!Cells
  <2>6. QED
    BY <1>1, <1>2, <1>4, <1>7, <2>5, Zenon DEF Channel!Send
<1>8. QED
  BY <1>6, <1>7, Zenon

\* A byte that arrives is behind all others on their way.
LEMMA ByteIsArrival ==
  ASSUME IInv, ByteArrives
  PROVE  Channel!Arrive
<1>1. /\ arrived' = arrived + 1 /\ rxQueue' = Append(rxQueue, arrived')
      /\ UNCHANGED <<paced, requested, wire, rxBuff, delivered, purged>>
  BY Zenon DEF ByteArrives, writer
<1>2. arrived' \in 1..MaxRx
  BY <1>1, TypeParts, SerialDataAssumption DEF ByteArrives, IInv, BytesTyped
<1>3. rxBuff' \o rxQueue' = Append(rxBuff \o rxQueue, arrived')
  BY <1>1, <1>2, TransitFacts, ConcatAppend
<1>4. UNCHANGED <<paced, Channel!out, delivered, purged>>
  BY <1>1, Zenon DEF Channel!out
<1>5. QED
  BY <1>1, <1>3, <1>4, Zenon DEF Channel!Arrive

\* The handler of WM_COMM_RXSTR gets the foremost bytes.
LEMMA OwnerIsGiven ==
  ASSUME IInv, OwnerReceives
  PROVE  Channel!Deliver \/ UNCHANGED Channel!channel
<1>1. /\ delivered' = delivered \o rxBuff /\ rxBuff' = <<>>
      /\ UNCHANGED <<paced, requested, wire, arrived, rxQueue, purged>>
  BY Zenon DEF OwnerReceives, writer, driver
<1>2. delivered \in Seq(1..MaxRx)
  BY TypeParts DEF IInv, BytesTyped
<1>3. CASE rxBuff = <<>>
  <2>1. delivered' = delivered
    BY <1>1, <1>2, <1>3, ConcatEmpty
  <2>2. QED
    BY <1>1, <1>3, <2>1, ChannelStutter, Zenon
<1>4. CASE rxBuff # <<>>
  <2>1. Len(rxBuff) \in 1..Len(rxBuff \o rxQueue)
    BY <1>4, TransitFacts, EmptySeq
  <2>2. /\ SubSeq(rxBuff \o rxQueue, 1, Len(rxBuff)) = rxBuff
        /\ SubSeq(rxBuff \o rxQueue, Len(rxBuff) + 1, Len(rxBuff \o rxQueue)) = rxQueue
    BY TransitFacts, ConcatCut
  <2>3. rxBuff' \o rxQueue' = rxQueue
    BY <1>1, TransitFacts, ConcatEmpty
  <2>4. UNCHANGED <<paced, Channel!out, arrived, purged>>
    BY <1>1, Zenon DEF Channel!out
  <2>5. QED
    BY <1>1, <2>1, <2>2, <2>3, <2>4, Zenon DEF Channel!Deliver
<1>5. QED
  BY <1>3, <1>4

\* The purge of a write drops what the driver holds: nothing else is on its way then.
LEMMA PurgeDrops ==
  ASSUME IInv, WriteCharPurge
  PROVE  Channel!Drop
<1>1. /\ pc = "enter" /\ purged' = purged \cup Range(rxQueue) /\ rxQueue' = <<>>
      /\ UNCHANGED <<paced, requested, wire, arrived, rxBuff, delivered>>
  BY Zenon DEF WriteCharPurge, writer
<1>2. rxBuff = <<>> /\ rxBuff \o rxQueue = rxQueue
  BY <1>1, TransitFacts, ConcatEmpty
<1>3. rxBuff' \o rxQueue' = <<>>
  BY <1>1, <1>2
<1>4. purged' = purged \cup Channel!Range(rxBuff \o rxQueue)
  BY <1>1, <1>2 DEF Range, Channel!Range
<1>5. Len(wire) < Len(requested)
  <2>1. Claims >= 1 /\ Claims \in Nat
    BY <1>1 DEF Claims
  <2>2. QED
    BY <2>1, LengthFacts, TypeParts DEF IInv, NoneTwice
<1>6. UNCHANGED <<paced, Channel!out, arrived, delivered>>
  BY <1>1, Zenon DEF Channel!out
<1>7. QED
  BY <1>3, <1>4, <1>5, <1>6, Zenon DEF Channel!Drop

\* ReadFile moves bytes from the driver to the message: they stay on their way.
LEMMA ReadIsInner ==
  ASSUME IInv, ReceiveRead
  PROVE  UNCHANGED Channel!channel
<1>1. /\ rxBuff' = SubSeq(rxQueue, 1, cbInQue) /\ pc = "readFile"
      /\ rxQueue' = SubSeq(rxQueue, cbInQue + 1, Len(rxQueue))
      /\ UNCHANGED <<paced, requested, wire, arrived, delivered, purged>>
  BY Zenon DEF ReceiveRead, writer
<1>2. cbInQue \in 0..Len(rxQueue)
  BY <1>1, TypeParts, TransitFacts, SerialDataAssumption
     DEF IInv, BytesInv, ReadProgress, ThreadTyped
<1>3. rxBuff' \o rxQueue' = rxQueue
  BY <1>1, <1>2, TransitFacts, CutConcat
<1>4. rxBuff \o rxQueue = rxQueue
  BY <1>1, TransitFacts, ConcatEmpty
<1>5. rxBuff' \o rxQueue' = rxBuff \o rxQueue
  BY <1>3, <1>4, Zenon
<1>6. QED
  BY <1>1, <1>5, Zenon DEF Channel!channel, Channel!out, Channel!in

\* Every step of the port is a step of the channel or leaves it alone.
LEMMA ChannelStep ==
  ASSUME IInv, [Next]_vars
  PROVE  [Channel!Next]_(Channel!channel)
<1>1. CASE WriteBegin
  BY <1>1, BeginHandsOver DEF Channel!Next
<1>2. CASE WriteFile
  BY <1>2, WriteFileSends DEF Channel!Next
<1>3. CASE ByteArrives
  BY <1>3, ByteIsArrival DEF Channel!Next
<1>4. CASE OwnerReceives
  BY <1>4, OwnerIsGiven DEF Channel!Next
<1>5. CASE WriteCharPurge
  BY <1>5, PurgeDrops DEF Channel!Next
<1>6. CASE ReceiveRead
  BY <1>6, ReadIsInner
<1>7. CASE OwnerWrites \/ WaitCommEvent \/ WriteCharSize \/ WriteCharReset
             \/ WriteCompletes \/ ReadBegin \/ ReceiveCount
  BY <1>7, InnerSteps
<1>8. CASE UNCHANGED vars
  BY <1>8, ChannelStutter, Zenon DEF vars, writer, driver
<1>9. QED
  BY <1>1, <1>2, <1>3, <1>4, <1>5, <1>6, <1>7, <1>8 DEF Next, ThreadStep

\* The port's data path implements the abstract channel, for any number and size of
\* blocks and any number of bytes: no block is sent twice, none of a paced owner is
\* torn, and bytes are dropped only while a block is on its way out.
THEOREM Refinement == Spec => ImplementsChannel
<1>1. Init => Channel!Init
  <2> SUFFICES ASSUME Init PROVE Channel!Init
    OBVIOUS
  <2>1. /\ paced \in BOOLEAN /\ requested = <<>> /\ wire = <<>> /\ arrived = 0
        /\ rxBuff = <<>> /\ rxQueue = <<>> /\ delivered = <<>> /\ purged = {}
    BY Zenon DEF Init
  <2>2. rxBuff \o rxQueue = <<>>
    BY <2>1
  <2>3. QED
    BY <2>1, <2>2, Zenon DEF Channel!Init
<1>2. IInv /\ [Next]_vars => [Channel!Next]_(Channel!channel)
  BY ChannelStep
<1>3. QED
  BY <1>1, <1>2, Invariance, PTL DEF Spec, ImplementsChannel, Channel!Spec


-----------------------------------------------------------------------------
(* The promise of the channel, from its own steps.                         *)

Transit == rxBuff \o rxQueue
Way     == delivered \o Transit

ChannelTyped ==
  /\ requested \in Seq(Seq(Nat)) /\ wire \in Seq(Seq(Nat))
  /\ Transit \in Seq(Int) /\ delivered \in Seq(Int)
  /\ arrived \in Nat

OutKept ==
  /\ Len(wire) <= Len(requested)
  /\ paced => /\ Len(requested) <= Len(wire) + 1
              /\ \A k \in 1..Len(wire) : wire[k] = requested[k]

InKept ==
  /\ Rising(Way)
  /\ 1..arrived = Range(Way) \cup purged
  /\ Range(Way) \cap purged = {}

\* OrderKept in its two directions.
LEMMA OrderParts == Channel!OrderKept <=> OutKept /\ InKept
<1>1. Channel!Range(delivered \o (rxBuff \o rxQueue)) = Range(Way)
  BY DEF Channel!Range, Range, Way, Transit
<1>2. (delivered \o (rxBuff \o rxQueue)) = Way
  BY DEF Way, Transit
<1>3. Rising(Way) <=> \A i, j \in 1..Len(Way) : i < j => Way[i] < Way[j]
  BY DEF Rising
<1>4. QED
  BY <1>1, <1>2, <1>3, Zenon DEF Channel!OrderKept, OutKept, InKept

\* Handing a block over and sending one keep the direction out.
LEMMA OutSteps ==
  ASSUME ChannelTyped, OutKept, Channel!HandOver \/ Channel!Send
  PROVE  requested' \in Seq(Seq(Nat)) /\ wire' \in Seq(Seq(Nat)) /\ OutKept'
<1>0. /\ requested \in Seq(Seq(Nat)) /\ wire \in Seq(Seq(Nat))
      /\ Len(requested) \in Nat /\ Len(wire) \in Nat
  BY DEF ChannelTyped
<1>1. CASE Channel!HandOver
  <2>1. PICK n \in 1..MaxSize :
          requested' = Append(requested, [i \in 1..n |-> Len(requested) + 1])
    BY <1>1 DEF Channel!HandOver
  <2>2. [i \in 1..n |-> Len(requested) + 1] \in Seq(Nat)
    BY <1>0
  <2>3. /\ requested' \in Seq(Seq(Nat)) /\ Len(requested') = Len(requested) + 1
        /\ \A i \in 1..Len(requested) : requested'[i] = requested[i]
    BY <1>0, <2>1, <2>2, AppendSeq
  <2>4. wire' = wire /\ paced' = paced /\ (paced => wire = requested)
    BY <1>1, Zenon DEF Channel!HandOver
  <2>5. Len(wire') <= Len(requested')
    BY <1>0, <2>3, <2>4 DEF OutKept
  <2>6. ASSUME paced PROVE wire = requested
    BY <2>4, <2>6, Zenon
  <2>7. ASSUME wire = requested
        PROVE  /\ Len(requested') <= Len(wire') + 1
               /\ \A k \in 1..Len(wire') : wire'[k] = requested'[k]
    BY <1>0, <2>3, <2>4, <2>7
  <2>8. QED
    BY <1>0, <2>3, <2>4, <2>5, <2>6, <2>7, Zenon DEF OutKept
<1>2. CASE Channel!Send
  <2>1. requested' = requested /\ paced' = paced /\ Len(wire) < Len(requested)
    BY <1>2, Zenon DEF Channel!Send
  <2>2. \E block \in Seq(Nat) :
          wire' = Append(wire, block) /\ (paced => block = requested[Len(wire) + 1])
    <3>1. CASE paced
      <4>1. requested[Len(wire) + 1] \in Seq(Nat)
        BY <1>0, <2>1
      <4>2. wire' = Append(wire, requested[Len(wire) + 1])
        BY <1>2, <3>1, Zenon DEF Channel!Send
      <4>3. QED
        BY <4>1, <4>2
    <3>2. CASE ~paced
      <4>1. PICK block \in Channel!Cells : wire' = Append(wire, block)
        BY <1>2, <3>2, Zenon DEF Channel!Send
      <4>2. PICK n \in 1..MaxSize : block \in [1..n -> 0..Len(requested)]
        BY <4>1 DEF Channel!Cells
      <4>3. block \in Seq(Nat)
        BY <1>0, <4>2
      <4>4. QED
        BY <3>2, <4>1, <4>3
    <3>3. QED
      BY <3>1, <3>2
  <2>3. PICK block \in Seq(Nat) :
          wire' = Append(wire, block) /\ (paced => block = requested[Len(wire) + 1])
    BY <2>2
  <2>4. /\ wire' \in Seq(Seq(Nat)) /\ Len(wire') = Len(wire) + 1
        /\ \A i \in 1..Len(wire) : wire'[i] = wire[i]
        /\ wire'[Len(wire) + 1] = block
    BY <1>0, <2>3, AppendSeq
  <2>5. Len(wire') <= Len(requested')
    BY <1>0, <2>1, <2>4
  <2>6. ASSUME Len(requested) <= Len(wire) + 1,
               \A k \in 1..Len(wire) : wire[k] = requested[k],
               block = requested[Len(wire) + 1]
        PROVE  /\ Len(requested') <= Len(wire') + 1
               /\ \A k \in 1..Len(wire') : wire'[k] = requested'[k]
    <3>1. \A k \in 1..Len(wire') : k \in 1..Len(wire) \/ k = Len(wire) + 1
      BY <1>0, <2>4
    <3>2. Len(requested') <= Len(wire') + 1
      BY <1>0, <2>1, <2>4, <2>6
    <3>3. ASSUME NEW k \in 1..Len(wire) PROVE wire'[k] = requested'[k]
      BY <2>1, <2>4, <2>6
    <3>4. wire'[Len(wire) + 1] = requested'[Len(wire) + 1]
      BY <2>1, <2>4, <2>6
    <3>5. QED
      BY <3>1, <3>2, <3>3, <3>4
  <2>7. QED
    BY <1>0, <2>1, <2>3, <2>4, <2>5, <2>6, Zenon DEF OutKept
<1>3. QED
  BY <1>1, <1>2

\* An arrival goes to the end of the way, a delivery moves the boundary in it.
LEMMA InSteps ==
  ASSUME ChannelTyped, InKept, Channel!Arrive \/ Channel!Deliver
  PROVE  Transit' \in Seq(Int) /\ delivered' \in Seq(Int) /\ arrived' \in Nat /\ InKept'
<1>0. /\ Transit \in Seq(Int) /\ delivered \in Seq(Int) /\ arrived \in Nat
      /\ Way \in Seq(Int)
  BY DEF ChannelTyped, Way
<1>1. CASE Channel!Arrive
  <2>1. /\ arrived' = arrived + 1 /\ Transit' = Append(Transit, arrived')
        /\ delivered' = delivered /\ purged' = purged
    BY <1>1, Zenon DEF Channel!Arrive, Transit
  <2>2. /\ arrived' \in Nat /\ arrived' \in Int /\ arrived' \notin 1..arrived
        /\ 1..arrived' = 1..arrived \cup {arrived'}
        /\ \A x \in 1..arrived : x < arrived'
    BY <1>0, <2>1
  <2>3. Transit' \in Seq(Int)
    BY <1>0, <2>1, <2>2, AppendSeq
  <2>4. Way' = Append(Way, arrived')
    BY <1>0, <2>1, <2>2, ConcatAppend DEF Way
  <2>5. Rising(Way')
    BY <1>0, <2>2, <2>4, RisingAppend DEF InKept
  <2>6. Range(Way') = Range(Way) \cup {arrived'}
    BY <1>0, <2>2, <2>4, RangeAppend
  <2>7. QED
    BY <1>0, <2>1, <2>2, <2>3, <2>5, <2>6 DEF InKept
<1>2. CASE Channel!Deliver
  <2>1. arrived' = arrived /\ purged' = purged
    BY <1>2, Zenon DEF Channel!Deliver
  <2>2. PICK n \in 1..Len(Transit) :
          /\ delivered' = delivered \o SubSeq(Transit, 1, n)
          /\ Transit' = SubSeq(Transit, n + 1, Len(Transit))
    BY <1>2, Zenon DEF Channel!Deliver, Transit
  <2> DEFINE a == SubSeq(Transit, 1, n)
             b == SubSeq(Transit, n + 1, Len(Transit))
  <2>3. n \in 0..Len(Transit)
    BY <1>0
  <2>4. a \in Seq(Int) /\ b \in Seq(Int) /\ a \o b = Transit
    BY <1>0, <2>3, Cut, CutConcat
  <2> HIDE DEF a, b
  <2>5. delivered' = delivered \o a /\ Transit' = b
    BY <2>2 DEF a, b
  <2>6. Transit' \in Seq(Int) /\ delivered' \in Seq(Int)
    BY <1>0, <2>4, <2>5
  <2>7. (delivered \o a) \o b = delivered \o (a \o b)
    <3>1. delivered \in Seq(Int) /\ a \in Seq(Int) /\ b \in Seq(Int)
      BY <1>0, <2>4
    <3>2. QED
      BY <3>1, ConcatAssociative, SMTT(20)
  <2>8. Way' = Way
    BY <2>4, <2>5, <2>7 DEF Way
  <2>9. QED
    BY <1>0, <2>1, <2>6, <2>8 DEF InKept
<1>3. QED
  BY <1>1, <1>2

\* What is dropped was behind everything delivered.
LEMMA DropKeeps ==
  ASSUME ChannelTyped, InKept, Channel!Drop
  PROVE  Transit' \in Seq(Int) /\ InKept'
<1>0. Transit \in Seq(Int) /\ delivered \in Seq(Int) /\ Len(delivered) \in Nat
  BY DEF ChannelTyped
<1>1. /\ purged' = purged \cup Range(Transit) /\ Transit' = <<>>
      /\ delivered' = delivered /\ arrived' = arrived
  BY Zenon DEF Channel!Drop, Channel!Range, Range, Transit
<1>2. /\ Way \in Seq(Int) /\ Len(delivered) \in 0..Len(Way)
      /\ SubSeq(Way, 1, Len(delivered)) = delivered
      /\ SubSeq(Way, Len(delivered) + 1, Len(Way)) = Transit
  <2>1. /\ Way \in Seq(Int) /\ Len(Way) = Len(delivered) + Len(Transit)
        /\ SubSeq(Way, 1, Len(delivered)) = delivered
        /\ SubSeq(Way, Len(delivered) + 1, Len(Way)) = Transit
    BY <1>0, ConcatCut DEF Way
  <2>2. QED
    BY <1>0, <2>1
<1>3. Rising(delivered) /\ Before(delivered, Transit)
  BY <1>2, RisingCut DEF InKept
<1>4. Range(Way) = Range(delivered) \cup Range(Transit)
  BY <1>0, RangeConcat DEF Way
<1>5. Range(delivered) \cap Range(Transit) = {}
  <2>1. Range(delivered) \subseteq Int
    BY <1>0, RangeSeq
  <2>2. QED
    BY <1>3, <2>1 DEF Before
<1>6. Way' = delivered
  BY <1>0, <1>1, ConcatEmpty DEF Way
<1>7. Transit' \in Seq(Int)
  BY <1>1
<1>8. QED
  BY <1>1, <1>3, <1>4, <1>5, <1>6, <1>7 DEF InKept

\* Every step of the channel keeps the order.
LEMMA OrderStep ==
  ASSUME ChannelTyped, OutKept, InKept, [Channel!Next]_(Channel!channel)
  PROVE  ChannelTyped' /\ OutKept' /\ InKept'
<1>0. OutKept /\ InKept
  OBVIOUS
<1>1. ASSUME UNCHANGED <<paced, requested, wire>>,
             Transit' \in Seq(Int), delivered' \in Seq(Int), arrived' \in Nat, InKept'
      PROVE  ChannelTyped' /\ OutKept' /\ InKept'
  BY <1>0, <1>1 DEF ChannelTyped, OutKept
<1>2. ASSUME arrived' = arrived, Transit' = Transit, delivered' = delivered,
             purged' = purged,
             requested' \in Seq(Seq(Nat)), wire' \in Seq(Seq(Nat)), OutKept'
      PROVE  ChannelTyped' /\ OutKept' /\ InKept'
  BY <1>0, <1>2 DEF ChannelTyped, InKept, Way
<1>3. CASE Channel!HandOver \/ Channel!Send
  <2>1. /\ arrived' = arrived /\ Transit' = Transit /\ delivered' = delivered
        /\ purged' = purged
    BY <1>3, Zenon DEF Channel!HandOver, Channel!Send, Channel!in, Transit
  <2>2. QED
    BY <1>0, <1>2, <1>3, <2>1, OutSteps
<1>4. CASE Channel!Arrive \/ Channel!Deliver
  <2>1. UNCHANGED <<paced, requested, wire>>
    BY <1>4, Zenon DEF Channel!Arrive, Channel!Deliver, Channel!out
  <2>2. QED
    BY <1>0, <1>1, <1>4, <2>1, InSteps
<1>5. CASE Channel!Drop
  <2>1. UNCHANGED <<paced, requested, wire, arrived, delivered>>
    BY <1>5, Zenon DEF Channel!Drop, Channel!out
  <2>2. delivered' \in Seq(Int) /\ arrived' \in Nat
    BY <2>1 DEF ChannelTyped
  <2>3. QED
    BY <1>0, <1>1, <1>5, <2>1, <2>2, DropKeeps
<1>6. CASE UNCHANGED Channel!channel
  <2>1. UNCHANGED <<paced, requested, wire, arrived, delivered, purged, Transit>>
    BY <1>6, Zenon DEF Channel!channel, Channel!out, Channel!in, Transit
  <2>2. QED
    BY <1>0, <2>1 DEF ChannelTyped, OutKept, InKept, Way
<1>7. QED
  BY <1>3, <1>4, <1>5, <1>6, Zenon DEF Channel!Next

\* The abstract channel keeps its promise: a paced owner's blocks in their order and
\* none but the last one missing, every byte in the order of its arrival or dropped.
THEOREM ChannelKeepsOrder == Channel!Spec => []Channel!OrderKept
<1>1. Channel!Init => ChannelTyped /\ OutKept /\ InKept
  <2> SUFFICES ASSUME Channel!Init PROVE ChannelTyped /\ OutKept /\ InKept
    OBVIOUS
  <2>1. /\ requested = <<>> /\ wire = <<>> /\ arrived = 0 /\ Transit = <<>>
        /\ delivered = <<>> /\ purged = {}
    BY Zenon DEF Channel!Init, Transit
  <2>2. ChannelTyped
    BY <2>1 DEF ChannelTyped
  <2>3. OutKept
    BY <2>1 DEF OutKept
  <2>4. InKept
    <3>1. Way = <<>>
      BY <2>1 DEF Way
    <3>2. Rising(Way) /\ Range(Way) = {} /\ 1..arrived = {}
      BY <2>1, <3>1 DEF Rising, Range
    <3>3. QED
      BY <2>1, <3>2 DEF InKept
  <2>5. QED
    BY <2>2, <2>3, <2>4
<1>2. /\ ChannelTyped /\ OutKept /\ InKept
      /\ [Channel!Next]_(Channel!channel)
      => ChannelTyped' /\ OutKept' /\ InKept'
  BY OrderStep
<1>3. OutKept /\ InKept => Channel!OrderKept
  BY OrderParts
<1>4. QED
  BY <1>1, <1>2, <1>3, PTL DEF Channel!Spec

=============================================================================
