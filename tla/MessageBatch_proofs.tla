------------------------- MODULE MessageBatch_proofs -------------------------
(***************************************************************************)
(* Proofs about MessageBatch: for any sizes of messages, heads, buffers    *)
(* and rounds the script dispatches every message once and in order, as    *)
(* long as no batch reaches the bit that announces a new buffer (FlagFits).*)
(*                                                                         *)
(* The id of an ordinary message is its number.  The invariant says where  *)
(* the numbers are: delivered (or lost), in the buffer, in the inbox, one  *)
(* range after the other; and that the script sees the buffer that it is   *)
(* called for.                                                             *)
(***************************************************************************)
EXTENDS MessageBatch, SequenceTheorems, FiniteSetTheorems, WellFoundedInduction, TLAPS

Packet == [kind : Kind, id : Nat, sz : Size]

\* What a message adds to the numbers.
Weight(m) == IF m.kind = "ordinary" THEN 1 ELSE 0

\* The number of the last message that left the inbox.
Handed == lost + Len(delivered) + Len(Batch)

Rounds ==
  /\ remainder_message <= Len(inbox)
  /\ ~inRound => remainder_message = 0

\* An unannounced buffer has its flag; the flag goes with the batch.  Without
\* a callback the script has looked at no buffer yet.
Flags ==
  /\ ~cb => view = "none"
  /\ view = "old" => bs_flag = 1
  /\ bs_offset = 0 => bs_flag = 0
  /\ bs_offset <= FlushSize

\* The batch holds the numbers after those delivered, each head within it.
Filled ==
  \A k \in 1 .. Len(Batch) :
    /\ Batch[k].id = lost + Len(delivered) + k
    /\ Batch[k].at + HeadSize <= bs_offset

\* The inbox holds the numbers after those of the batch.
Queued ==
  /\ inbox = << >> => sent = Handed
  /\ inbox # << >> => inbox[1].id = Handed + Weight(inbox[1]) /\ inbox[Len(inbox)].id = sent
  /\ \A k \in 1 .. Len(inbox) - 1 : inbox[k + 1].id = inbox[k].id + Weight(inbox[k + 1])

\* Nothing is lost once something was delivered.
InOrder ==
  /\ DeliveredInOrder
  /\ ~cb => delivered = << >>

\* Where a batch may stay behind (HeldBehindAsync).
Held == remainder_message = 0 /\ bs_offset > 0 => last = "async"

BInv == TypeOK /\ Rounds /\ Flags /\ Filled /\ Queued /\ InOrder /\ Held

-----------------------------------------------------------------------------
(***************************************************************************)
(* The number of bytes, and the loop of dispatch_message.                  *)
(***************************************************************************)

\* A number of bytes below the bit survives the call, and so does the flag.
LEMMA WordFacts ==
  ASSUME NEW bytes \in Nat, bytes < NewBit, NEW flag \in {0, 1}
  PROVE  /\ CallWord(bytes, flag) % NewBit = bytes
         /\ CallWord(bytes, flag) \div NewBit = flag
  <1>1. NewBit \in Nat /\ NewBit > 0
    BY SizeAssumption
  <1>2. bytes \div NewBit = 0 /\ bytes % NewBit = bytes
    BY <1>1
  <1>3. (bytes + NewBit) \div NewBit = 1 /\ (bytes + NewBit) % NewBit = bytes
    BY <1>1
  <1> QED
    BY <1>2, <1>3 DEF CallWord

\* When every head is within the bytes, the loop dispatches every message.
LEMMA DispatchesAll ==
  ASSUME NEW mem \in Seq(Entry), NEW bytes \in Nat,
         \A k \in 1 .. Len(mem) : mem[k].at + HeadSize <= bytes
  PROVE  Dispatched(mem, bytes) = Len(mem)
  <1> DEFINE P(n) == /\ \A k \in 1 .. n : mem[k].at + HeadSize <= bytes
                     /\ n < Len(mem) => mem[n + 1].at + HeadSize > bytes
  <1>1. Len(mem) \in 0 .. Len(mem) /\ P(Len(mem))
    BY LenProperties
  <1>2. ASSUME NEW n \in 0 .. Len(mem), P(n)
        PROVE  n = Len(mem)
    <2>1. SUFFICES ASSUME n < Len(mem)
                   PROVE  FALSE
      BY LenProperties
    <2>2. n + 1 \in 1 .. Len(mem)
      BY <2>1, LenProperties
    <2>3. mem[n + 1] \in Entry
      BY <2>2, ElementOfSeq
    <2>4. mem[n + 1].at \in Nat
      BY <2>3 DEF Entry
    <2> QED
      BY <1>2, <2>1, <2>2, <2>4, SizeAssumption
  <1>3. Dispatched(mem, bytes) = CHOOSE n \in 0 .. Len(mem) : P(n)
    BY DEF Dispatched
  <1> HIDE DEF P
  <1> QED
    BY <1>1, <1>2, <1>3

-----------------------------------------------------------------------------
(***************************************************************************)
(* One message on its way through dispatch_impl.                           *)
(***************************************************************************)

\* The constants are numbers.
LEMMA ConstantFacts ==
  /\ HeadSize \in Nat /\ HeadSize > 0 /\ FlushSize \in Nat
  /\ \A m \in Packet : m.sz \in Nat /\ m.id \in Nat
  <1>1. HeadSize \in Nat /\ HeadSize > 0 /\ FlushSize \in Nat
    BY SizeAssumption
  <1>2. \A m \in Packet : m.sz \in Nat /\ m.id \in Nat
    BY SizeAssumption DEF Packet
  <1> QED
    BY <1>1, <1>2

\* So are the lengths.
LEMMA LengthFacts ==
  ASSUME BInv
  PROVE  /\ Batch \in Seq(Entry) /\ Len(Batch) \in Nat
         /\ Len(delivered) \in Nat
         /\ Len(inbox) \in Nat
         /\ Handed \in Nat
  <1>1. Batch \in Seq(Entry) /\ delivered \in Seq(Nat) /\ lost \in Nat
    <2>1. content \in Seq(Entry) /\ << >> \in Seq(Entry)
      BY DEF BInv, TypeOK
    <2> QED
      BY <2>1 DEF BInv, TypeOK, Batch
  <1>2. Len(Batch) \in Nat /\ Len(delivered) \in Nat
    BY <1>1, LenProperties
  <1>3. Len(inbox) \in Nat
    BY LenProperties DEF BInv, TypeOK
  <1> QED
    BY <1>1, <1>2, <1>3 DEF Handed

\* The batch with m behind it holds the next number, and ends within its bytes.
LEMMA CopyFacts ==
  ASSUME BInv, NEW m \in Packet, m.kind = "ordinary", m.id = Handed + 1, Copy(m),
         NEW end \in Nat, end = bs_offset + HeadSize + m.sz
  PROVE  /\ content' \in Seq(Entry)
         /\ Len(content') = Len(Batch) + 1
         /\ \A k \in 1 .. Len(content') :
              /\ content'[k].id = lost + Len(delivered) + k
              /\ content'[k].at + HeadSize <= end
         /\ cap' \in Nat
         /\ old' \in Seq(Entry)
         /\ end > 0
  <1>1. /\ Batch \in Seq(Entry) /\ bs_offset \in Nat /\ lost \in Nat /\ Len(delivered) \in Nat
        /\ Handed \in Nat /\ Len(Batch) \in Nat /\ content \in Seq(Entry) /\ old \in Seq(Entry) /\ cap \in Nat
    BY LengthFacts DEF BInv, TypeOK
  <1>2. m.sz \in Nat /\ m.id \in Nat /\ HeadSize \in Nat /\ HeadSize > 0
    BY ConstantFacts
  <1>3. PICK e \in Entry : e = [id |-> m.id, at |-> bs_offset]
    BY <1>1, <1>2 DEF Entry
  <1>4. /\ content' = Append(Batch, e)
        /\ cap' = IF Fits(end) THEN cap ELSE end * 2
        /\ old' \in {old, content}
    BY <1>3 DEF Copy
  <1>5. /\ content' \in Seq(Entry)
        /\ Len(content') = Len(Batch) + 1
        /\ \A k \in 1 .. Len(Batch) : content'[k] = Batch[k]
        /\ content'[Len(Batch) + 1] = e
    BY <1>1, <1>4, AppendProperties
  <1>6. cap' \in Nat
    <2>1. end * 2 \in Nat
      OBVIOUS
    <2> QED
      BY <1>1, <1>4, <2>1
  <1>7. ASSUME NEW k \in 1 .. Len(content')
        PROVE  content'[k].id = lost + Len(delivered) + k /\ content'[k].at + HeadSize <= end
    <2>1. Len(Batch) \in Nat
      BY <1>1, LenProperties
    <2>2. CASE k \in 1 .. Len(Batch)
      <3>1. Batch[k].id = lost + Len(delivered) + k /\ Batch[k].at + HeadSize <= bs_offset
        BY <2>2 DEF BInv, Filled
      <3>2. Batch[k] \in Entry
        BY <1>1, <2>2, ElementOfSeq
      <3>3. Batch[k].at \in Nat
        BY <3>2 DEF Entry
      <3>4. content'[k] = Batch[k]
        BY <1>5, <2>2
      <3>5. \A a \in Nat : a + HeadSize <= bs_offset => a + HeadSize <= end
        <4>1. bs_offset \in Nat /\ HeadSize \in Nat /\ bs_offset <= end
          BY <1>1, <1>2
        <4> QED
          BY <4>1
      <3>6. Batch[k].at + HeadSize <= end
        BY <3>1, <3>3, <3>5
      <3> QED
        BY <3>1, <3>4, <3>6
    <2>3. CASE k = Len(Batch) + 1
      <3>1. content'[k] = e /\ e.id = m.id /\ e.at = bs_offset
        BY <1>3, <1>5, <2>3
      <3>2. m.id = lost + Len(delivered) + Len(Batch) + 1
        BY DEF Handed
      <3>3. m.id = lost + Len(delivered) + k
        BY <1>1, <2>3, <3>2
      <3>4. bs_offset + HeadSize <= end
        BY <1>1, <1>2
      <3> QED
        BY <3>1, <3>3, <3>4
    <2> QED
      BY <1>5, <2>1, <2>2, <2>3
  <1> QED
    BY <1>1, <1>2, <1>4, <1>5, <1>6, <1>7

\* Holding m back: it joins the batch.
LEMMA HoldStep ==
  ASSUME BInv, NEW m \in Packet, m.kind = "ordinary", m.id = Handed + 1, Copy(m),
         NEW remainder \in Nat, Hold(m, remainder), UNCHANGED cb
  PROVE  /\ remainder # 0
         /\ content' \in Seq(Entry) /\ cap' \in Nat /\ old' \in Seq(Entry)
         /\ bs_offset' \in Nat /\ bs_flag' \in {0, 1} /\ view' \in {"none", "current", "old"}
         /\ delivered' \in Seq(Nat) /\ lost' \in Nat
         /\ Flags' /\ Filled' /\ InOrder' /\ Handed' = m.id
  <1>1. /\ bs_offset \in Nat /\ lost \in Nat /\ delivered \in Seq(Nat) /\ FlushSize \in Nat
        /\ bs_flag \in {0, 1} /\ view \in {"none", "current", "old"}
    BY SizeAssumption DEF BInv, TypeOK
  <1>2. m.sz \in Nat /\ HeadSize \in Nat /\ m.id \in Nat /\ Handed \in Nat
    BY ConstantFacts, LengthFacts
  <1>3. PICK end \in Nat : end = bs_offset + HeadSize + m.sz
    BY <1>1, <1>2
  <1>4. /\ remainder # 0 /\ end <= FlushSize
        /\ bs_offset' = end
        /\ bs_flag' = IF Fits(end) THEN bs_flag ELSE 1
        /\ view' = IF ~Fits(end) /\ view = "current" THEN "old" ELSE view
        /\ UNCHANGED <<delivered, lost>>
    BY <1>3 DEF Hold, FlagAfter, ViewAfter
  <1>5. /\ content' \in Seq(Entry) /\ cap' \in Nat /\ old' \in Seq(Entry)
        /\ Len(content') = Len(Batch) + 1
        /\ \A k \in 1 .. Len(content') :
             /\ content'[k].id = lost + Len(delivered) + k
             /\ content'[k].at + HeadSize <= end
        /\ end > 0
    BY <1>3, CopyFacts
  <1>6. Batch' = content'
    BY <1>4, <1>5 DEF Batch
  <1>7. Flags'
    BY <1>1, <1>4, <1>5 DEF BInv, Flags
  <1>8. Filled'
    BY <1>4, <1>5, <1>6 DEF Filled
  <1>9. InOrder'
    BY <1>4 DEF BInv, InOrder, DeliveredInOrder
  <1>10. Handed' = m.id
    <2>1. Len(Batch) \in Nat /\ Len(delivered) \in Nat
      BY LengthFacts
    <2>2. m.id = lost + Len(delivered) + Len(Batch) + 1
      BY DEF Handed
    <2>3. Handed' = lost + Len(delivered) + Len(content')
      BY <1>4, <1>6 DEF Handed
    <2>4. Len(content') = Len(Batch) + 1
      BY <1>5
    <2> QED
      BY <1>1, <2>1, <2>2, <2>3, <2>4
  <1> QED
    BY <1>1, <1>4, <1>5, <1>7, <1>8, <1>9, <1>10

\* The script dispatches the batch it is called for, whatever it looked at.
LEMMA CallScriptFacts ==
  ASSUME NEW bytes \in Nat, bytes < NewBit, NEW flag \in {0, 1},
         NEW viewed \in {"none", "current", "old"}, viewed = "old" => flag = 1,
         content' \in Seq(Entry),
         \A k \in 1 .. Len(content') : content'[k].at + HeadSize <= bytes,
         CallScript(CallWord(bytes, flag), viewed)
  PROVE  /\ view' = "current"
         /\ delivered' = delivered \o [k \in 1 .. Len(content') |-> content'[k].id]
         /\ lost' = lost
  <1>1. /\ CallWord(bytes, flag) % NewBit = bytes
        /\ CallWord(bytes, flag) \div NewBit = flag
    BY WordFacts
  <1>2. PICK mem \in Seq(Entry) : mem = content'
    OBVIOUS
  <1>3. Dispatched(mem, bytes) = Len(mem)
    BY <1>2, DispatchesAll
  <1>4. viewed = "none" \/ flag # 0 \/ viewed = "current"
    OBVIOUS
  <1> QED
    BY <1>1, <1>2, <1>3, <1>4 DEF CallScript

\* Handing m over: it and the batch are dispatched, or lost.
LEMMA FlushStep ==
  ASSUME FlagFits, BInv, NEW m \in Packet, m.kind = "ordinary", m.id = Handed + 1, Copy(m),
         NEW remainder \in Nat, Flush(m, remainder), UNCHANGED cb
  PROVE  /\ content' \in Seq(Entry) /\ cap' \in Nat /\ old' \in Seq(Entry)
         /\ bs_offset' = 0 /\ bs_flag' \in {0, 1} /\ view' \in {"none", "current", "old"}
         /\ delivered' \in Seq(Nat) /\ lost' \in Nat
         /\ Flags' /\ Filled' /\ InOrder' /\ Handed' = m.id
         /\ \/ cb /\ lost' = lost
            \/ ~cb /\ UNCHANGED delivered /\ lost <= lost'
  <1>1. /\ bs_offset \in Nat /\ lost \in Nat /\ delivered \in Seq(Nat) /\ FlushSize \in Nat
        /\ bs_flag \in {0, 1} /\ view \in {"none", "current", "old"} /\ cb \in BOOLEAN
        /\ Handed \in Nat /\ Len(Batch) \in Nat /\ Len(delivered) \in Nat
    BY LengthFacts, ConstantFacts DEF BInv, TypeOK
  <1>2. m.sz \in Nat /\ HeadSize \in Nat /\ m.id \in Nat
    BY ConstantFacts
  <1>3. PICK end \in Nat : end = bs_offset + HeadSize + m.sz
    BY <1>1, <1>2
  <1>4. PICK flag \in {0, 1} : flag = FlagAfter(m)
    BY <1>1 DEF FlagAfter
  <1>5. PICK viewed \in {"none", "current", "old"} : viewed = ViewAfter(m)
    BY <1>1 DEF ViewAfter
  <1>6. viewed = "old" => flag = 1
    BY <1>4, <1>5 DEF ViewAfter, FlagAfter, BInv, Flags
  <1>7. end < NewBit
    <2>1. NewBit \in Nat /\ m.sz \in Size
      BY SizeAssumption DEF Packet
    <2>2. FlushSize + HeadSize + m.sz < NewBit
      BY <2>1 DEF FlagFits
    <2>3. bs_offset <= FlushSize
      BY DEF BInv, Flags
    <2> QED
      BY <1>1, <1>2, <1>3, <2>1, <2>2, <2>3
  <1>8. /\ content' \in Seq(Entry) /\ cap' \in Nat /\ old' \in Seq(Entry)
        /\ Len(content') = Len(Batch) + 1
        /\ \A k \in 1 .. Len(content') :
             /\ content'[k].id = lost + Len(delivered) + k
             /\ content'[k].at + HeadSize <= end
    BY <1>3, CopyFacts
  <1>9. bs_offset' = 0 /\ bs_flag' = 0 /\ Batch' = << >> /\ Len(Batch') = 0
    BY EmptySeq DEF Flush, Batch
  <1>10. CASE cb /\ CallScript(CallWord(end, flag), viewed)
    <2> DEFINE ids == [k \in 1 .. Len(content') |-> content'[k].id]
    <2>1. view' = "current" /\ delivered' = delivered \o ids /\ lost' = lost
      BY <1>6, <1>7, <1>8, <1>10, CallScriptFacts
    <2>2. ids \in Seq(Nat) /\ Len(ids) = Len(Batch) + 1
          /\ \A k \in 1 .. Len(ids) : ids[k] = lost + Len(delivered) + k
      <3>1. Len(content') \in Nat
        BY <1>1, <1>8
      <3>2. \A k \in 1 .. Len(content') : content'[k].id \in Nat
        BY <1>1, <1>8
      <3>3. ids \in Seq(Nat) /\ Len(ids) = Len(content')
        BY <3>1, <3>2, IsASeq
      <3> QED
        BY <1>8, <3>3
    <2> HIDE DEF ids
    <2>3. /\ delivered' \in Seq(Nat)
          /\ Len(delivered') = Len(delivered) + Len(ids)
          /\ \A k \in 1 .. Len(delivered') :
               delivered'[k] = IF k <= Len(delivered) THEN delivered[k] ELSE ids[k - Len(delivered)]
      <3>1. PICK d \in Seq(Nat) : d = delivered
        BY <1>1
      <3>2. PICK e \in Seq(Nat) : e = ids
        BY <2>2
      <3>3. /\ d \o e \in Seq(Nat)
            /\ Len(d \o e) = Len(d) + Len(e)
            /\ \A k \in 1 .. Len(d) + Len(e) :
                 (d \o e)[k] = IF k <= Len(d) THEN d[k] ELSE e[k - Len(d)]
        BY ConcatProperties
      <3> QED
        BY <2>1, <3>1, <3>2, <3>3
    <2>4. InOrder'
      <3>1. ASSUME NEW k \in 1 .. Len(delivered')
            PROVE  delivered'[k] = lost' + k
        <4>1. CASE k <= Len(delivered)
          BY <1>1, <2>1, <2>3, <4>1 DEF BInv, InOrder, DeliveredInOrder
        <4>2. CASE k > Len(delivered)
          <5>1. k - Len(delivered) \in 1 .. Len(ids)
            BY <1>1, <2>2, <2>3, <4>2
          <5>2. ids[k - Len(delivered)] = lost + Len(delivered) + (k - Len(delivered))
            BY <2>2, <5>1
          <5> QED
            BY <1>1, <2>1, <2>3, <4>2, <5>2
        <4> QED
          BY <1>1, <2>3, <4>1, <4>2
      <3> QED
        BY <1>10, <3>1 DEF InOrder, DeliveredInOrder
    <2>5. Flags' /\ Filled'
      BY <1>1, <1>9, <1>10, <2>1 DEF Flags, Filled
    <2>6. Handed' = m.id
      BY <1>1, <1>2, <1>9, <2>1, <2>2, <2>3 DEF Handed
    <2> QED
      BY <1>1, <1>8, <1>9, <1>10, <2>1, <2>3, <2>4, <2>5, <2>6
  <1>11. CASE ~cb /\ lost' = lost + Len(content') /\ view' = viewed /\ UNCHANGED delivered
    <2>1. delivered = << >> /\ Len(delivered) = 0
      BY <1>11, EmptySeq DEF BInv, InOrder
    <2>2. lost' \in Nat /\ lost <= lost'
      BY <1>1, <1>8, <1>11
    <2>3. InOrder'
      BY <1>11, <2>1 DEF InOrder, DeliveredInOrder
    <2>4. Handed' = m.id
      BY <1>1, <1>2, <1>8, <1>9, <1>11, <2>1 DEF Handed
    <2>5. Flags' /\ Filled'
      <3>1. viewed = "none"
        BY <1>5, <1>11 DEF ViewAfter, BInv, Flags
      <3> QED
        BY <1>1, <1>9, <1>11, <3>1 DEF Flags, Filled
    <2> QED
      BY <1>1, <1>8, <1>9, <1>11, <2>2, <2>3, <2>4, <2>5
  <1> QED
    BY <1>3, <1>4, <1>5, <1>10, <1>11 DEF Flush

\* A message of the inbox goes through dispatch_impl.
LEMMA DispatchStep ==
  ASSUME FlagFits, BInv, inbox # << >>, NEW remainder \in Nat,
         DispatchImpl(Head(inbox), remainder), inbox' = Tail(inbox), UNCHANGED sent,
         inRound' \in BOOLEAN, remainder_message' \in Nat
  PROVE  /\ TypeOK' /\ Flags' /\ Filled' /\ InOrder' /\ Queued'
         /\ remainder = 0 /\ bs_offset' > 0 => last' = "async"
  <1>1. inbox \in Seq(Packet) /\ Len(inbox) \in Nat /\ Len(inbox) > 0
    BY EmptySeq DEF BInv, TypeOK, Packet
  <1>2. PICK m \in Packet : m = Head(inbox) /\ m = inbox[1]
    BY <1>1, HeadTailProperties
  <1>3. /\ inbox' \in Seq(Packet) /\ Len(inbox') = Len(inbox) - 1
        /\ \A k \in 1 .. Len(inbox') : inbox'[k] = inbox[k + 1]
    BY <1>1, HeadTailProperties
  <1>4. m.id = Handed + Weight(m)
    BY <1>2 DEF BInv, Queued
  <1>5. /\ content' \in Seq(Entry) /\ cap' \in Nat /\ old' \in Seq(Entry)
        /\ bs_offset' \in Nat /\ bs_flag' \in {0, 1} /\ view' \in {"none", "current", "old"}
        /\ delivered' \in Seq(Nat) /\ lost' \in Nat /\ cb' \in BOOLEAN /\ last' \in Kind
        /\ Flags' /\ Filled' /\ InOrder' /\ Handed' = m.id
        /\ remainder = 0 /\ bs_offset' > 0 => last' = "async"
    <2>1. CASE m.kind = "async"
      <3>1. UNCHANGED <<bufferVars, scriptVars>> /\ cb' \in {cb, TRUE} /\ last' = "async"
        BY <1>2, <2>1 DEF DispatchImpl
      <3>2. Handed \in Nat /\ m.id = Handed + 0
        BY <1>4, <2>1, LengthFacts DEF Weight
      <3>3. Batch' = Batch /\ Handed' = Handed
        BY <3>1 DEF Batch, Handed, bufferVars, scriptVars
      <3>4. Flags'
        BY <3>1 DEF BInv, TypeOK, Flags, bufferVars, scriptVars
      <3>5. Filled'
        BY <3>1, <3>3 DEF BInv, Filled, bufferVars, scriptVars
      <3>6. InOrder'
        BY <3>1 DEF BInv, TypeOK, InOrder, DeliveredInOrder, bufferVars, scriptVars
      <3>7. Handed' = m.id
        BY <3>2, <3>3
      <3>8. /\ content' \in Seq(Entry) /\ cap' \in Nat /\ old' \in Seq(Entry)
            /\ bs_offset' \in Nat /\ bs_flag' \in {0, 1} /\ view' \in {"none", "current", "old"}
            /\ delivered' \in Seq(Nat) /\ lost' \in Nat /\ cb' \in BOOLEAN /\ last' \in Kind
        BY <3>1 DEF BInv, TypeOK, Kind, bufferVars, scriptVars
      <3> QED
        BY <3>1, <3>4, <3>5, <3>6, <3>7, <3>8
    <2>2. CASE m.kind = "ordinary"
      <3>1. /\ Copy(m) /\ (Hold(m, remainder) \/ Flush(m, remainder))
            /\ UNCHANGED cb /\ last' = "ordinary"
        BY <1>2, <2>2 DEF DispatchImpl
      <3>2. m.id = Handed + 1
        BY <1>4, <2>2 DEF Weight
      <3>3. CASE Hold(m, remainder)
        BY <2>2, <3>1, <3>2, <3>3, HoldStep DEF BInv, TypeOK, Kind
      <3>4. CASE Flush(m, remainder)
        BY <2>2, <3>1, <3>2, <3>4, FlushStep DEF BInv, TypeOK, Kind
      <3> QED
        BY <3>1, <3>3, <3>4
    <2> QED
      BY <2>1, <2>2 DEF Packet, Kind
  <1>6. TypeOK'
    <2>1. sent' \in Nat
      BY DEF BInv, TypeOK
    <2> QED
      BY <1>3, <1>5, <2>1 DEF TypeOK, Packet
  <1>7. Queued'
    <2>1. \A k \in 1 .. Len(inbox') - 1 : inbox'[k + 1].id = inbox'[k].id + Weight(inbox'[k + 1])
      <3> SUFFICES ASSUME NEW k \in 1 .. Len(inbox') - 1
                   PROVE  inbox'[k + 1].id = inbox'[k].id + Weight(inbox'[k + 1])
        OBVIOUS
      <3>1. inbox'[k] = inbox[k + 1] /\ inbox'[k + 1] = inbox[k + 1 + 1]
        BY <1>1, <1>3
      <3>2. k + 1 \in 1 .. Len(inbox) - 1
        BY <1>1, <1>3
      <3>3. inbox[k + 1 + 1].id = inbox[k + 1].id + Weight(inbox[k + 1 + 1])
        BY <3>2 DEF BInv, Queued
      <3> QED
        BY <3>1, <3>3
    <2>2. CASE inbox' = << >>
      <3>0. Len(inbox') = 0
        <4>1. Len(<< >>) = 0
          BY EmptySeq
        <4> QED
          BY <2>2, <4>1
      <3>1. Len(inbox) = 1
        BY <1>1, <1>3, <3>0
      <3>2. sent = m.id
        BY <1>2, <3>1 DEF BInv, Queued
      <3> QED
        BY <1>5, <2>1, <2>2, <3>2 DEF Queued
    <2>3. CASE inbox' # << >>
      <3>1. Len(inbox) > 1
        BY <1>1, <1>3, <2>3, EmptySeq
      <3>2. inbox'[1] = inbox[2] /\ inbox'[Len(inbox')] = inbox[Len(inbox)]
        BY <1>1, <1>3, <3>1
      <3>3. inbox[2].id = m.id + Weight(inbox[2])
        BY <1>1, <1>2, <3>1 DEF BInv, Queued
      <3>4. inbox[Len(inbox)].id = sent
        BY DEF BInv, Queued
      <3> QED
        BY <1>5, <2>1, <2>3, <3>2, <3>3, <3>4 DEF Queued, Weight
    <2> QED
      BY <2>2, <2>3
  <1> QED
    BY <1>5, <1>6, <1>7

-----------------------------------------------------------------------------
(***************************************************************************)
(* The actions.                                                            *)
(***************************************************************************)

\* A message arrives with the next number.
LEMMA SendStep ==
  ASSUME BInv, NEW kind \in Kind, NEW sz \in Size, Send(kind, sz)
  PROVE  BInv'
  <1>1. inbox \in Seq(Packet) /\ Len(inbox) \in Nat /\ sent \in Nat /\ Handed \in Nat
    BY LengthFacts DEF BInv, TypeOK, Packet
  <1>2. /\ sent' = sent + IF kind = "ordinary" THEN 1 ELSE 0
        /\ inbox' = Append(inbox, [kind |-> kind, id |-> sent', sz |-> sz])
        /\ UNCHANGED <<hostVars, bufferVars, scriptVars, cb, last>>
    BY DEF Send
  <1>3. sent' \in Nat
    BY <1>1, <1>2
  <1>4. PICK m \in Packet : m = [kind |-> kind, id |-> sent', sz |-> sz]
    BY <1>3 DEF Packet
  <1>5. sent' = sent + Weight(m) /\ m.id = sent' /\ Weight(m) \in Nat
    BY <1>2, <1>4 DEF Weight
  <1>6. /\ inbox' \in Seq(Packet) /\ inbox' # << >> /\ Len(inbox') = Len(inbox) + 1
        /\ \A k \in 1 .. Len(inbox) : inbox'[k] = inbox[k]
        /\ inbox'[Len(inbox) + 1] = m
    BY <1>1, <1>2, <1>4, AppendProperties
  <1>7. Handed' = Handed
    BY <1>2 DEF Handed, Batch, bufferVars, scriptVars
  <1>8. Queued'
    <2>1. \A k \in 1 .. Len(inbox') - 1 : inbox'[k + 1].id = inbox'[k].id + Weight(inbox'[k + 1])
      <3> SUFFICES ASSUME NEW k \in 1 .. Len(inbox') - 1
                   PROVE  inbox'[k + 1].id = inbox'[k].id + Weight(inbox'[k + 1])
        OBVIOUS
      <3>1. CASE k = Len(inbox)
        <4>1. inbox'[k] = inbox[k] /\ inbox'[k + 1] = m /\ inbox # << >>
          BY <1>1, <1>6, <3>1
        <4>2. inbox[k].id = sent
          BY <3>1, <4>1 DEF BInv, Queued
        <4> QED
          BY <1>5, <4>1, <4>2
      <3>2. CASE k # Len(inbox)
        <4>1. k \in 1 .. Len(inbox) - 1
          BY <1>1, <1>6, <3>2
        <4>2. inbox'[k] = inbox[k] /\ inbox'[k + 1] = inbox[k + 1]
          BY <1>1, <1>6, <4>1
        <4> QED
          BY <4>1, <4>2 DEF BInv, Queued
      <3> QED
        BY <3>1, <3>2
    <2>2. inbox'[1].id = Handed + Weight(inbox'[1])
      <3>1. CASE inbox = << >>
        <4>1. Len(inbox) = 0 /\ sent = Handed
          BY <3>1 DEF BInv, Queued
        <4> QED
          BY <1>5, <1>6, <4>1
      <3>2. CASE inbox # << >>
        <4>1. Len(inbox) > 0
          BY <1>1, <3>2, EmptySeq
        <4>2. inbox'[1] = inbox[1]
          BY <1>1, <1>6, <4>1
        <4> QED
          BY <3>2, <4>2 DEF BInv, Queued
      <3> QED
        BY <3>1, <3>2
    <2>3. inbox'[Len(inbox')].id = sent'
      BY <1>5, <1>6
    <2> QED
      BY <1>6, <1>7, <2>1, <2>2, <2>3 DEF Queued, Weight
  <1>9. TypeOK'
    BY <1>2, <1>3, <1>6 DEF BInv, TypeOK, Packet, hostVars, bufferVars, scriptVars
  <1>10. Rounds'
    <2>1. remainder_message \in Nat
      BY DEF BInv, TypeOK
    <2> QED
      BY <1>1, <1>2, <1>6, <2>1 DEF BInv, Rounds, hostVars
  <1>11. Flags' /\ Filled' /\ InOrder' /\ Held'
    BY <1>2 DEF BInv, Flags, Filled, Batch, InOrder, DeliveredInOrder, Held,
                hostVars, bufferVars, scriptVars
  <1> QED
    BY <1>8, <1>9, <1>10, <1>11 DEF BInv

\* The rounds begin and end.
LEMMA RoundStep ==
  ASSUME BInv, RoundBegin \/ RoundEnd
  PROVE  BInv'
  <1>1. UNCHANGED <<inbox, sent, bufferVars, scriptVars, cb, last>>
    BY DEF RoundBegin, RoundEnd
  <1>2. TypeOK' /\ Rounds' /\ Held'
    <2>1. CASE RoundBegin
      BY <1>1, <2>1 DEF RoundBegin, BInv, TypeOK, Rounds, Held, bufferVars, scriptVars
    <2>2. CASE RoundEnd
      BY <1>1, <2>2 DEF RoundEnd, BInv, TypeOK, Rounds, Held, bufferVars, scriptVars
    <2> QED
      BY <2>1, <2>2
  <1>3. Flags' /\ Filled' /\ InOrder'
    BY <1>1 DEF BInv, Flags, Filled, Batch, InOrder, DeliveredInOrder, bufferVars, scriptVars
  <1>4. Queued'
    BY <1>1 DEF BInv, Queued, Handed, Batch, Weight, bufferVars, scriptVars
  <1> QED
    BY <1>2, <1>3, <1>4 DEF BInv

\* A message is dispatched, in a round ...
LEMMA RoundDispatchStep ==
  ASSUME FlagFits, BInv, RoundDispatch
  PROVE  BInv'
  <1>1. /\ inRound /\ remainder_message \in Nat /\ remainder_message > 0
        /\ Len(inbox) \in Nat /\ remainder_message <= Len(inbox)
        /\ UNCHANGED <<sent, inRound>>
    BY LengthFacts DEF RoundDispatch, BInv, TypeOK, Rounds
  <1>2. PICK remainder \in Nat : remainder = remainder_message - 1
    BY <1>1
  <1>3. /\ remainder_message' = remainder
        /\ DispatchImpl(Head(inbox), remainder)
        /\ inbox' = Tail(inbox)
    BY <1>2 DEF RoundDispatch
  <1>4. inbox # << >>
    BY <1>1
  <1>5. inRound' \in BOOLEAN
    BY <1>1 DEF BInv, TypeOK
  <1>6. /\ TypeOK' /\ Flags' /\ Filled' /\ InOrder' /\ Queued'
        /\ remainder = 0 /\ bs_offset' > 0 => last' = "async"
    BY <1>1, <1>3, <1>4, <1>5, DispatchStep
  <1>7. Held'
    BY <1>3, <1>6 DEF Held
  <1>8. Rounds'
    <2>1. Len(inbox') = Len(inbox) - 1
      BY <1>3, <1>4, HeadTailProperties DEF BInv, TypeOK
    <2> QED
      BY <1>1, <1>2, <1>3, <2>1 DEF Rounds
  <1> QED
    BY <1>6, <1>7, <1>8 DEF BInv

\* ... or outside of rounds.
LEMMA SingleDispatchStep ==
  ASSUME FlagFits, BInv, SingleDispatch
  PROVE  BInv'
  <1>1. /\ ~inRound /\ remainder_message = 0 /\ inbox # << >>
        /\ DispatchImpl(Head(inbox), 0)
        /\ inbox' = Tail(inbox)
        /\ UNCHANGED <<sent, inRound, remainder_message>>
    BY DEF SingleDispatch, BInv, Rounds, hostVars
  <1>2. inRound' \in BOOLEAN /\ remainder_message' \in Nat
    BY <1>1 DEF BInv, TypeOK
  <1>3. /\ TypeOK' /\ Flags' /\ Filled' /\ InOrder' /\ Queued'
        /\ bs_offset' > 0 => last' = "async"
    BY <1>1, <1>2, DispatchStep
  <1>4. Held'
    BY <1>3 DEF Held
  <1>5. Rounds'
    <2>1. Len(inbox') \in Nat
      BY <1>3, LenProperties DEF TypeOK
    <2> QED
      BY <1>1, <2>1 DEF Rounds
  <1> QED
    BY <1>3, <1>4, <1>5 DEF BInv

-----------------------------------------------------------------------------
(***************************************************************************)
(* Theorems.                                                               *)
(***************************************************************************)

\* The invariant holds at first ...
LEMMA InitBInv == Init => BInv
  <1> SUFFICES ASSUME Init
               PROVE  BInv
    OBVIOUS
  <1>1. TypeOK
    <2>1. \A S : << >> \in Seq(S)
      BY EmptySeq
    <2> QED
      BY <2>1 DEF Init, TypeOK, Kind
  <1>2. Rounds /\ Flags /\ InOrder /\ Held
    BY SizeAssumption DEF Init, Rounds, Flags, InOrder, DeliveredInOrder, Held
  <1>3. Filled /\ Queued
    BY DEF Init, Filled, Queued, Handed, Batch
  <1> QED
    BY <1>1, <1>2, <1>3 DEF BInv

\* ... and every step preserves it.
LEMMA NextBInv ==
  ASSUME FlagFits
  PROVE  BInv /\ [Next]_vars => BInv'
  <1> SUFFICES ASSUME BInv, [Next]_vars
               PROVE  BInv'
    OBVIOUS
  <1>1. CASE UNCHANGED vars
    <2> USE <1>1 DEF vars, hostVars, bufferVars, scriptVars
    <2>1. TypeOK' /\ Rounds' /\ Flags' /\ Held'
      BY DEF BInv, TypeOK, Rounds, Flags, Held
    <2>2. Filled' /\ InOrder' /\ Queued'
      BY DEF BInv, Filled, Batch, InOrder, DeliveredInOrder, Queued, Handed, Weight
    <2> QED
      BY <2>1, <2>2 DEF BInv
  <1>2. ASSUME NEW kind \in Kind, NEW sz \in Size, Send(kind, sz)
        PROVE  BInv'
    BY <1>2, SendStep
  <1>3. CASE Host
    BY <1>3, RoundStep, RoundDispatchStep, SingleDispatchStep DEF Host
  <1> QED
    BY <1>1, <1>2, <1>3 DEF Next

\* The inductive invariant: the numbers of the messages run through the
\* script, the buffer and the inbox without a gap, and the script sees the
\* buffer that it is called for.
THEOREM BatchInvariant ==
  ASSUME FlagFits
  PROVE  Spec => []BInv
  BY InitBInv, NextBInv, PTL DEF Spec

\* The variables of the host, of the buffer and of the script keep their types.
THEOREM BatchTypeCorrect ==
  ASSUME FlagFits
  PROVE  Spec => []TypeOK
  <1>1. BInv => TypeOK
    BY DEF BInv
  <1> QED
    BY <1>1, BatchInvariant, PTL

\* dispatch, get_shared_bs and dispatch_message deliver every message once
\* and in order, for any sizes of messages and rounds.
THEOREM DeliveryCorrect ==
  ASSUME FlagFits
  PROVE  Spec => []DeliveredInOrder
  <1>1. BInv => DeliveredInOrder
    BY DEF BInv, InOrder
  <1> QED
    BY <1>1, BatchInvariant, PTL

\* A replaced buffer stays flagged (bs_flag) until the script is told.
THEOREM StaleViewCorrect ==
  ASSUME FlagFits
  PROVE  Spec => []StaleViewFlagged
  <1>1. BInv => StaleViewFlagged
    BY DEF BInv, Flags, StaleViewFlagged
  <1> QED
    BY <1>1, BatchInvariant, PTL

\* Outside of a round the buffer holds messages back only behind a message
\* of type PTYPE_DENO_ASYNC.
THEOREM HoldingCorrect ==
  ASSUME FlagFits
  PROVE  Spec => []HeldBehindAsync
  <1>1. BInv => HeldBehindAsync
    BY DEF BInv, Held, Rounds, HeldBehindAsync
  <1> QED
    BY <1>1, BatchInvariant, PTL

-----------------------------------------------------------------------------
(***************************************************************************)
(* The mailbox that the buffer and the rounds implement.  Its queue holds  *)
(* the numbers after those handed over, up to the last one sent.           *)
(***************************************************************************)

\* Every set of numbers that is not empty has a least one.
LEMMA Least ==
  ASSUME NEW S \in SUBSET Nat, S # {}
  PROVE  \E n \in S : \A m \in S : n <= m
  <1> DEFINE T == {0 .. n : n \in S}
             R == StrictSubsetOrdering(Nat)
  <1>1. IsWellFoundedOn(R, FiniteSubsetsOf(Nat))
    BY FS_StrictSubsetOrderingWellFounded
  <1>2. T \subseteq FiniteSubsetsOf(Nat)
    <2> SUFFICES ASSUME NEW n \in S
                 PROVE  0 .. n \in FiniteSubsetsOf(Nat)
      OBVIOUS
    <2>1. IsFiniteSet(0 .. n)
      BY FS_Interval
    <2> QED
      BY <2>1 DEF FiniteSubsetsOf
  <1>3. T # {}
    OBVIOUS
  <1> HIDE DEF R
  <1>4. PICK x \in T : \A y \in T : ~(<<y, x>> \in R)
    <2> HIDE DEF T
    <2> QED
      BY <1>1, <1>2, <1>3, WFMin
  <1>5. PICK n \in S : x = 0 .. n
    BY <1>4
  <1>6. ASSUME NEW m \in S, m < n
        PROVE  FALSE
    <2>1. 0 .. m \in T /\ 0 .. n \in T
      OBVIOUS
    <2>2. 0 .. m \subseteq 0 .. n /\ n \notin 0 .. m /\ n \in 0 .. n
      BY <1>6
    <2>3. <<0 .. m, 0 .. n>> \in R
      BY <2>2 DEF R, StrictSubsetOrdering
    <2> QED
      BY <1>4, <1>5, <2>1, <2>3
  <1>7. \A m \in S : n <= m
    BY <1>6
  <1> QED
    BY <1>7

\* The number of the last ordinary message up to position i of the inbox.
Number(i) == IF i = 0 THEN Handed ELSE inbox[i].id

\* The numbers from a + 1 to b.
Numbers(a, b) == [k \in 1 .. b - a |-> a + k]

\* One message further.
LEMMA NumberStep ==
  ASSUME BInv, NEW i \in 1 .. Len(inbox)
  PROVE  /\ Number(i) \in Nat
         /\ Number(i) = Number(i - 1) + (IF i \in Ordinary THEN 1 ELSE 0)
  <1>1. inbox \in Seq(Packet) /\ Len(inbox) \in Nat /\ Handed \in Nat
    BY LengthFacts DEF BInv, TypeOK, Packet
  <1>2. inbox[i] \in Packet /\ DOMAIN inbox = 1 .. Len(inbox)
    BY <1>1, ElementOfSeq, LenProperties
  <1>3. Number(i) = inbox[i].id /\ inbox[i].id \in Nat
    BY <1>1, <1>2 DEF Number, Packet
  <1>4. Weight(inbox[i]) = IF i \in Ordinary THEN 1 ELSE 0
    BY <1>2 DEF Weight, Ordinary
  <1>5. CASE i = 1
    <2>1. inbox # << >>
      BY <1>1, EmptySeq
    <2>2. inbox[1].id = Handed + Weight(inbox[1])
      BY <2>1 DEF BInv, Queued
    <2> QED
      BY <1>3, <1>4, <1>5, <2>2 DEF Number
  <1>6. CASE i # 1
    <2>1. PICK k \in 1 .. Len(inbox) - 1 : i = k + 1
      BY <1>1, <1>6
    <2>2. inbox[k + 1].id = inbox[k].id + Weight(inbox[k + 1])
      BY DEF BInv, Queued
    <2>3. i - 1 = k /\ k # 0
      BY <1>1, <2>1
    <2>4. Number(i - 1) = inbox[k].id
      BY <2>3 DEF Number
    <2> QED
      BY <1>3, <1>4, <2>1, <2>2, <2>4
  <1> QED
    BY <1>3, <1>5, <1>6

\* The last number is the last one sent.
LEMMA NumberEnds ==
  ASSUME BInv
  PROVE  Number(0) = Handed /\ Number(Len(inbox)) = sent
  <1>1. inbox \in Seq(Packet) /\ Len(inbox) \in Nat
    BY LengthFacts DEF BInv, TypeOK, Packet
  <1>2. CASE inbox = << >>
    <2>1. Len(inbox) = 0
      BY <1>2
    <2> QED
      BY <1>2, <2>1 DEF BInv, Queued, Number
  <1>3. CASE inbox # << >>
    <2>1. Len(inbox) # 0
      BY <1>1, <1>3, EmptySeq
    <2> QED
      BY <1>3, <2>1 DEF BInv, Queued, Number
  <1> QED
    BY <1>2, <1>3

\* What the messages up to position i add to the numbers.
LEMMA Ranks ==
  ASSUME BInv, NEW i \in 0 .. Len(inbox)
  PROVE  /\ IsFiniteSet(UpTo(i))
         /\ Number(i) \in Nat
         /\ Cardinality(UpTo(i)) + Handed = Number(i)
  <1> DEFINE Right(n) == /\ IsFiniteSet(UpTo(n))
                         /\ Number(n) \in Nat
                         /\ Cardinality(UpTo(n)) + Handed = Number(n)
             Wrong    == {n \in 0 .. Len(inbox) : ~Right(n)}
  <1>1. inbox \in Seq(Packet) /\ Len(inbox) \in Nat /\ Handed \in Nat /\ DOMAIN inbox = 1 .. Len(inbox)
    BY LengthFacts, LenProperties DEF BInv, TypeOK, Packet
  <1>2. Right(0)
    <2>1. UpTo(0) = {}
      BY <1>1 DEF UpTo, Ordinary
    <2>2. Number(0) = Handed
      BY NumberEnds
    <2>3. IsFiniteSet(UpTo(0)) /\ Cardinality(UpTo(0)) = 0
      BY <2>1, FS_EmptySet
    <2>4. Cardinality(UpTo(0)) + Handed = Handed
      BY <1>1, <2>3
    <2> QED
      BY <1>1, <2>2, <2>3, <2>4
  <1>3. ASSUME NEW n \in 1 .. Len(inbox), Right(n - 1)
        PROVE  Right(n)
    <2>1. PICK U : U = UpTo(n - 1)
      OBVIOUS
    <2>2. IsFiniteSet(U) /\ Cardinality(U) + Handed = Number(n - 1) /\ Number(n - 1) \in Nat
      BY <1>3, <2>1
    <2>3. Number(n) \in Nat /\ Number(n) = Number(n - 1) + (IF n \in Ordinary THEN 1 ELSE 0)
      BY NumberStep
    <2>4. \A j \in Ordinary : j <= n <=> (j <= n - 1 \/ j = n)
      BY <1>1 DEF Ordinary
    <2>5. CASE n \in Ordinary
      <3>1. UpTo(n) = U \cup {n}
        BY <2>1, <2>4, <2>5 DEF UpTo
      <3>2. n \notin U
        BY <1>1, <2>1 DEF UpTo
      <3>3. IsFiniteSet(U \cup {n}) /\ Cardinality(U \cup {n}) = Cardinality(U) + 1
        BY <2>2, <3>2, FS_AddElement
      <3>4. Cardinality(U) \in Nat
        BY <2>2, FS_CardinalityType
      <3> QED
        BY <1>1, <2>2, <2>3, <2>5, <3>1, <3>3, <3>4
    <2>6. CASE n \notin Ordinary
      <3>1. UpTo(n) = U
        BY <2>1, <2>4, <2>6 DEF UpTo
      <3>2. Number(n) = Number(n - 1)
        BY <2>2, <2>3, <2>6
      <3> QED
        BY <2>2, <3>1, <3>2
    <2> QED
      BY <2>5, <2>6
  <1>4. Wrong = {}
    <2> SUFFICES ASSUME Wrong # {}
                 PROVE  FALSE
      OBVIOUS
    <2>1. Wrong \in SUBSET Nat
      BY <1>1
    <2>2. PICK n \in Wrong : \A m \in Wrong : n <= m
      BY <2>1, Least
    <2>3. n \in 0 .. Len(inbox) /\ ~Right(n)
      BY <2>2
    <2> HIDE DEF Right
    <2>4. n # 0
      BY <1>2, <2>3
    <2>5. n \in 1 .. Len(inbox) /\ n - 1 \in 0 .. Len(inbox) /\ ~(n <= n - 1)
      BY <1>1, <2>3, <2>4
    <2>6. Right(n - 1)
      BY <2>2, <2>5
    <2> QED
      BY <1>3, <2>3, <2>5, <2>6
  <1>5. Right(i)
    BY <1>4
  <1> QED
    BY <1>5

\* The ordinary messages of the inbox are as many as the numbers left.
LEMMA OrdinaryCount ==
  ASSUME BInv
  PROVE  Cardinality(Ordinary) \in Nat /\ Cardinality(Ordinary) + Handed = sent
  <1>1. inbox \in Seq(Packet) /\ Len(inbox) \in Nat /\ DOMAIN inbox = 1 .. Len(inbox)
    BY LengthFacts, LenProperties DEF BInv, TypeOK, Packet
  <1>2. UpTo(Len(inbox)) = Ordinary
    BY <1>1 DEF UpTo, Ordinary
  <1>3. Len(inbox) \in 0 .. Len(inbox)
    BY <1>1
  <1>4. /\ IsFiniteSet(Ordinary)
        /\ Cardinality(Ordinary) + Handed = Number(Len(inbox))
    BY <1>2, <1>3, Ranks
  <1> QED
    BY <1>4, NumberEnds, FS_CardinalityType

\* The k-th of them has the k-th of these numbers.
LEMMA PlaceFacts ==
  ASSUME BInv, NEW k \in 1 .. Cardinality(Ordinary)
  PROVE  inbox[Place(k)].id = Handed + k
  <1> DEFINE Reached == {i \in 0 .. Len(inbox) : Number(i) >= Handed + k}
  <1>1. /\ inbox \in Seq(Packet) /\ Len(inbox) \in Nat /\ Handed \in Nat /\ DOMAIN inbox = 1 .. Len(inbox)
        /\ sent \in Nat
    BY LengthFacts, LenProperties DEF BInv, TypeOK, Packet
  <1>2. Cardinality(Ordinary) \in Nat /\ Cardinality(Ordinary) + Handed = sent
    BY OrdinaryCount
  <1>3. Number(Len(inbox)) = sent /\ Number(0) = Handed
    BY NumberEnds
  <1>4. \A i \in 0 .. Len(inbox) : Number(i) \in Nat /\ Cardinality(UpTo(i)) + Handed = Number(i)
    BY Ranks
  <1>5. PICK i \in Ordinary : Number(i) = Handed + k
    <2>1. Len(inbox) \in Reached
      <3>1. Len(inbox) \in 0 .. Len(inbox)
        BY <1>1
      <3>2. sent >= Handed + k
        BY <1>1, <1>2
      <3> QED
        BY <1>3, <3>1, <3>2
    <2>2. Reached \in SUBSET Nat /\ Reached # {}
      BY <1>1, <2>1
    <2>3. PICK n \in Reached : \A m \in Reached : n <= m
      BY <2>2, Least
    <2>4. n \in 0 .. Len(inbox) /\ Number(n) >= Handed + k
      BY <2>3
    <2>5. n # 0
      BY <1>1, <1>3, <2>4
    <2>6. n \in 1 .. Len(inbox) /\ n - 1 \in 0 .. Len(inbox) /\ ~(n <= n - 1)
      BY <1>1, <2>4, <2>5
    <2>7. n - 1 \notin Reached
      BY <2>3, <2>6
    <2>8. Number(n - 1) \in Nat /\ ~(Number(n - 1) >= Handed + k)
      BY <1>4, <2>6, <2>7
    <2>9. Number(n) = Number(n - 1) + (IF n \in Ordinary THEN 1 ELSE 0)
      BY <2>6, NumberStep
    <2>10. n \in Ordinary /\ Number(n) = Handed + k
      BY <1>1, <2>4, <2>8, <2>9
    <2> QED
      BY <2>10
  <1>6. \A j \in Ordinary : j \in 1 .. Len(inbox) /\ j \in 0 .. Len(inbox) /\ j # 0
    BY <1>1 DEF Ordinary
  <1>7. \A j \in Ordinary : Cardinality(UpTo(j)) = k => Number(j) = Handed + k
    BY <1>1, <1>4, <1>6
  <1>8. Cardinality(UpTo(i)) = k
    <2>1. Number(i) \in Nat /\ Cardinality(UpTo(i)) + Handed = Number(i)
      BY <1>4, <1>5, <1>6
    <2>2. IsFiniteSet(UpTo(i))
      BY <1>5, <1>6, Ranks
    <2>3. Cardinality(UpTo(i)) \in Nat
      BY <2>2, FS_CardinalityType
    <2> QED
      BY <1>1, <1>5, <2>1, <2>3
  <1>9. Place(k) \in Ordinary /\ Cardinality(UpTo(Place(k))) = k
    BY <1>5, <1>8 DEF Place
  <1>10. Number(Place(k)) = Handed + k /\ Place(k) # 0
    BY <1>6, <1>7, <1>9
  <1> QED
    BY <1>10 DEF Number

\* The numbers as a sequence.
LEMMA NumbersFacts ==
  ASSUME NEW a \in Nat, NEW b \in Nat, a <= b
  PROVE  /\ Numbers(a, b) \in Seq(Nat)
         /\ Len(Numbers(a, b)) = b - a
         /\ \A k \in 1 .. b - a : Numbers(a, b)[k] = a + k
  <1>1. b - a \in Nat
    OBVIOUS
  <1>2. [k \in 1 .. b - a |-> a + k] \in Seq(Nat)
    BY <1>1, IsASeq
  <1> QED
    BY <1>1, <1>2 DEF Numbers

\* Their first and their last.
LEMMA NumbersSplit ==
  ASSUME NEW a \in Nat, NEW b \in Nat, NEW c \in Nat, a <= c, c <= b
  PROVE  /\ SubSeq(Numbers(a, b), 1, c - a) = Numbers(a, c)
         /\ SubSeq(Numbers(a, b), (c - a) + 1, b - a) = Numbers(c, b)
         /\ Numbers(a, c) \o Numbers(c, b) = Numbers(a, b)
  <1>1. PICK s \in Seq(Nat) : s = Numbers(a, b) /\ Len(s) = b - a /\ \A k \in 1 .. b - a : s[k] = a + k
    <2>1. a <= b
      OBVIOUS
    <2> QED
      BY <2>1, NumbersFacts
  <1>2. PICK t \in Seq(Nat) : t = Numbers(a, c) /\ Len(t) = c - a /\ \A k \in 1 .. c - a : t[k] = a + k
    BY NumbersFacts
  <1>3. PICK u \in Seq(Nat) : u = Numbers(c, b) /\ Len(u) = b - c /\ \A k \in 1 .. b - c : u[k] = c + k
    BY NumbersFacts
  <1>4. SubSeq(s, 1, c - a) = t
    <2> DEFINE r == SubSeq(s, 1, c - a)
    <2>1. \A k \in 1 .. c - a : s[k] \in Nat /\ s[1 + k - 1] = t[k]
      <3> SUFFICES ASSUME NEW k \in 1 .. c - a
                   PROVE  s[k] \in Nat /\ s[1 + k - 1] = t[k]
        OBVIOUS
      <3>1. k \in 1 .. b - a /\ 1 + k - 1 = k
        OBVIOUS
      <3>2. s[k] = a + k /\ t[k] = a + k
        BY <1>1, <1>2, <3>1
      <3>3. a + k \in Nat
        OBVIOUS
      <3> QED
        BY <3>1, <3>2, <3>3
    <2>2. 1 \in Int /\ c - a \in Int /\ (c - a) - 1 + 1 = c - a
      OBVIOUS
    <2>3. /\ r \in Seq(Nat)
          /\ Len(r) = IF 1 <= c - a THEN (c - a) - 1 + 1 ELSE 0
          /\ \A k \in 1 .. (c - a) - 1 + 1 : r[k] = s[1 + k - 1]
      BY <2>1, <2>2, SubSeqProperties
    <2> HIDE DEF r
    <2>4. Len(r) = c - a /\ \A k \in 1 .. c - a : r[k] = s[1 + k - 1]
      BY <2>2, <2>3
    <2>5. Len(r) = Len(t) /\ \A k \in 1 .. Len(r) : r[k] = t[k]
      BY <1>2, <2>1, <2>4
    <2>6. r = t
      BY <2>3, <2>5, SeqEqual
    <2> QED
      BY <2>6 DEF r
  <1>5. SubSeq(s, (c - a) + 1, b - a) = u
    <2>1. PICK d \in Nat : d = c - a
      OBVIOUS
    <2> DEFINE r == SubSeq(s, d + 1, b - a)
    <2>2. \A k \in d + 1 .. b - a : s[k] \in Nat
      <3>1. \A k \in d + 1 .. b - a : k \in 1 .. b - a
        OBVIOUS
      <3> QED
        BY <1>1, <3>1
    <2>3. \A k \in 1 .. b - c : s[d + 1 + k - 1] = u[k]
      <3> SUFFICES ASSUME NEW k \in 1 .. b - c
                   PROVE  s[d + 1 + k - 1] = u[k]
        OBVIOUS
      <3>1. d + 1 + k - 1 = d + k /\ d + k \in 1 .. b - a /\ a + (d + k) = c + k
        BY <2>1
      <3> QED
        BY <1>1, <1>3, <3>1
    <2>4. d + 1 \in Int /\ b - a \in Int /\ (b - a) - (d + 1) + 1 = b - c
      BY <2>1
    <2>5. /\ r \in Seq(Nat)
          /\ Len(r) = IF d + 1 <= b - a THEN (b - a) - (d + 1) + 1 ELSE 0
          /\ \A k \in 1 .. (b - a) - (d + 1) + 1 : r[k] = s[d + 1 + k - 1]
      BY <2>2, <2>4, SubSeqProperties
    <2> HIDE DEF r
    <2>6. Len(r) = b - c /\ \A k \in 1 .. b - c : r[k] = s[d + 1 + k - 1]
      BY <2>1, <2>4, <2>5
    <2>7. Len(r) = Len(u) /\ \A k \in 1 .. Len(r) : r[k] = u[k]
      BY <1>3, <2>3, <2>6
    <2>8. r = u
      BY <2>5, <2>7, SeqEqual
    <2> QED
      BY <2>1, <2>8 DEF r
  <1>6. t \o u = s
    <2> DEFINE r == t \o u
    <2>1. /\ r \in Seq(Nat) /\ Len(r) = Len(t) + Len(u)
          /\ \A k \in 1 .. Len(t) + Len(u) : r[k] = IF k <= Len(t) THEN t[k] ELSE u[k - Len(t)]
      BY ConcatProperties
    <2> HIDE DEF r
    <2>2. Len(r) = b - a
      BY <1>2, <1>3, <2>1
    <2>3. ASSUME NEW k \in 1 .. b - a
          PROVE  r[k] = s[k]
      <3>1. r[k] = IF k <= c - a THEN t[k] ELSE u[k - (c - a)]
        BY <1>2, <1>3, <2>1
      <3>2. CASE k <= c - a
        BY <1>1, <1>2, <3>1, <3>2
      <3>3. CASE k > c - a
        <4>1. k - (c - a) \in 1 .. b - c /\ c + (k - (c - a)) = a + k
          BY <3>3
        <4> QED
          BY <1>1, <1>3, <3>1, <3>3, <4>1
      <3> QED
        BY <3>2, <3>3
    <2>4. r = s
      <3>1. Len(r) = Len(s) /\ \A k \in 1 .. Len(r) : r[k] = s[k]
        BY <1>1, <2>2, <2>3
      <3> QED
        BY <2>1, <3>1, SeqEqual
    <2> QED
      BY <2>4 DEF r
  <1> QED
    BY <1>1, <1>2, <1>3, <1>4, <1>5, <1>6

\* The queue of the mailbox.
LEMMA PendingFacts ==
  ASSUME BInv
  PROVE  /\ lost + Len(delivered) \in Nat /\ sent \in Nat /\ lost + Len(delivered) <= sent
         /\ Pending = Numbers(lost + Len(delivered), sent)
  <1>1. PICK a \in Nat, b \in Nat, c \in Nat :
          /\ a = lost + Len(delivered) /\ b = Len(Batch) /\ c = Cardinality(Ordinary)
          /\ Handed = a + b /\ sent = a + b + c
    <2>1. lost \in Nat /\ Len(delivered) \in Nat /\ Len(Batch) \in Nat /\ sent \in Nat
      BY LengthFacts DEF BInv, TypeOK
    <2>2. lost + Len(delivered) \in Nat
      BY <2>1
    <2> QED
      BY <2>1, <2>2, OrdinaryCount DEF Handed
  <1>2. [k \in 1 .. Len(Batch) |-> Batch[k].id] = Numbers(a, a + b)
    <2>1. \A k \in 1 .. b : Batch[k].id = a + k
      BY <1>1 DEF BInv, Filled
    <2>2. (a + b) - a = b
      OBVIOUS
    <2> QED
      BY <1>1, <2>1, <2>2 DEF Numbers
  <1>3. [k \in 1 .. Cardinality(Ordinary) |-> inbox[Place(k)].id] = Numbers(a + b, a + b + c)
    <2>1. \A k \in 1 .. c : inbox[Place(k)].id = a + b + k
      BY <1>1, PlaceFacts
    <2>2. (a + b + c) - (a + b) = c
      OBVIOUS
    <2> QED
      BY <1>1, <2>1, <2>2 DEF Numbers
  <1>4. Numbers(a, a + b) \o Numbers(a + b, a + b + c) = Numbers(a, a + b + c)
    <2>1. a + b \in Nat /\ a + b + c \in Nat /\ a <= a + b /\ a + b <= a + b + c
      OBVIOUS
    <2> QED
      BY <2>1, NumbersSplit
  <1>5. a + b + c \in Nat /\ a <= a + b + c
    OBVIOUS
  <1> QED
    BY <1>1, <1>2, <1>3, <1>4, <1>5 DEF Pending

\* So it is after a step.
LEMMA PendingNext ==
  BInv' => /\ (lost + Len(delivered) \in Nat)' /\ (sent \in Nat)' /\ (lost + Len(delivered) <= sent)'
           /\ (Pending = Numbers(lost + Len(delivered), sent))'
  <1>1. BInv => /\ lost + Len(delivered) \in Nat /\ sent \in Nat /\ lost + Len(delivered) <= sent
                /\ Pending = Numbers(lost + Len(delivered), sent)
    BY PendingFacts
  <1> QED
    BY <1>1, PTL

\* What a message that goes through dispatch_impl does to the mailbox.
LEMMA DispatchMoves ==
  ASSUME FlagFits, BInv, inbox # << >>, NEW remainder \in Nat, DispatchImpl(Head(inbox), remainder)
  PROVE  \/ UNCHANGED <<lost, delivered>> /\ cb' \in {cb, TRUE}
         \/ cb /\ cb' = cb /\ lost' = lost /\ Len(delivered) <= Len(delivered')
         \/ ~cb /\ cb' = cb /\ UNCHANGED delivered /\ lost <= lost'
  <1>1. inbox \in Seq(Packet)
    BY DEF BInv, TypeOK, Packet
  <1>2. PICK m \in Packet : m = Head(inbox) /\ m = inbox[1]
    BY <1>1, HeadTailProperties
  <1>3. CASE m.kind = "async"
    BY <1>2, <1>3 DEF DispatchImpl, scriptVars
  <1>4. CASE m.kind = "ordinary"
    <2>1. Copy(m) /\ (Hold(m, remainder) \/ Flush(m, remainder)) /\ UNCHANGED cb
      BY <1>2, <1>4 DEF DispatchImpl
    <2>2. m.id = Handed + 1
      BY <1>2, <1>4 DEF BInv, Queued, Weight
    <2>3. CASE Hold(m, remainder)
      BY <2>1, <2>3 DEF Hold
    <2>4. CASE Flush(m, remainder)
      <3>1. /\ bs_offset' = 0 /\ delivered' \in Seq(Nat) /\ lost' \in Nat /\ Handed' = m.id
            /\ \/ cb /\ lost' = lost
               \/ ~cb /\ UNCHANGED delivered /\ lost <= lost'
        BY <1>4, <2>1, <2>2, <2>4, FlushStep
      <3>2. Len(Batch') = 0
        BY <3>1, EmptySeq DEF Batch
      <3>3. PICK d \in Nat, e \in Nat, b \in Nat, l \in Nat, n \in Nat :
              d = Len(delivered) /\ e = Len(delivered') /\ b = Len(Batch) /\ l = lost /\ n = lost'
        BY <3>1, LengthFacts, LenProperties DEF BInv, TypeOK
      <3>4. n + e + 0 = l + d + b + 1
        BY <2>2, <3>1, <3>2, <3>3 DEF Handed
      <3>5. n = l => d <= e
        BY <3>4
      <3> QED
        BY <2>1, <3>1, <3>3, <3>5
    <2> QED
      BY <2>1, <2>3, <2>4
  <1> QED
    BY <1>3, <1>4 DEF Packet, Kind

\* A step that neither sends nor hands over: at most the callback appears.
LEMMA QuietMove ==
  ASSUME BInv, BInv', UNCHANGED <<sent, lost, delivered>>, cb' \in {cb, TRUE}
  PROVE  [Mailbox!Next]_Mailbox!vars
  <1>1. Pending' = Pending
    BY PendingFacts, PendingNext
  <1> QED
    BY <1>1 DEF Mailbox!Next, Mailbox!Start, Mailbox!vars

\* A message is sent: Send of the mailbox.
LEMMA SendMove ==
  ASSUME BInv, BInv', sent' = sent + 1, UNCHANGED <<lost, delivered, cb>>
  PROVE  Mailbox!Send
  <1>1. PICK a \in Nat, b \in Nat : a = lost + Len(delivered) /\ b = sent /\ a <= b
    BY PendingFacts
  <1>2. Pending = Numbers(a, b) /\ Pending' = Numbers(a, b + 1)
    BY <1>1, PendingFacts, PendingNext
  <1>3. /\ b + 1 \in Nat /\ a <= b + 1 /\ b <= b + 1
        /\ Len(Numbers(a, b)) = b - a /\ Len(Numbers(a, b + 1)) = (b + 1) - a
    <2>1. b + 1 \in Nat /\ a <= b /\ a <= b + 1 /\ b <= b + 1
      BY <1>1
    <2>2. Len(Numbers(a, b)) = b - a
      BY <2>1, NumbersFacts
    <2>3. Len(Numbers(a, b + 1)) = (b + 1) - a
      BY <2>1, NumbersFacts
    <2> QED
      BY <2>1, <2>2, <2>3
  <1>4. SubSeq(Numbers(a, b + 1), 1, b - a) = Numbers(a, b)
    <2>1. a <= b /\ b <= b + 1 /\ b + 1 \in Nat
      BY <1>1
    <2> QED
      BY <2>1, NumbersSplit
  <1>5. (b + 1) - a = (b - a) + 1
    OBVIOUS
  <1> QED
    BY <1>2, <1>3, <1>4, <1>5 DEF Mailbox!Send

\* Messages leave the queue.
LEMMA TakeMove ==
  ASSUME BInv, BInv', sent' = sent, lost + Len(delivered) <= lost' + Len(delivered'),
         NEW n \in Nat, lost' + Len(delivered') = lost + Len(delivered) + n
  PROVE  /\ n \in 0 .. Len(Pending)
         /\ Mailbox!Takes(n)
         /\ SubSeq(Pending, 1, n) = Numbers(lost + Len(delivered), lost' + Len(delivered'))
         /\ n = 0 => Pending' = Pending
  <1>1. PICK a \in Nat, b \in Nat, c \in Nat :
          /\ a = lost + Len(delivered) /\ b = sent /\ c = lost' + Len(delivered')
          /\ a <= b /\ c <= b /\ c = a + n
    BY PendingFacts, PendingNext
  <1>2. Pending = Numbers(a, b) /\ Pending' = Numbers(c, b)
    BY <1>1, PendingFacts, PendingNext
  <1>3. Len(Numbers(a, b)) = b - a
    BY <1>1, NumbersFacts
  <1>4. /\ SubSeq(Numbers(a, b), 1, c - a) = Numbers(a, c)
        /\ SubSeq(Numbers(a, b), (c - a) + 1, b - a) = Numbers(c, b)
    <2>1. a <= c /\ c <= b
      BY <1>1
    <2> QED
      BY <2>1, NumbersSplit
  <1>5. c - a = n /\ n \in 0 .. b - a /\ (n = 0 => a = c)
    BY <1>1
  <1> QED
    BY <1>1, <1>2, <1>3, <1>4, <1>5 DEF Mailbox!Takes

\* The script is called: Deliver of the mailbox.
LEMMA DeliverMove ==
  ASSUME BInv, BInv', sent' = sent, cb, cb' = cb, lost' = lost, Len(delivered) <= Len(delivered')
  PROVE  [Mailbox!Next]_Mailbox!vars
  <1>1. /\ delivered \in Seq(Nat) /\ delivered' \in Seq(Nat) /\ lost \in Nat
        /\ \A k \in 1 .. Len(delivered) : delivered[k] = lost + k
        /\ \A k \in 1 .. Len(delivered') : delivered'[k] = lost + k
    BY DEF BInv, TypeOK, InOrder, DeliveredInOrder
  <1>2. PICK d \in Nat, e \in Nat, n \in Nat, l \in Nat :
          d = Len(delivered) /\ e = Len(delivered') /\ l = lost /\ e = d + n
    <2>1. PICK d \in Nat, e \in Nat : d = Len(delivered) /\ e = Len(delivered')
      BY <1>1, LenProperties
    <2>2. e - d \in Nat /\ e = d + (e - d)
      BY <2>1
    <2> QED
      BY <1>1, <2>1, <2>2
  <1>3. l + d \in Nat /\ l + e \in Nat /\ l + d <= l + e /\ (l + e) - (l + d) = n /\ l + e = l + d + n
    BY <1>2
  <1>4. /\ n \in 0 .. Len(Pending)
        /\ Mailbox!Takes(n)
        /\ SubSeq(Pending, 1, n) = Numbers(l + d, l + e)
        /\ n = 0 => Pending' = Pending
    BY <1>2, <1>3, TakeMove
  <1>5. PICK u \in Seq(Nat) : u = Numbers(l + d, l + e) /\ Len(u) = n /\ \A k \in 1 .. n : u[k] = l + d + k
    BY <1>3, NumbersFacts
  <1>6. delivered' = delivered \o u
    <2>1. PICK s \in Seq(Nat) : s = delivered /\ Len(s) = d /\ \A k \in 1 .. d : s[k] = l + k
      BY <1>1, <1>2
    <2>2. PICK t \in Seq(Nat) : t = delivered' /\ Len(t) = e /\ \A k \in 1 .. e : t[k] = l + k
      BY <1>1, <1>2
    <2> DEFINE r == s \o u
    <2>3. /\ r \in Seq(Nat) /\ Len(r) = Len(s) + Len(u)
          /\ \A k \in 1 .. Len(s) + Len(u) : r[k] = IF k <= Len(s) THEN s[k] ELSE u[k - Len(s)]
      BY ConcatProperties
    <2> HIDE DEF r
    <2>4. ASSUME NEW k \in 1 .. e
          PROVE  r[k] = t[k]
      <3>1. k \in Nat /\ k >= 1 /\ k <= d + n /\ t[k] = l + k
        BY <1>2, <2>2
      <3>2. r[k] = IF k <= d THEN s[k] ELSE u[k - d]
        <4>1. Len(s) = d /\ Len(u) = n
          BY <1>5, <2>1
        <4>2. k \in 1 .. Len(s) + Len(u)
          BY <1>2, <3>1, <4>1
        <4> QED
          BY <2>3, <4>1, <4>2
      <3>3. CASE k <= d
        BY <2>1, <3>1, <3>2, <3>3
      <3>4. CASE ~(k <= d)
        <4>1. k - d \in 1 .. n /\ l + d + (k - d) = l + k
          BY <3>1, <3>4
        <4>2. u[k - d] = l + d + (k - d)
          BY <1>5, <4>1
        <4> QED
          BY <3>1, <3>2, <3>4, <4>1, <4>2
      <3> QED
        BY <3>3, <3>4
    <2>5. Len(r) = e
      BY <1>2, <1>5, <2>1, <2>3
    <2>6. t = r
      BY <2>2, <2>3, <2>4, <2>5, SeqEqual
    <2> QED
      BY <2>1, <2>2, <2>6 DEF r
  <1>7. CASE n = 0
    <2>1. u = << >>
      BY <1>5, <1>7
    <2>2. delivered' = delivered
      BY <1>1, <1>6, <2>1, ConcatEmptySeq
    <2> QED
      BY <1>4, <1>7, <2>2 DEF Mailbox!vars
  <1>8. CASE n # 0
    <2>1. n \in 1 .. Len(Pending)
      <3>1. Len(Pending) \in Nat
        <4>1. Pending = Numbers(lost + Len(delivered), sent)
          BY PendingFacts
        <4>2. Pending \in Seq(Nat)
          BY <4>1, PendingFacts, NumbersFacts
        <4> QED
          BY <4>2, LenProperties
      <3> QED
        BY <1>4, <1>8, <3>1
    <2>2. Mailbox!Deliver
      BY <1>4, <1>5, <1>6, <2>1 DEF Mailbox!Deliver
    <2> QED
      BY <2>2 DEF Mailbox!Next
  <1> QED
    BY <1>7, <1>8

\* Without a callback the batch is gone: Discard of the mailbox.
LEMMA DiscardMove ==
  ASSUME BInv, BInv', sent' = sent, ~cb, cb' = cb, lost <= lost', UNCHANGED delivered
  PROVE  [Mailbox!Next]_Mailbox!vars
  <1>1. PICK d \in Nat, l \in Nat, n \in Nat :
          d = Len(delivered) /\ l = lost /\ lost' = l + n
    <2>1. PICK d \in Nat, l \in Nat, j \in Nat : d = Len(delivered) /\ l = lost /\ j = lost'
      BY LengthFacts DEF BInv, TypeOK
    <2>2. l <= j
      BY <2>1
    <2>3. j - l \in Nat /\ j = l + (j - l)
      BY <2>2
    <2> QED
      BY <2>1, <2>3
  <1>2. lost' + Len(delivered') = lost + Len(delivered) + n /\ lost + Len(delivered) <= lost' + Len(delivered')
    BY <1>1
  <1>3. /\ n \in 0 .. Len(Pending)
        /\ Mailbox!Takes(n)
        /\ n = 0 => Pending' = Pending
    BY <1>2, TakeMove
  <1>4. Len(Pending) \in Nat
    <2>1. Pending \in Seq(Nat)
      BY PendingFacts, NumbersFacts
    <2> QED
      BY <2>1, LenProperties
  <1>5. n # 0 => n \in 1 .. Len(Pending)
    BY <1>3, <1>4
  <1> QED
    BY <1>3, <1>5 DEF Mailbox!Next, Mailbox!Discard, Mailbox!vars

\* Every step of the buffer and the rounds is a step of the mailbox, or none.
LEMMA MailboxStep ==
  ASSUME FlagFits, BInv, BInv', [Next]_vars
  PROVE  [Mailbox!Next]_Mailbox!vars
  <1>1. cb \in BOOLEAN /\ sent \in Nat
    BY DEF BInv, TypeOK
  <1>2. ASSUME inbox # << >>, NEW remainder \in Nat, DispatchImpl(Head(inbox), remainder), UNCHANGED sent
        PROVE  [Mailbox!Next]_Mailbox!vars
    <2>1. CASE UNCHANGED <<lost, delivered>> /\ cb' \in {cb, TRUE}
      BY <1>2, <2>1, QuietMove
    <2>2. CASE cb /\ cb' = cb /\ lost' = lost /\ Len(delivered) <= Len(delivered')
      BY <1>2, <2>2, DeliverMove
    <2>3. CASE ~cb /\ cb' = cb /\ UNCHANGED delivered /\ lost <= lost'
      BY <1>2, <2>3, DiscardMove
    <2> QED
      BY <1>2, <2>1, <2>2, <2>3, DispatchMoves
  <1>3. CASE UNCHANGED vars
    <2>1. UNCHANGED <<sent, lost, delivered, cb>>
      BY <1>3 DEF vars, scriptVars
    <2> QED
      BY <2>1, QuietMove
  <1>4. ASSUME NEW kind \in Kind, NEW sz \in Size, Send(kind, sz)
        PROVE  [Mailbox!Next]_Mailbox!vars
    <2>1. /\ sent' = sent + IF kind = "ordinary" THEN 1 ELSE 0
          /\ UNCHANGED <<lost, delivered, cb>>
      BY <1>4 DEF Send, scriptVars
    <2>2. CASE kind = "ordinary"
      <3>1. sent' = sent + 1
        BY <2>1, <2>2
      <3>2. Mailbox!Send
        BY <2>1, <3>1, SendMove
      <3> QED
        BY <3>2 DEF Mailbox!Next
    <2>3. CASE kind # "ordinary"
      <3>1. sent' = sent
        BY <1>1, <2>1, <2>3
      <3> QED
        BY <2>1, <3>1, QuietMove
    <2> QED
      BY <2>2, <2>3
  <1>5. CASE RoundBegin \/ RoundEnd
    <2>1. UNCHANGED <<sent, lost, delivered, cb>>
      BY <1>5 DEF RoundBegin, RoundEnd, scriptVars
    <2> QED
      BY <2>1, QuietMove
  <1>6. CASE RoundDispatch
    <2>1. /\ remainder_message \in Nat /\ remainder_message > 0 /\ inbox # << >>
          /\ DispatchImpl(Head(inbox), remainder_message - 1) /\ UNCHANGED sent
      <3>1. remainder_message \in Nat /\ remainder_message > 0 /\ remainder_message <= Len(inbox)
        BY <1>6 DEF RoundDispatch, BInv, TypeOK, Rounds
      <3>2. inbox # << >>
        BY <3>1, EmptySeq
      <3> QED
        BY <1>6, <3>1, <3>2 DEF RoundDispatch
    <2>2. PICK remainder \in Nat : remainder = remainder_message - 1
      BY <2>1
    <2> QED
      BY <1>2, <2>1, <2>2
  <1>7. CASE SingleDispatch
    BY <1>2, <1>7 DEF SingleDispatch
  <1> QED
    BY <1>3, <1>4, <1>5, <1>6, <1>7 DEF Next, Host

\* The initial states are those of the mailbox.
LEMMA MailboxInit == Init => Mailbox!Init
  <1> SUFFICES ASSUME Init
               PROVE  Mailbox!Init
    OBVIOUS
  <1>1. BInv
    BY InitBInv
  <1>2. sent = 0 /\ lost = 0 /\ Len(delivered) = 0 /\ delivered = << >> /\ cb = FALSE
    BY EmptySeq DEF Init
  <1>3. Pending = Numbers(0, 0)
    BY <1>1, <1>2, PendingFacts
  <1>4. Numbers(0, 0) \in Seq(Nat) /\ Len(Numbers(0, 0)) = 0
    BY NumbersFacts
  <1>5. Pending = << >>
    BY <1>3, <1>4
  <1> QED
    BY <1>2, <1>5 DEF Mailbox!Init

\* The shared buffer, its replacement, the bit and the rounds hand over what a
\* FIFO mailbox hands over, for any sizes of messages, buffers and rounds.
THEOREM MailboxImplemented ==
  ASSUME FlagFits
  PROVE  Spec => ImplementsFifoMailbox
  <1>1. BInv /\ BInv' /\ [Next]_vars => [Mailbox!Next]_Mailbox!vars
    BY MailboxStep
  <1>2. Spec => []BInv
    BY BatchInvariant
  <1> QED
    BY <1>1, <1>2, MailboxInit, PTL DEF Spec, ImplementsFifoMailbox, Mailbox!Spec
=============================================================================
