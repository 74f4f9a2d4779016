------------------------ MODULE RecordingFilesProofs ------------------------
(***************************************************************************)
(* Proofs for RecordingFiles, for any sizes of element, buffer and block   *)
(* that FilesAssumption allows and any number of confs and elements.  File *)
(* and buffer are followed unit by unit: the k-th unit of the two together *)
(* is a unit of the element received at that place, whatever the buffer    *)
(* size makes of it on the way to the disk.                                *)
(***************************************************************************)
EXTENDS RecordingFiles, SequenceTheorems, TLAPS

(* The states of the file: who has it open, and when the buffer is empty.  *)
OpenInv == /\ ctl = "initial" => ~m_is_open
           /\ ctl # "initial" /\ enable_raw_recording => m_recording_configured
           /\ m_recording_configured /\ ~m_is_open => scrapped
           /\ owner = "recorder" /\ ctl # "initial" => m_is_open
           /\ worker # "off" => m_is_open /\ ctl \in {"running", "stopping"}
           /\ ~m_is_open => buffer = <<>>
           /\ worker = "off" /\ ~bad => buffer = <<>>

(* An open file that was never flushed in the middle of a block ends on a  *)
(* block; that is where a direct write may fail.                           *)
BlockInv == m_is_open /\ ~odd_flush /\ ~disk_full => Len(file) % Align = 0

(* File and buffer unit by unit.                                           *)
Received == (next - first) * ElemSize

UnitsInPlace == /\ \A k \in 1..Len(file) : file[k] = UnitNo(k)
                /\ \A k \in 1..Len(buffer) : buffer[k] = UnitNo(Len(file) + k)
                /\ Len(file) + Len(buffer) <= Received
                /\ bad \/ Len(file) + Len(buffer) = Received

UnitsInv == ~disk_full => UnitsInPlace

(* The reader is behind what it has read.                                  *)
ReadInOrder == /\ read_pos # Closed => read_pos = Len(read_back) * ElemSize
               /\ \A i \in 1..Len(read_back) : read_back[i] = Units(first + i - 1)

ReaderInv == ~disk_full => ReadInOrder

FilesInv == FilesTypeOK /\ OpenInv /\ BlockInv /\ UnitsInv /\ ReaderInv /\ FailsOnlyAsKnown
-----------------------------------------------------------------------------
(* Numbers                                                                 *)

LEMMA Sizes == /\ ElemSize \in Nat /\ BufferSize \in Nat /\ Align \in Nat /\ MaxElems \in Nat /\ MaxConfs \in Nat
               /\ ElemSize > 0 /\ BufferSize > 0 /\ Align > 0 /\ BufferSize % Align = 0
<1>1. {ElemSize, BufferSize, Align} \subseteq Nat \ {0} /\ {MaxElems, MaxConfs} \subseteq Nat /\ BufferSize % Align = 0
  BY FilesAssumption
<1> QED
  BY <1>1

(* Which element a unit belongs to.                                        *)
LEMMA UnitOfElement ==
  ASSUME NEW m \in Nat, NEW j \in 1..ElemSize
  PROVE  ((m * ElemSize + j) - 1) \div ElemSize = m
<1>1. \A a, d \in Nat : d > 0 => d * (a \div d) <= a /\ a < d * (a \div d) + d /\ a \div d \in Nat
  OBVIOUS
<1> DEFINE q == ((m * ElemSize + j) - 1) \div ElemSize
<1>2. m * ElemSize + j - 1 \in Nat /\ ElemSize \in Nat /\ ElemSize > 0
  BY Sizes
<1>3. ElemSize * q <= m * ElemSize + j - 1 /\ m * ElemSize + j - 1 < ElemSize * q + ElemSize /\ q \in Nat
  BY <1>1, <1>2
<1> HIDE DEF q
<1>4. \A a, b, d \in Nat : d > 0 /\ d * a < b * d + d => a <= b
  OBVIOUS
<1>5. ElemSize * q < m * ElemSize + ElemSize
  BY <1>2, <1>3
<1>6. q <= m
  BY <1>2, <1>3, <1>4, <1>5
<1>7. ElemSize * m < q * ElemSize + ElemSize
  BY <1>2, <1>3
<1>8. m <= q
  BY <1>2, <1>3, <1>4, <1>7
<1> QED
  BY <1>3, <1>6, <1>8 DEF q

(* What goes to the file is full buffers, and leaves at least one unit and *)
(* at most a buffer.                                                       *)
LEMMA WrittenIsBuffers ==
  ASSUME NEW n \in Nat, n > 0
  PROVE  /\ Chunks(n) \in Nat /\ Written(n) \in Nat /\ Written(n) < n /\ n - Written(n) <= BufferSize
         /\ Written(n) > 0 => BufferSize < n
<1>1. \A a, d \in Nat : d > 0 => (a \div d) * d <= a /\ a < (a \div d) * d + d /\ a \div d \in Nat
  OBVIOUS
<1> DEFINE q == (n - 1) \div BufferSize
<1>2. q \in Nat /\ q * BufferSize <= n - 1 /\ n - 1 < q * BufferSize + BufferSize
  BY <1>1, Sizes
<1> HIDE DEF q
<1>3. q * BufferSize \in Nat
  BY <1>2, Sizes
<1>4. \A p, b \in Nat : (p + 1) * b = p * b + b /\ p * b \in Nat
  OBVIOUS
<1>5. q * BufferSize > 0 => BufferSize <= q * BufferSize
  <2>1. CASE q = 0
    BY <2>1, Sizes
  <2>2. CASE q # 0
    <3>1. q - 1 \in Nat /\ (q - 1) + 1 = q
      BY <1>2, <2>2
    <3>2. ((q - 1) + 1) * BufferSize = (q - 1) * BufferSize + BufferSize /\ (q - 1) * BufferSize \in Nat
      BY <1>4, <3>1, Sizes
    <3> QED
      <4> DEFINE r == (q - 1) * BufferSize
      <4>1. q * BufferSize = r + BufferSize /\ r \in Nat
        BY <3>1, <3>2
      <4> HIDE DEF r
      <4> QED
        BY <4>1, Sizes
  <2> QED
    BY <2>1, <2>2
<1>6. Chunks(n) = q /\ Written(n) = q * BufferSize
  BY DEF Chunks, Written, q
<1> QED
  BY <1>2, <1>3, <1>5, <1>6, Sizes

(* A unit that goes to the file does so in a full buffer.                  *)
LEMMA BufferInside ==
  ASSUME NEW n \in Nat, n > 0, NEW w \in Nat, w < Written(n)
  PROVE  (w \div BufferSize) * BufferSize \in Nat /\ (w \div BufferSize) * BufferSize + BufferSize <= n
<1> DEFINE q == w \div BufferSize
           c == Chunks(n)
<1>1. \A a, d \in Nat : d > 0 => (a \div d) * d <= a /\ a \div d \in Nat
  OBVIOUS
<1>2. q \in Nat /\ q * BufferSize <= w
  BY <1>1, Sizes
<1>3. c \in Nat /\ w < c * BufferSize /\ c * BufferSize < n
  BY WrittenIsBuffers DEF Written
<1> HIDE DEF q, c
<1>4. \A a, b, d \in Nat : a * d < b * d => a * d + d <= b * d
  <2>1. SUFFICES ASSUME NEW a \in Nat, NEW b \in Nat, NEW d \in Nat, a * d < b * d
                 PROVE  a * d + d <= b * d
    OBVIOUS
  <2>2. \A x, y, z \in Nat : x <= y => x * z <= y * z
    OBVIOUS
  <2>3. a < b
    BY <2>1, <2>2
  <2>4. (a + 1) * d = a * d + d /\ a + 1 <= b
    BY <2>3
  <2> QED
    BY <2>2, <2>4
<1>5. \A a, d \in Nat : a * d \in Nat
  OBVIOUS
<1>6. q * BufferSize \in Nat /\ c * BufferSize \in Nat
  BY <1>2, <1>3, <1>5, Sizes
<1>7. q * BufferSize < c * BufferSize
  BY <1>2, <1>3, <1>6
<1>8. q * BufferSize + BufferSize <= c * BufferSize
  BY <1>2, <1>3, <1>4, <1>7, Sizes
<1>9. q * BufferSize + BufferSize <= n
  BY <1>3, <1>6, <1>8, Sizes
<1> QED
  BY <1>6, <1>9 DEF q

(* Full buffers keep the file on a block.                                  *)
LEMMA BuffersKeepBlocks ==
  ASSUME NEW x \in Nat, x % Align = 0, NEW q \in Nat
  PROVE  (x + q * BufferSize) % Align = 0
<1>1. \A a, d \in Nat : d > 0 /\ a % d = 0 => a = d * (a \div d) /\ a \div d \in Nat
  OBVIOUS
<1>2. \A a, d \in Nat : d > 0 => (d * a) % d = 0
  OBVIOUS
<1> DEFINE u == x \div Align
           v == BufferSize \div Align
<1>3. x = Align * u /\ BufferSize = Align * v /\ u \in Nat /\ v \in Nat
  BY <1>1, Sizes
<1> HIDE DEF u, v
<1>4. \A a, b, c, d \in Nat : d * a + b * (d * c) = d * (a + b * c)
  OBVIOUS
<1>5. x + q * BufferSize = Align * (u + q * v) /\ u + q * v \in Nat
  BY <1>3, <1>4, Sizes
<1> QED
  BY <1>2, <1>5, Sizes
-----------------------------------------------------------------------------
(* Sequences                                                               *)

Elem == 1..MaxElems

LEMMA FunctionIsSeq ==
  ASSUME NEW S, NEW n \in Nat, NEW f \in [1..n -> S]
  PROVE  f \in Seq(S) /\ Len(f) = n
<1>1. f \in Seq(S)
  BY SeqDef
<1>2. DOMAIN f = 1..n /\ DOMAIN f = 1..Len(f) /\ Len(f) \in Nat
  BY <1>1, LenProperties
<1>3. \A a, b \in Nat : 1..a = 1..b => a = b
  <2>1. SUFFICES ASSUME NEW a \in Nat, NEW b \in Nat, 1..a = 1..b PROVE a = b
    OBVIOUS
  <2>2. \A x \in Nat : x \in 1..a <=> x \in 1..b
    BY <2>1
  <2>3. a \in 1..a \/ a = 0
    OBVIOUS
  <2>4. b \in 1..b \/ b = 0
    OBVIOUS
  <2> QED
    BY <2>2, <2>3, <2>4
<1> QED
  BY <1>1, <1>2, <1>3

LEMMA UnitsType ==
  ASSUME NEW e \in Elem
  PROVE  Units(e) \in Seq(Elem) /\ Len(Units(e)) = ElemSize /\ \A j \in 1..ElemSize : Units(e)[j] = e
<1> DEFINE T == Elem
<1>1. [i \in 1..ElemSize |-> e] \in [1..ElemSize -> T]
  OBVIOUS
<1> HIDE DEF T
<1>2. [i \in 1..ElemSize |-> e] \in Seq(T) /\ Len([i \in 1..ElemSize |-> e]) = ElemSize
  BY <1>1, FunctionIsSeq, Sizes
<1> QED
  BY <1>2 DEF Units, T

(* The pieces that write() makes of buffer and element.                    *)
LEMMA Pieces ==
  ASSUME NEW S, NEW s \in Seq(S), NEW w \in 0..Len(s)
  PROVE  /\ SubSeq(s, 1, w) \in Seq(S) /\ Len(SubSeq(s, 1, w)) = w
         /\ \A k \in 1..w : SubSeq(s, 1, w)[k] = s[k]
         /\ SubSeq(s, w + 1, Len(s)) \in Seq(S) /\ Len(SubSeq(s, w + 1, Len(s))) = Len(s) - w
         /\ \A k \in 1..Len(s) - w : SubSeq(s, w + 1, Len(s))[k] = s[w + k]
<1>1. Len(s) \in Nat /\ \A k \in 1..Len(s) : s[k] \in S
  BY LenProperties, ElementOfSeq
<1>2. /\ SubSeq(s, 1, w) \in Seq(S) /\ Len(SubSeq(s, 1, w)) = IF 1 <= w THEN w - 1 + 1 ELSE 0
      /\ \A k \in 1..w - 1 + 1 : SubSeq(s, 1, w)[k] = s[1 + k - 1]
  <2>1. 1 \in Int /\ w \in Int /\ \A k \in 1..w : s[k] \in S
    BY <1>1
  <2> QED
    BY <2>1, SubSeqProperties
<1>3. /\ SubSeq(s, w + 1, Len(s)) \in Seq(S)
      /\ Len(SubSeq(s, w + 1, Len(s))) = IF w + 1 <= Len(s) THEN Len(s) - (w + 1) + 1 ELSE 0
      /\ \A k \in 1..Len(s) - (w + 1) + 1 : SubSeq(s, w + 1, Len(s))[k] = s[w + 1 + k - 1]
  <2>1. w + 1 \in Int /\ Len(s) \in Int /\ \A k \in w + 1..Len(s) : s[k] \in S
    BY <1>1
  <2> QED
    BY <2>1, SubSeqProperties
<1>4. w - 1 + 1 = w /\ Len(s) - (w + 1) + 1 = Len(s) - w /\ w \in Nat /\ Len(s) - w \in Nat
  BY <1>1
<1>5. Len(SubSeq(s, 1, w)) = w /\ \A k \in 1..w : SubSeq(s, 1, w)[k] = s[k]
  <2>1. \A k \in 1..w : 1 + k - 1 = k
    BY <1>4
  <2> QED
    BY <1>2, <1>4, <2>1
<1>6. Len(SubSeq(s, w + 1, Len(s))) = Len(s) - w /\ \A k \in 1..Len(s) - w : SubSeq(s, w + 1, Len(s))[k] = s[w + k]
  <2> DEFINE t == SubSeq(s, w + 1, Len(s))
             n == Len(s) - w
  <2>1. /\ Len(t) = IF w + 1 <= Len(s) THEN n ELSE 0
        /\ \A k \in 1..n : t[k] = s[w + 1 + k - 1]
    BY <1>3, <1>4
  <2>2. \A k \in 1..n : w + 1 + k - 1 = w + k
    BY <1>4
  <2>3. Len(s) - w = 0 \/ w + 1 <= Len(s)
    <3>1. \A l \in Nat : \A v \in 0..l : l - v = 0 \/ v + 1 <= l
      OBVIOUS
    <3> QED
      BY <1>1, <3>1
  <2> HIDE DEF t, n
  <2>4. Len(t) = n
    <3>1. CASE w + 1 <= Len(s)
      BY <2>1, <3>1
    <3>2. CASE ~(w + 1 <= Len(s))
      <4>1. n = 0
        BY <2>3, <3>2 DEF n
      <4> QED
        BY <2>1, <3>2, <4>1
    <3> QED
      BY <3>1, <3>2
  <2>5. ASSUME NEW k \in 1..n PROVE t[k] = s[w + k]
    BY <2>1, <2>2
  <2> QED
    BY <2>4, <2>5 DEF t, n
<1> QED
  BY <1>2, <1>3, <1>5, <1>6

LEMMA Concatenated ==
  ASSUME NEW s \in Seq(Elem), NEW t \in Seq(Elem)
  PROVE  /\ s \o t \in Seq(Elem) /\ Len(s \o t) = Len(s) + Len(t)
         /\ \A k \in 1..Len(s) : (s \o t)[k] = s[k]
         /\ \A k \in 1..Len(t) : (s \o t)[Len(s) + k] = t[k]
<1>1. Len(s) \in Nat /\ Len(t) \in Nat
  BY LenProperties
<1>2. /\ s \o t \in Seq(Elem) /\ Len(s \o t) = Len(s) + Len(t)
      /\ \A i \in 1..Len(s) + Len(t) : (s \o t)[i] = IF i <= Len(s) THEN s[i] ELSE t[i - Len(s)]
  BY ConcatProperties
<1>3. \A k \in 1..Len(s) : k \in 1..Len(s) + Len(t) /\ k <= Len(s)
  BY <1>1
<1>4. \A k \in 1..Len(t) : Len(s) + k \in 1..Len(s) + Len(t) /\ ~(Len(s) + k <= Len(s)) /\ Len(s) + k - Len(s) = k
  BY <1>1
<1> QED
  BY <1>2, <1>3, <1>4
-----------------------------------------------------------------------------
LEMMA FilesInvInit == FilesInit => FilesInv
<1> SUFFICES ASSUME FilesInit PROVE FilesInv
  OBVIOUS
<1> USE Sizes DEF FilesInit
<1>1. OwnerTypeOK
  <2>1. {m_use_o_direct, enable_raw_recording, m_recording_configured, scrapped, refused} \subseteq BOOLEAN
    BY Zenon
  <2> QED
    BY <2>1 DEF OwnerTypeOK
<1>2. WriterTypeOK
  <2>1. {m_is_open, bad, disk_full, odd_flush} \subseteq BOOLEAN
    BY Zenon
  <2>2. <<>> \in Seq(1..MaxElems) /\ Len(<<>>) = 0
    BY EmptySeq
  <2> QED
    BY <2>1, <2>2 DEF WriterTypeOK
<1>3. ReaderTypeOK
  <2>1. <<>> \in Seq(Seq(1..MaxElems))
    BY EmptySeq
  <2> QED
    BY <2>1 DEF ReaderTypeOK
<1>4. OpenInv
  BY DEF OpenInv
<1>5. BlockInv
  BY DEF BlockInv
<1>6. UnitsInv
  BY DEF UnitsInv, UnitsInPlace, Received
<1>7. ReaderInv
  BY DEF ReaderInv, ReadInOrder
<1>8. FailsOnlyAsKnown
  BY DEF FailsOnlyAsKnown
<1> QED
  BY <1>1, <1>2, <1>3, <1>4, <1>5, <1>6, <1>7, <1>8 DEF FilesInv, FilesTypeOK
-----------------------------------------------------------------------------
(* The writer                                                              *)

LEMMA WriterFacts ==
  ASSUME FilesInv
  PROVE  /\ file \in Seq(Elem) /\ buffer \in Seq(Elem) /\ Len(file) \in Nat /\ Len(buffer) \in Nat
         /\ Len(buffer) <= BufferSize /\ next \in Nat /\ first \in Nat /\ first <= next /\ next - first \in Nat
         /\ Received \in Nat
<1>1. /\ file \in Seq(Elem) /\ buffer \in Seq(Elem) /\ Len(buffer) <= BufferSize
      /\ next \in 1..MaxElems + 1 /\ first \in 1..next
  BY DEF FilesInv, FilesTypeOK, WriterTypeOK, Elem
<1>2. Len(file) \in Nat /\ Len(buffer) \in Nat
  BY <1>1, LenProperties
<1>3. next \in Nat /\ first \in Nat /\ first <= next /\ next - first \in Nat
  BY <1>1, Sizes
<1>4. \A a, b \in Nat : a * b \in Nat
  OBVIOUS
<1> QED
  BY <1>1, <1>2, <1>3, <1>4, Sizes DEF Received

(* One more element makes ElemSize more units.                             *)
LEMMA ReceivedGrows ==
  ASSUME FilesInv, next' = next + 1, first' = first
  PROVE  Received' = Received + ElemSize
<1>1. \A m, d \in Nat : (m + 1) * d = m * d + d
  OBVIOUS
<1>2. next' - first' = (next - first) + 1 /\ next - first \in Nat
  BY WriterFacts
<1>3. ((next - first) + 1) * ElemSize = (next - first) * ElemSize + ElemSize
  BY <1>1, <1>2, Sizes
<1> QED
  BY <1>2, <1>3 DEF Received

(* The units of the next element stand where they belong.                  *)
LEMMA NextUnits ==
  ASSUME FilesInv, NEW j \in 1..ElemSize
  PROVE  UnitNo(Received + j) = next
<1>1. next - first \in Nat /\ next \in Nat /\ first \in Nat
  BY WriterFacts
<1> DEFINE m == next - first
           q == ((Received + j) - 1) \div ElemSize
<1>2. ((m * ElemSize + j) - 1) \div ElemSize = m
  BY <1>1, UnitOfElement
<1>3. q = m
  BY <1>2 DEF Received
<1>4. UnitNo(Received + j) = first + q
  BY DEF UnitNo
<1> HIDE DEF q
<1> QED
  BY <1>1, <1>3, <1>4

(* Whatever the disk takes, file and buffer keep their types.              *)
LEMMA PutTypes ==
  ASSUME FilesInv, next \in Elem, Put(next)
  PROVE  file' \in Seq(Elem) /\ buffer' \in Seq(Elem) /\ Len(buffer') <= BufferSize
<1> DEFINE all == buffer \o Units(next)
           n == Len(all)
<1>1. /\ file \in Seq(Elem) /\ buffer \in Seq(Elem) /\ Len(file) \in Nat /\ Len(buffer) \in Nat
      /\ Len(buffer) <= BufferSize
  BY WriterFacts
<1>2. all \in Seq(Elem) /\ n = Len(buffer) + ElemSize
  <2> DEFINE u == Units(next)
  <2>1. u \in Seq(Elem) /\ Len(u) = ElemSize
    BY UnitsType
  <2> HIDE DEF u
  <2>2. buffer \o u \in Seq(Elem) /\ Len(buffer \o u) = Len(buffer) + Len(u)
    BY <1>1, <2>1, Concatenated, Zenon
  <2> QED
    BY <2>1, <2>2 DEF u
<1>3. n \in Nat /\ n > 0
  BY <1>1, <1>2, Sizes
<1>4. Put(next) => \/ UNCHANGED <<file, buffer>>
                   \/ Fails(n) /\ file' = file /\ buffer' = SubSeq(all, 1, BufferSize)
                   \/ file' = file \o SubSeq(all, 1, Written(n)) /\ buffer' = SubSeq(all, Written(n) + 1, n)
                   \/ \E w \in 0..Written(n) - 1 : /\ file' = file \o SubSeq(all, 1, w)
                                                   /\ buffer' = BufferAt(all, w)
  BY DEF Put, DiskTakes
<1> HIDE DEF all
<1>5. /\ Chunks(n) \in Nat /\ Written(n) \in Nat /\ Written(n) < n /\ n - Written(n) <= BufferSize
      /\ Written(n) > 0 => BufferSize < n
  BY <1>3, WrittenIsBuffers
<1>6. ASSUME NEW w \in 0..n PROVE file \o SubSeq(all, 1, w) \in Seq(Elem)
  <2>1. SubSeq(all, 1, w) \in Seq(Elem)
    BY <1>2, <1>6, Pieces
  <2> QED
    BY <1>1, <2>1, ConcatProperties
<1>7. CASE UNCHANGED <<file, buffer>>
  BY <1>1, <1>7
<1>8. CASE Fails(n) /\ file' = file /\ buffer' = SubSeq(all, 1, BufferSize)
  <2>1. BufferSize \in 0..n
    BY <1>3, <1>5, <1>8, Sizes DEF Fails
  <2>2. SubSeq(all, 1, BufferSize) \in Seq(Elem) /\ Len(SubSeq(all, 1, BufferSize)) = BufferSize
    BY <1>2, <2>1, Pieces
  <2> QED
    BY <1>1, <1>8, <2>2, Sizes
<1>9. CASE file' = file \o SubSeq(all, 1, Written(n)) /\ buffer' = SubSeq(all, Written(n) + 1, n)
  <2>1. Written(n) \in 0..n
    BY <1>3, <1>5
  <2>2. buffer' \in Seq(Elem) /\ Len(buffer') = n - Written(n)
    BY <1>2, <1>9, <2>1, Pieces
  <2> QED
    BY <1>5, <1>6, <1>9, <2>1, <2>2
<1>10. CASE \E w \in 0..Written(n) - 1 : /\ file' = file \o SubSeq(all, 1, w)
                                        /\ buffer' = BufferAt(all, w)
  <2>1. PICK w \in 0..Written(n) - 1 : file' = file \o SubSeq(all, 1, w) /\ buffer' = BufferAt(all, w)
    BY <1>10
  <2>2. w \in 0..n /\ w \in Nat /\ w < Written(n)
    BY <1>3, <1>5
  <2> DEFINE start == (w \div BufferSize) * BufferSize
             lo == start + 1
             hi == start + BufferSize
  <2>3. start \in Nat /\ start + BufferSize <= n
    BY <1>3, <1>5, <2>2, BufferInside
  <2>4. buffer' = SubSeq(all, lo, hi)
    BY <2>1 DEF BufferAt
  <2> HIDE DEF start
  <2>5. lo \in Int /\ hi \in Int /\ lo <= hi /\ hi - lo + 1 = BufferSize /\ \A k \in lo..hi : all[k] \in Elem
    <3>1. \A k \in 1..n : all[k] \in Elem
      BY <1>2, ElementOfSeq
    <3>2. \A k \in lo..hi : k \in 1..n
      BY <1>3, <2>3, Sizes
    <3> QED
      BY <2>3, <3>1, <3>2, Sizes
  <2> HIDE DEF lo, hi
  <2>6. buffer' \in Seq(Elem) /\ Len(buffer') = BufferSize
    BY <1>2, <2>4, <2>5, SubSeqProperties
  <2>7. file' \in Seq(Elem)
    BY <1>6, <2>1, <2>2
  <2> QED
    BY <2>6, <2>7, Sizes
<1> QED
  BY <1>4, <1>7, <1>8, <1>9, <1>10

LEMMA PutStep ==
  ASSUME FilesInv, m_is_open, next \in Elem, next' = next + 1, first' = first, Put(next),
         UNCHANGED <<m_is_open, odd_flush>>, ~disk_full'
  PROVE  /\ UnitsInPlace' /\ BlockInv'
         /\ bad' = bad \/ (bad' = TRUE /\ m_use_o_direct /\ odd_flush)
<1> DEFINE all == buffer \o Units(next)
           n == Len(all)
<1>1. /\ file \in Seq(Elem) /\ buffer \in Seq(Elem) /\ Len(file) \in Nat /\ Len(buffer) \in Nat
      /\ Len(buffer) <= BufferSize /\ Received \in Nat
  BY WriterFacts
<1>2. Received' = Received + ElemSize
  BY ReceivedGrows
<1>0. ~disk_full
  BY DEF Put, DiskTakes
<1>3. UnitsInPlace /\ BlockInv
  BY <1>0 DEF FilesInv, UnitsInv
<1>4. \A k : UnitNo(k)' = UnitNo(k)
  BY DEF UnitNo
<1>5. /\ all \in Seq(Elem) /\ n = Len(buffer) + ElemSize
      /\ \A k \in 1..Len(buffer) : all[k] = buffer[k]
      /\ \A k \in 1..ElemSize : all[Len(buffer) + k] = next
  <2> DEFINE u == Units(next)
  <2>1. u \in Seq(Elem) /\ Len(u) = ElemSize /\ \A j \in 1..ElemSize : u[j] = next
    BY UnitsType
  <2> HIDE DEF u
  <2>2. /\ buffer \o u \in Seq(Elem) /\ Len(buffer \o u) = Len(buffer) + Len(u)
        /\ \A k \in 1..Len(buffer) : (buffer \o u)[k] = buffer[k]
        /\ \A k \in 1..Len(u) : (buffer \o u)[Len(buffer) + k] = u[k]
    BY <1>1, <2>1, Concatenated, Zenon
  <2>3. \A k \in 1..ElemSize : (buffer \o u)[Len(buffer) + k] = next
    BY <2>1, <2>2
  <2> QED
    BY <2>1, <2>2, <2>3 DEF u
<1> HIDE DEF all, n
<1>6. CASE bad
  <2>1. UNCHANGED <<bad, file, buffer>>
    BY <1>6 DEF Put
  <2>2. Len(file') + Len(buffer') <= Received'
    BY <1>1, <1>2, <1>3, <2>1, Sizes DEF UnitsInPlace
  <2>3. UnitsInPlace'
    BY <1>3, <1>4, <1>6, <2>1, <2>2 DEF UnitsInPlace
  <2> QED
    BY <1>0, <1>1, <1>3, <2>1, <2>3 DEF BlockInv
<1>7. CASE ~bad
  <2>1. Len(file) + Len(buffer) = Received
    BY <1>3, <1>7 DEF UnitsInPlace
  <2>2. ASSUME NEW k \in 1..n PROVE all[k] = UnitNo(Len(file) + k)
    <3>1. CASE k <= Len(buffer)
      BY <1>1, <1>3, <1>5, <3>1 DEF UnitsInPlace
    <3>2. CASE ~(k <= Len(buffer))
      <4> DEFINE j == k - Len(buffer)
      <4>0. k \in Nat /\ k <= Len(buffer) + ElemSize
        BY <1>1, <1>5, Sizes
      <4>1. j \in 1..ElemSize /\ k = Len(buffer) + j /\ Len(file) + k = Received + j
        BY <1>1, <2>1, <3>2, <4>0, Sizes
      <4> HIDE DEF j
      <4>2. all[k] = next
        BY <1>5, <4>1
      <4>3. UnitNo(Received + j) = next
        BY <4>1, NextUnits
      <4> QED
        BY <4>1, <4>2, <4>3
    <3> QED
      BY <3>1, <3>2
  <2>3. n \in Nat /\ n > 0 /\ Len(file) + n = Received'
    <3> DEFINE f == Len(file)
               b == Len(buffer)
    <3>1. f \in Nat /\ b \in Nat /\ f + b = Received /\ n = b + ElemSize /\ Received' = Received + ElemSize
      BY <1>1, <1>2, <1>5, <2>1
    <3> HIDE DEF f, b
    <3>2. n \in Nat /\ n > 0 /\ f + n = Received'
      BY <3>1, Sizes
    <3> QED
      BY <3>2 DEF f
  <2>4. /\ Written(n) \in Nat /\ Written(n) < n /\ n - Written(n) <= BufferSize
        /\ Written(n) > 0 => BufferSize < n
    BY <2>3, WrittenIsBuffers
  <2>5. CASE Fails(n)
    <3>1. bad' = TRUE /\ buffer' = SubSeq(all, 1, BufferSize) /\ UNCHANGED <<m_is_open, file, odd_flush>>
      BY <1>7, <2>5 DEF Put, DiskTakes, all, n
    <3>2. BufferSize \in 0..n /\ m_use_o_direct /\ odd_flush
      BY <1>0, <1>3, <2>3, <2>4, <2>5, Sizes DEF Fails, BlockInv
    <3>3. /\ buffer' \in Seq(Elem) /\ Len(buffer') = BufferSize
          /\ \A k \in 1..BufferSize : buffer'[k] = all[k]
      BY <1>5, <3>1, <3>2, Pieces DEF n
    <3>4. \A k \in 1..BufferSize : k \in 1..n
      BY <2>3, <3>2
    <3>5. UnitsInPlace'
      <4>1. Len(file') + Len(buffer') <= Received'
        BY <1>1, <2>3, <3>1, <3>2, <3>3
      <4>2. \A k \in 1..Len(buffer') : buffer'[k] = UnitNo(Len(file') + k)
        BY <2>2, <3>1, <3>3, <3>4
      <4> QED
        BY <1>3, <1>4, <3>1, <4>1, <4>2 DEF UnitsInPlace
    <3> QED
      BY <1>0, <1>1, <1>3, <3>1, <3>2, <3>3, <3>5, Sizes DEF BlockInv
  <2>6. CASE ~Fails(n)
    <3>1. /\ file' = file \o SubSeq(all, 1, Written(n)) /\ buffer' = SubSeq(all, Written(n) + 1, n)
          /\ UNCHANGED <<m_is_open, bad, odd_flush>>
      BY <1>7, <2>6 DEF Put, DiskTakes, all, n
    <3> DEFINE w == Written(n)
               s == SubSeq(all, 1, w)
    <3>2. w \in 0..n /\ w \in Nat
      BY <2>3, <2>4
    <3>3. w = Chunks(n) * BufferSize /\ Chunks(n) \in Nat
      BY <2>3, WrittenIsBuffers DEF Written
    <3> HIDE DEF w
    <3>4. /\ s \in Seq(Elem) /\ Len(s) = w /\ \A k \in 1..w : s[k] = all[k]
          /\ buffer' \in Seq(Elem) /\ Len(buffer') = n - w /\ \A k \in 1..n - w : buffer'[k] = all[w + k]
      BY <1>5, <3>1, <3>2, Pieces DEF w, n
    <3>5. file' = file \o s
      BY <3>1 DEF w
    <3> HIDE DEF s
    <3>6. /\ file' \in Seq(Elem) /\ Len(file') = Len(file) + w
          /\ \A k \in 1..Len(file) : file'[k] = file[k]
          /\ \A k \in 1..w : file'[Len(file) + k] = s[k]
      <4>1. /\ file \o s \in Seq(Elem) /\ Len(file \o s) = Len(file) + Len(s)
            /\ \A k \in 1..Len(file) : (file \o s)[k] = file[k]
            /\ \A k \in 1..Len(s) : (file \o s)[Len(file) + k] = s[k]
        BY <1>1, <3>4, Concatenated, Zenon
      <4> QED
        BY <3>4, <3>5, <4>1, Zenon
    <3>7. ASSUME NEW k \in 1..Len(file') PROVE file'[k] = UnitNo(k)
      <4>1. CASE k <= Len(file)
        BY <1>1, <1>3, <3>6, <4>1 DEF UnitsInPlace
      <4>2. CASE ~(k <= Len(file))
        <5> DEFINE j == k - Len(file)
        <5>1. j \in 1..w /\ j \in 1..n /\ k = Len(file) + j
          BY <1>1, <2>3, <3>2, <3>6, <4>2
        <5> HIDE DEF j
        <5> QED
          BY <2>2, <3>4, <3>6, <5>1
      <4> QED
        BY <4>1, <4>2
    <3>8. ASSUME NEW k \in 1..Len(buffer') PROVE buffer'[k] = UnitNo(Len(file') + k)
      <4>1. w + k \in 1..n /\ k \in 1..n - w /\ Len(file) + (w + k) = Len(file') + k
        BY <1>1, <2>3, <3>2, <3>4, <3>6
      <4> QED
        BY <2>2, <3>4, <4>1
    <3>9. Len(file') + Len(buffer') = Received'
      BY <1>1, <2>3, <3>2, <3>4, <3>6
    <3>10. UnitsInPlace'
      <4>1. Len(file') + Len(buffer') <= Received'
        BY <1>1, <1>2, <3>9, Sizes
      <4> QED
        BY <1>4, <3>7, <3>8, <3>9, <4>1 DEF UnitsInPlace
    <3>11. BlockInv'
      BY <1>0, <1>1, <1>3, <3>1, <3>3, <3>6, BuffersKeepBlocks DEF BlockInv
    <3>12. Len(buffer') <= BufferSize
      BY <2>4, <3>4 DEF w
    <3> QED
      BY <3>1, <3>4, <3>6, <3>10, <3>11, <3>12
  <2> QED
    BY <2>5, <2>6
<1> QED
  BY <1>6, <1>7

(* The buffer goes to the file.                                            *)
LEMMA BufferToFile ==
  ASSUME FilesInv, file' = file \o buffer, buffer' = <<>>, UNCHANGED <<next, first, bad, disk_full>>
  PROVE  file' \in Seq(Elem) /\ Len(file') = Len(file) + Len(buffer) /\ UnitsInv'
<1>1. file \in Seq(Elem) /\ buffer \in Seq(Elem) /\ Len(file) \in Nat /\ Len(buffer) \in Nat
  BY WriterFacts
<1>2. /\ file' \in Seq(Elem) /\ Len(file') = Len(file) + Len(buffer)
      /\ \A k \in 1..Len(file) : file'[k] = file[k]
      /\ \A k \in 1..Len(buffer) : file'[Len(file) + k] = buffer[k]
  BY <1>1, Concatenated
<1> SUFFICES ASSUME ~disk_full PROVE UnitsInPlace'
  BY <1>2 DEF UnitsInv
<1>3. UnitsInPlace
  BY DEF FilesInv, UnitsInv
<1>4. ASSUME NEW k \in 1..Len(file') PROVE file'[k] = UnitNo(k)
  <2>1. CASE k <= Len(file)
    BY <1>1, <1>2, <1>3, <2>1 DEF UnitsInPlace
  <2>2. CASE ~(k <= Len(file))
    <3> DEFINE j == k - Len(file)
    <3>1. j \in 1..Len(buffer) /\ k = Len(file) + j
      BY <1>1, <1>2, <2>2
    <3> HIDE DEF j
    <3> QED
      BY <1>2, <1>3, <3>1 DEF UnitsInPlace
  <2> QED
    BY <2>1, <2>2
<1>5. \A k : UnitNo(k)' = UnitNo(k)
  BY DEF UnitNo
<1>6. Received' = Received
  BY DEF Received
<1>7. Len(buffer') = 0 /\ Len(file') + 0 = Len(file) + Len(buffer)
  BY <1>1, <1>2
<1>8. \A k \in 1..Len(buffer') : buffer'[k] = UnitNo(Len(file') + k)
  BY <1>7
<1> QED
  BY <1>2, <1>3, <1>4, <1>5, <1>6, <1>7, <1>8 DEF UnitsInPlace

(* A full disk takes a part of the buffer.                                 *)
LEMMA PartToFile ==
  ASSUME FilesInv, NEW w \in 0..Len(buffer) - 1, DiskTakes(buffer, w)
  PROVE  file' \in Seq(Elem) /\ disk_full' = TRUE /\ bad' = TRUE
<1>1. file \in Seq(Elem) /\ buffer \in Seq(Elem) /\ Len(buffer) \in Nat
  BY WriterFacts
<1>2. w \in 0..Len(buffer)
  BY <1>1
<1>3. SubSeq(buffer, 1, w) \in Seq(Elem)
  BY <1>1, <1>2, Pieces
<1>4. file \o SubSeq(buffer, 1, w) \in Seq(Elem)
  BY <1>1, <1>3, ConcatProperties
<1> QED
  BY <1>4 DEF DiskTakes

LEMMA ChangesWriter ==
  [FilesNext]_files_vars => \/ \E enable \in BOOLEAN : Conf(enable) \/ ConfThrows(enable)
                           \/ Scrap \/ Receive \/ Flush
                           \/ UNCHANGED <<writer_vars, next, first>>
  BY DEF FilesNext, Start, RecordRefused, Stop, Joined, WorkerEnds, ReaderOpen, ReaderRead, Finished,
         files_vars, data_vars

LEMMA WriterFlagsStep ==
  ASSUME FilesInv, [FilesNext]_files_vars
  PROVE  {m_is_open, bad, disk_full, odd_flush}' \subseteq BOOLEAN
<1>1. m_is_open \in BOOLEAN /\ bad \in BOOLEAN /\ disk_full \in BOOLEAN /\ odd_flush \in BOOLEAN
  BY Zenon DEF FilesInv, FilesTypeOK, WriterTypeOK
<1> DEFINE Known == /\ m_is_open' = m_is_open \/ m_is_open' = TRUE \/ m_is_open' = FALSE
                    /\ bad' = bad \/ bad' = TRUE \/ bad' = FALSE
                    /\ disk_full' = disk_full \/ disk_full' = TRUE \/ disk_full' = FALSE
                    /\ \/ odd_flush' = odd_flush \/ odd_flush' = FALSE
                       \/ odd_flush' = (odd_flush \/ Len(file') % Align # 0)
<1>2. ASSUME NEW enable \in BOOLEAN, Conf(enable) \/ ConfThrows(enable) PROVE Known
  BY <1>2 DEF Conf, ConfThrows, writer_vars
<1>3. ASSUME Scrap PROVE Known
  BY <1>3 DEF Scrap, Close, DiskTakes
<1>4. ASSUME Receive PROVE Known
  BY <1>4 DEF Receive, Put, DiskTakes
<1>5. ASSUME Flush PROVE Known
  BY <1>5 DEF Flush, FlushStream, DiskTakes
<1>6. ASSUME UNCHANGED <<writer_vars, next, first>> PROVE Known
  BY <1>6 DEF writer_vars
<1>7. Known
  BY <1>2, <1>3, <1>4, <1>5, <1>6, ChangesWriter
<1> QED
  BY <1>1, <1>7, Zenon

LEMMA WriterStep ==
  ASSUME FilesInv, [FilesNext]_files_vars
  PROVE  WriterTypeOK' /\ UnitsInv' /\ BlockInv'
<1>1. /\ file \in Seq(Elem) /\ buffer \in Seq(Elem) /\ Len(buffer) <= BufferSize
      /\ next \in 1..MaxElems + 1 /\ first \in 1..next
  BY DEF FilesInv, FilesTypeOK, WriterTypeOK, Elem
<1>2. UnitsInv /\ BlockInv /\ OpenInv
  BY DEF FilesInv
<1>3. <<>> \in Seq(Elem) /\ Len(<<>>) = 0
  BY EmptySeq
<1>4. SUFFICES /\ file' \in Seq(Elem) /\ buffer' \in Seq(Elem) /\ Len(buffer') <= BufferSize
               /\ next' \in 1..MaxElems + 1 /\ first' \in 1..next'
               /\ UnitsInv' /\ BlockInv'
  BY WriterFlagsStep DEF WriterTypeOK, Elem
<1>5. ASSUME file' = <<>>, buffer' = <<>>, next' = next, first' = next PROVE UnitsInv'
  <2>1. Received' = 0
    BY <1>1, <1>5, Sizes DEF Received
  <2>2. Len(file') = 0 /\ Len(buffer') = 0
    BY <1>3, <1>5
  <2> QED
    BY <2>1, <2>2 DEF UnitsInv, UnitsInPlace
<1>6. ASSUME UNCHANGED <<file, buffer, bad, disk_full, next, first>> PROVE UnitsInv'
  <2>1. Received' = Received /\ \A k : UnitNo(k)' = UnitNo(k)
    BY <1>6 DEF Received, UnitNo
  <2> QED
    BY <1>2, <1>6, <2>1 DEF UnitsInv, UnitsInPlace
<1>7. ASSUME NEW enable \in BOOLEAN, Conf(enable)
      PROVE  /\ file' \in Seq(Elem) /\ buffer' \in Seq(Elem) /\ Len(buffer') <= BufferSize
             /\ next' \in 1..MaxElems + 1 /\ first' \in 1..next' /\ UnitsInv' /\ BlockInv'
  <2>1. CASE Opens(enable)
    <3>1. file' = <<>> /\ buffer' = <<>> /\ next' = next /\ first' = next
      BY <1>7, <2>1 DEF Conf
    <3>2. 0 % Align = 0
      BY Sizes
    <3> QED
      BY <1>1, <1>3, <1>5, <3>1, <3>2, Sizes DEF BlockInv
  <2>2. CASE ~Opens(enable)
    <3>1. UNCHANGED <<m_is_open, bad, disk_full, file, buffer, odd_flush, next, first>>
      BY <1>7, <2>2 DEF Conf, writer_vars
    <3> QED
      BY <1>1, <1>2, <1>6, <3>1 DEF BlockInv
  <2> QED
    BY <2>1, <2>2
<1>8. ASSUME NEW enable \in BOOLEAN, ConfThrows(enable)
      PROVE  /\ file' \in Seq(Elem) /\ buffer' \in Seq(Elem) /\ Len(buffer') <= BufferSize
             /\ next' \in 1..MaxElems + 1 /\ first' \in 1..next' /\ UnitsInv' /\ BlockInv'
  <2>1. file' = <<>> /\ next' = next /\ first' = next /\ UNCHANGED <<m_is_open, buffer>> /\ ctl = "initial"
    BY <1>8 DEF ConfThrows, ConfCommand
  <2>2. ~m_is_open /\ buffer = <<>>
    BY <1>2, <2>1 DEF OpenInv
  <2> QED
    BY <1>1, <1>3, <1>5, <2>1, <2>2, Sizes DEF BlockInv
<1>9. CASE Scrap
  <2>0. UNCHANGED <<next, first>>
    BY <1>9 DEF Scrap
  <2>1. CASE m_is_open
    <3>1. Close /\ buffer' = <<>> /\ ~m_is_open'
      BY <1>9, <2>1 DEF Scrap
    <3>2. CASE file' = file \o buffer /\ UNCHANGED <<bad, disk_full>>
      <4>1. file' \in Seq(Elem) /\ UnitsInv'
        BY <2>0, <3>1, <3>2, BufferToFile
      <4> QED
        BY <1>1, <1>3, <2>0, <3>1, <4>1, Sizes DEF BlockInv
    <3>3. CASE \E w \in 0..Len(buffer) - 1 : DiskTakes(buffer, w)
      <4>1. file' \in Seq(Elem) /\ disk_full' = TRUE
        BY <3>3, PartToFile
      <4> QED
        BY <1>1, <1>3, <2>0, <3>1, <4>1, Sizes DEF BlockInv, UnitsInv
    <3> QED
      BY <3>1, <3>2, <3>3 DEF Close
  <2>2. CASE ~m_is_open
    <3>1. UNCHANGED <<file, buffer, bad, disk_full, m_is_open>>
      BY <1>9, <2>2 DEF Scrap
    <3> QED
      BY <1>1, <1>6, <2>0, <2>2, <3>1 DEF BlockInv
  <2> QED
    BY <2>1, <2>2
<1>10. CASE Receive
  <2>1. /\ worker = "receive" /\ next <= MaxElems /\ next' = next + 1 /\ first' = first /\ Put(next)
        /\ UNCHANGED <<m_is_open, odd_flush>>
    BY <1>10 DEF Receive
  <2>2. m_is_open
    BY <1>2, <2>1 DEF OpenInv
  <2>3. next \in Elem /\ next' \in 1..MaxElems + 1 /\ first' \in 1..next'
    BY <1>1, <2>1, Sizes DEF Elem
  <2>4. file' \in Seq(Elem) /\ buffer' \in Seq(Elem) /\ Len(buffer') <= BufferSize
    BY <2>1, <2>3, PutTypes
  <2>5. UnitsInv' /\ BlockInv'
    <3>1. CASE disk_full'
      BY <3>1 DEF UnitsInv, BlockInv
    <3>2. CASE ~disk_full'
      BY <2>1, <2>2, <2>3, <3>2, PutStep DEF UnitsInv
    <3> QED
      BY <3>1, <3>2
  <2> QED
    BY <2>3, <2>4, <2>5
<1>11. CASE Flush
  <2>1. UNCHANGED <<next, first, m_is_open>> /\ odd_flush' = (odd_flush \/ Len(file') % Align # 0) /\ FlushStream
    BY <1>11 DEF Flush, data_vars
  <2>2. BlockInv'
    BY <2>1 DEF BlockInv
  <2>3. CASE UNCHANGED <<file, buffer, bad, disk_full>>
    BY <1>1, <1>6, <2>1, <2>2, <2>3
  <2>4. CASE file' = file \o buffer /\ buffer' = <<>> /\ UNCHANGED <<bad, disk_full>>
    <3>1. file' \in Seq(Elem) /\ UnitsInv'
      BY <2>1, <2>4, BufferToFile
    <3> QED
      BY <1>1, <1>3, <2>1, <2>2, <2>4, <3>1, Sizes
  <2>5. CASE (\E w \in 0..Len(buffer) - 1 : DiskTakes(buffer, w)) /\ UNCHANGED buffer
    <3>1. file' \in Seq(Elem) /\ disk_full' = TRUE
      BY <2>5, PartToFile
    <3> QED
      BY <1>1, <2>1, <2>2, <2>5, <3>1 DEF UnitsInv
  <2> QED
    BY <2>1, <2>3, <2>4, <2>5 DEF FlushStream
<1>12. CASE UNCHANGED <<writer_vars, next, first>>
  <2>1. UNCHANGED <<m_is_open, bad, disk_full, file, buffer, odd_flush, next, first>>
    BY <1>12 DEF writer_vars
  <2> QED
    BY <1>1, <1>2, <1>6, <2>1 DEF BlockInv
<1> QED
  BY <1>7, <1>8, <1>9, <1>10, <1>11, <1>12, ChangesWriter
-----------------------------------------------------------------------------
(* The owners                                                              *)

LEMMA OwnerTypeStep == ASSUME FilesInv, [FilesNext]_files_vars PROVE OwnerTypeOK'
<1>1. OwnerTypeOK
  BY DEF FilesInv, FilesTypeOK
<1>2. ctl' \in {"initial", "configured", "running", "stopping"}
  BY <1>1 DEF OwnerTypeOK, FilesNext, Conf, ConfThrows, ConfCommand, Start, RecordRefused, Stop, Joined, Scrap, Receive,
              WorkerEnds, Flush, ReaderOpen, ReaderRead, Finished, files_vars
<1>3. worker' \in {"off", "receive", "flush"}
  BY <1>1 DEF OwnerTypeOK, FilesNext, Conf, ConfThrows, ConfCommand, Start, RecordRefused, Stop, Joined, Scrap, Receive,
              WorkerEnds, Flush, ReaderOpen, ReaderRead, Finished, files_vars
<1>4. owner' \in {"recorder", "handler"} /\ confs' \in 0..MaxConfs
  BY <1>1, Sizes DEF OwnerTypeOK, FilesNext, Conf, ConfThrows, ConfCommand, Start, RecordRefused, Stop, Joined, Scrap, Receive,
              WorkerEnds, Flush, ReaderOpen, ReaderRead, Finished, files_vars, owner_vars
<1>5. {m_use_o_direct, enable_raw_recording, m_recording_configured, scrapped, refused}' \subseteq BOOLEAN
  <2>1. /\ m_use_o_direct \in BOOLEAN /\ enable_raw_recording \in BOOLEAN /\ m_recording_configured \in BOOLEAN
        /\ scrapped \in BOOLEAN /\ refused \in BOOLEAN /\ m_is_open \in BOOLEAN
    BY <1>1, Zenon DEF OwnerTypeOK, FilesInv, FilesTypeOK, WriterTypeOK
  <2>2. /\ m_use_o_direct' = m_use_o_direct
        /\ m_recording_configured' = m_recording_configured \/ m_recording_configured' = TRUE
        /\ enable_raw_recording' = enable_raw_recording \/ enable_raw_recording' \in BOOLEAN
        /\ scrapped' = scrapped \/ scrapped' = (scrapped \/ m_is_open)
        /\ refused' = refused \/ refused' = (refused \/ enable_raw_recording)
    BY DEF FilesNext, Conf, ConfThrows, ConfCommand, ConfiguredLast, Start, RecordRefused, Stop, Joined, Scrap, Receive,
           WorkerEnds, Flush, ReaderOpen, ReaderRead, Finished, files_vars, owner_vars, data_vars
  <2> QED
    BY <2>1, <2>2, Zenon
<1> QED
  BY <1>2, <1>3, <1>4, <1>5 DEF OwnerTypeOK

LEMMA OpenStep == ASSUME FilesInv, [FilesNext]_files_vars PROVE OpenInv'
<1>1. OpenInv /\ OwnerTypeOK
  BY DEF FilesInv, FilesTypeOK
<1>2. ASSUME NEW enable \in BOOLEAN, Conf(enable) PROVE OpenInv'
  BY <1>1, <1>2 DEF OpenInv, OwnerTypeOK, Conf, ConfCommand, Opens, writer_vars
<1>3. ASSUME NEW enable \in BOOLEAN, ConfThrows(enable) PROVE OpenInv'
  BY <1>1, <1>3 DEF OpenInv, ConfThrows, ConfCommand, ConfiguredLast
<1>4. CASE Scrap
  BY <1>1, <1>4 DEF OpenInv, Scrap, Close, DiskTakes, owner_vars
<1>5. CASE Receive
  <2>1. /\ worker = "receive" /\ next <= MaxElems /\ next' = next + 1 /\ first' = first /\ Put(next)
        /\ worker' \in {"receive", "flush"} /\ UNCHANGED <<ctl, owner, enable_raw_recording, m_recording_configured, scrapped, m_is_open>>
    BY <1>5 DEF Receive, owner_vars
  <2>2. m_is_open /\ next \in Elem
    BY <1>1, <2>1, WriterFacts, Sizes DEF OpenInv, Elem, FilesInv, FilesTypeOK, WriterTypeOK
  <2> QED
    BY <1>1, <2>1, <2>2 DEF OpenInv
<1>6. CASE Flush
  BY <1>1, <1>6 DEF OpenInv, Flush, FlushStream, DiskTakes, owner_vars, data_vars
<1>7. CASE Start
  BY <1>1, <1>7 DEF OpenInv, Start, writer_vars, owner_vars, data_vars
<1>8. CASE Stop \/ Joined \/ WorkerEnds
  BY <1>1, <1>8 DEF OpenInv, Stop, Joined, WorkerEnds, writer_vars, owner_vars, data_vars
<1>9. CASE UNCHANGED <<writer_vars, owner_vars, scrapped, ctl, worker>>
  BY <1>1, <1>9 DEF OpenInv, writer_vars, owner_vars
<1>10. \/ \E enable \in BOOLEAN : Conf(enable) \/ ConfThrows(enable)
       \/ Scrap \/ Receive \/ Flush \/ Start \/ Stop \/ Joined \/ WorkerEnds
       \/ UNCHANGED <<writer_vars, owner_vars, scrapped, ctl, worker>>
  BY DEF FilesNext, RecordRefused, ReaderOpen, ReaderRead, Finished, files_vars, data_vars
<1> QED
  BY <1>2, <1>3, <1>4, <1>5, <1>6, <1>7, <1>8, <1>9, <1>10

(* Only a write at an odd offset or to a full disk raises the bad bit, and *)
(* only the record command of a request handler whose file was scrapped is *)
(* refused although recording is enabled.                                  *)
LEMMA FailsStep == ASSUME FilesInv, [FilesNext]_files_vars PROVE FailsOnlyAsKnown'
<1>1. FailsOnlyAsKnown /\ OpenInv
  BY DEF FilesInv
<1>2. CASE Receive
  <2>1. /\ worker = "receive" /\ next <= MaxElems /\ next' = next + 1 /\ first' = first /\ Put(next)
        /\ UNCHANGED <<owner, m_use_o_direct, scrapped, refused, m_is_open, odd_flush>>
    BY <1>2 DEF Receive, owner_vars
  <2>2. m_is_open /\ next \in Elem
    BY <1>1, <2>1, WriterFacts, Sizes DEF OpenInv, Elem, FilesInv, FilesTypeOK, WriterTypeOK
  <2>3. disk_full' \/ bad' = bad \/ (m_use_o_direct /\ odd_flush)
    BY <2>1, <2>2, PutStep
  <2>4. disk_full => disk_full'
    BY <2>1 DEF Put, DiskTakes
  <2> QED
    BY <1>1, <2>1, <2>3, <2>4 DEF FailsOnlyAsKnown
<1>3. CASE RecordRefused
  BY <1>1, <1>3 DEF FailsOnlyAsKnown, OpenInv, RecordRefused, writer_vars, owner_vars
<1>4. ASSUME NEW enable \in BOOLEAN, Conf(enable) \/ ConfThrows(enable) PROVE FailsOnlyAsKnown'
  BY <1>1, <1>4 DEF FailsOnlyAsKnown, Conf, ConfThrows, writer_vars
<1>5. CASE Scrap \/ Flush
  <2>1. UNCHANGED <<owner, m_use_o_direct, refused>>
    BY <1>5 DEF Scrap, Flush, owner_vars, data_vars
  <2>2. odd_flush => odd_flush'
    BY <1>5, Zenon DEF Scrap, Flush
  <2>3. disk_full' = TRUE \/ UNCHANGED <<bad, disk_full>>
    BY <1>5 DEF Scrap, Flush, Close, FlushStream, DiskTakes
  <2>4. scrapped => scrapped'
    <3>1. scrapped' = (scrapped \/ m_is_open) \/ scrapped' = scrapped
      BY <1>5 DEF Scrap, Flush, data_vars
    <3> QED
      BY <3>1, Zenon
  <2> QED
    BY <1>1, <2>1, <2>2, <2>3, <2>4 DEF FailsOnlyAsKnown
<1>6. CASE UNCHANGED <<writer_vars, owner_vars, scrapped, refused>>
  BY <1>1, <1>6 DEF FailsOnlyAsKnown, writer_vars, owner_vars
<1>7. \/ Receive \/ RecordRefused \/ \E enable \in BOOLEAN : Conf(enable) \/ ConfThrows(enable)
      \/ Scrap \/ Flush
      \/ UNCHANGED <<writer_vars, owner_vars, scrapped, refused>>
  BY DEF FilesNext, Start, Stop, Joined, WorkerEnds, ReaderOpen, ReaderRead, Finished, files_vars, data_vars
<1> QED
  BY <1>2, <1>3, <1>4, <1>5, <1>6, <1>7
-----------------------------------------------------------------------------
(* The reader                                                              *)

(* What read() gets.                                                       *)
UnitsRead == SubSeq(file, read_pos + 1, IF read_pos + ElemSize <= Len(file)
                                        THEN read_pos + ElemSize ELSE Len(file))

(* A read that gets all its units gets those of one element, the next one. *)
LEMMA ReadsWholeElement ==
  ASSUME FilesInv, ~disk_full, read_pos # Closed, Len(UnitsRead) = ElemSize
  PROVE  UnitsRead = Units(first + Len(read_back))
<1> DEFINE m == Len(read_back)
           units == UnitsRead
<1>1. /\ file \in Seq(Elem) /\ Len(file) \in Nat /\ first \in Nat /\ m \in Nat /\ read_pos = m * ElemSize
      /\ read_pos \in Nat
  <2>1. read_back \in Seq(Seq(Elem)) /\ read_pos \in Nat /\ read_pos = m * ElemSize
    BY DEF FilesInv, FilesTypeOK, ReaderTypeOK, ReaderInv, ReadInOrder, Elem
  <2>2. m \in Nat
    BY <2>1, LenProperties
  <2> QED
    BY <2>1, <2>2, WriterFacts
<1>2. read_pos + ElemSize <= Len(file)
  <2>1. SUFFICES ASSUME ~(read_pos + ElemSize <= Len(file)) PROVE FALSE
    OBVIOUS
  <2>2. units = SubSeq(file, read_pos + 1, Len(file))
    BY <2>1 DEF UnitsRead
  <2>3. \A k \in read_pos + 1..Len(file) : file[k] \in Elem
    <3>1. \A k \in 1..Len(file) : file[k] \in Elem
      BY <1>1, ElementOfSeq
    <3> QED
      BY <1>1, <3>1
  <2>4. Len(units) = IF read_pos + 1 <= Len(file) THEN Len(file) - (read_pos + 1) + 1 ELSE 0
    <3>1. read_pos + 1 \in Int /\ Len(file) \in Int
      BY <1>1
    <3> QED
      BY <1>1, <2>2, <2>3, <3>1, SubSeqProperties
  <2> HIDE DEF units
  <2>5. Len(units) = ElemSize
    BY DEF units
  <2> QED
    BY <1>1, <2>1, <2>4, <2>5, Sizes
<1>3. units = SubSeq(file, read_pos + 1, read_pos + ElemSize)
  BY <1>2 DEF UnitsRead
<1>4. \A k \in read_pos + 1..read_pos + ElemSize : k \in 1..Len(file) /\ file[k] \in Elem
  <2>1. \A k \in 1..Len(file) : file[k] \in Elem
    BY <1>1, ElementOfSeq
  <2> QED
    BY <1>1, <1>2, <2>1, Sizes
<1>5. /\ units \in Seq(Elem)
      /\ \A k \in 1..(read_pos + ElemSize) - (read_pos + 1) + 1 : units[k] = file[read_pos + 1 + k - 1]
  <2> DEFINE lo == read_pos + 1
             hi == read_pos + ElemSize
  <2>1. lo \in Int /\ hi \in Int /\ units = SubSeq(file, lo, hi) /\ \A k \in lo..hi : file[k] \in Elem
    BY <1>1, <1>3, <1>4, Sizes
  <2> HIDE DEF lo, hi, units
  <2>2. units \in Seq(Elem) /\ \A k \in 1..hi - lo + 1 : units[k] = file[lo + k - 1]
    BY <2>1, SubSeqProperties
  <2> QED
    BY <2>2 DEF lo, hi
<1>6. \A j \in 1..ElemSize : units[j] = file[read_pos + j] /\ read_pos + j \in 1..Len(file)
  <2>1. SUFFICES ASSUME NEW j \in 1..ElemSize
                 PROVE  units[j] = file[read_pos + j] /\ read_pos + j \in 1..Len(file)
    OBVIOUS
  <2>2. j \in 1..(read_pos + ElemSize) - (read_pos + 1) + 1 /\ read_pos + 1 + j - 1 = read_pos + j
    BY <1>1, Sizes
  <2>3. units[j] = file[read_pos + 1 + j - 1]
    BY <1>5, <2>2
  <2>4. read_pos + j \in 1..Len(file)
    BY <1>1, <1>2, Sizes
  <2> QED
    BY <2>2, <2>3, <2>4
<1>7. \A j \in 1..ElemSize : units[j] = first + m
  <2>1. SUFFICES ASSUME NEW j \in 1..ElemSize PROVE units[j] = first + m
    OBVIOUS
  <2>2. units[j] = UnitNo(read_pos + j)
    BY <1>6 DEF FilesInv, UnitsInv, UnitsInPlace
  <2>3. ((m * ElemSize + j) - 1) \div ElemSize = m
    BY <1>1, UnitOfElement
  <2>4. UnitNo(read_pos + j) = first + ((read_pos + j) - 1) \div ElemSize
    BY DEF UnitNo
  <2> QED
    BY <1>1, <2>2, <2>3, <2>4
<1>8. first + m \in Elem
  <2>1. 1 \in 1..ElemSize
    BY Sizes
  <2>2. units[1] \in Elem
    BY <1>5, <2>1, ElementOfSeq
  <2> QED
    BY <1>7, <2>1, <2>2
<1> DEFINE e == first + m
           u == Units(e)
<1>9. u \in Seq(Elem) /\ Len(u) = ElemSize /\ \A j \in 1..ElemSize : u[j] = e
  BY <1>8, UnitsType
<1>10. \A j \in 1..Len(units) : units[j] = u[j]
  BY <1>7, <1>9
<1> HIDE DEF u
<1>11. units = u
  BY <1>5, <1>9, <1>10, SeqEqual
<1> QED
  BY <1>11 DEF u

(* What read() gets are units of the file.                                 *)
LEMMA ReadsUnits ==
  ASSUME FilesInv, read_pos # Closed
  PROVE  UnitsRead \in Seq(Elem)
<1> DEFINE lo == read_pos + 1
           hi == IF read_pos + ElemSize <= Len(file) THEN read_pos + ElemSize ELSE Len(file)
<1>1. file \in Seq(Elem) /\ Len(file) \in Nat /\ read_pos \in Nat
  BY WriterFacts DEF FilesInv, FilesTypeOK, ReaderTypeOK
<1>2. \A k \in 1..Len(file) : file[k] \in Elem
  BY <1>1, ElementOfSeq
<1>3. lo \in Int /\ hi \in Int /\ \A k \in lo..hi : file[k] \in Elem
  BY <1>1, <1>2, Sizes
<1>4. UnitsRead = SubSeq(file, lo, hi)
  BY DEF UnitsRead
<1> HIDE DEF lo, hi
<1> QED
  BY <1>1, <1>3, <1>4, SubSeqProperties

LEMMA ReaderStep == ASSUME FilesInv, [FilesNext]_files_vars PROVE ReaderTypeOK' /\ ReaderInv'
<1>1. ReaderTypeOK /\ ReaderInv
  BY DEF FilesInv, FilesTypeOK
<1>2. <<>> \in Seq(Seq(Elem)) /\ Len(<<>>) = 0
  BY EmptySeq
<1>3. ASSUME read_back' = <<>>, read_pos' \in {0, Closed} PROVE ReaderTypeOK' /\ ReaderInv'
  BY <1>2, <1>3, Sizes DEF ReaderTypeOK, ReaderInv, ReadInOrder, Elem
<1>4. ASSUME read_back' = read_back, read_pos' \in {read_pos, Closed}, first' = first, disk_full => disk_full'
      PROVE  ReaderTypeOK' /\ ReaderInv'
  <2>1. \A e : Units(e)' = Units(e)
    BY DEF Units
  <2> QED
    BY <1>1, <1>4, <2>1 DEF ReaderTypeOK, ReaderInv, ReadInOrder
<1>5. CASE ReaderRead
  <2> DEFINE units == UnitsRead
  <2>1. read_pos # Closed /\ first' = first /\ disk_full' = disk_full
    BY <1>5 DEF ReaderRead, data_vars, writer_vars
  <2>2. CASE ~ReadGotAll(units)
    <3>1. read_pos' = Closed /\ read_back' = read_back
      BY <1>5, <2>2 DEF ReaderRead, UnitsRead
    <3> QED
      BY <1>4, <2>1, <3>1
  <2>3. CASE ReadGotAll(units)
    <3>1. read_back' = Append(read_back, units) /\ read_pos' = read_pos + ElemSize
      BY <1>5, <2>3 DEF ReaderRead, UnitsRead
    <3>2. units \in Seq(Elem) /\ (~disk_full => units = Units(first + Len(read_back)))
      BY <2>1, <2>3, ReadsUnits, ReadsWholeElement DEF ReadGotAll
    <3> HIDE DEF units
    <3> DEFINE m == Len(read_back)
               T == Seq(Elem)
    <3>3. read_back \in Seq(T) /\ units \in T /\ read_pos \in Nat
      BY <1>1, <2>1, <3>2 DEF ReaderTypeOK, Elem
    <3> HIDE DEF T
    <3>4. /\ m \in Nat /\ read_back' \in Seq(T) /\ Len(read_back') = m + 1
          /\ \A i \in 1..m : read_back'[i] = read_back[i]
          /\ read_back'[m + 1] = units
      BY <3>1, <3>3, AppendProperties, LenProperties
    <3>5. ReaderTypeOK'
      BY <3>1, <3>3, <3>4, Sizes DEF ReaderTypeOK, T, Elem
    <3> SUFFICES ASSUME ~disk_full PROVE ReadInOrder'
      BY <2>1, <3>5 DEF ReaderInv
    <3>6. read_pos' = (m + 1) * ElemSize
      <4>1. \A a, d \in Nat : (a + 1) * d = a * d + d
        OBVIOUS
      <4>2. read_pos = m * ElemSize
        BY <1>1, <2>1 DEF ReaderInv, ReadInOrder
      <4> QED
        BY <3>1, <3>3, <3>4, <4>1, <4>2, Sizes
    <3>7. ASSUME NEW i \in 1..m + 1 PROVE read_back'[i] = Units(first + i - 1)
      <4>1. CASE i = m + 1
        <5>1. first + i - 1 = first + m
          BY <3>4, <4>1, WriterFacts
        <5> QED
          BY <3>2, <3>4, <4>1, <5>1
      <4>2. CASE i # m + 1
        <5>1. i \in 1..m
          BY <3>4, <4>2
        <5> QED
          BY <1>1, <3>4, <5>1 DEF ReaderInv, ReadInOrder
      <4> QED
        BY <4>1, <4>2
    <3>8. \A e : Units(e)' = Units(e)
      BY DEF Units
    <3> QED
      BY <2>1, <3>4, <3>6, <3>7, <3>8 DEF ReadInOrder
  <2> QED
    BY <2>2, <2>3
<1>6. ASSUME NEW enable \in BOOLEAN, Conf(enable) \/ ConfThrows(enable) PROVE ReaderTypeOK' /\ ReaderInv'
  BY <1>3, <1>6 DEF Conf, ConfThrows
<1>7. CASE ReaderOpen
  BY <1>3, <1>7 DEF ReaderOpen
<1>8. CASE UNCHANGED <<reader_vars, first>> /\ (disk_full => disk_full')
  BY <1>4, <1>8 DEF reader_vars
<1>9. CASE Receive
  BY <1>8, <1>9 DEF Receive, Put, DiskTakes
<1>10. CASE Scrap \/ Flush
  BY <1>8, <1>10 DEF Scrap, Flush, Close, FlushStream, DiskTakes, data_vars
<1>11. \/ \E enable \in BOOLEAN : Conf(enable) \/ ConfThrows(enable)
       \/ ReaderRead \/ ReaderOpen \/ Receive \/ Scrap \/ Flush
       \/ UNCHANGED <<reader_vars, first>> /\ (disk_full => disk_full')
  BY DEF FilesNext, Start, RecordRefused, Stop, Joined, WorkerEnds, Finished, files_vars, data_vars, writer_vars
<1> QED
  BY <1>5, <1>6, <1>7, <1>8, <1>9, <1>10, <1>11
-----------------------------------------------------------------------------
LEMMA FilesInvNext == FilesInv /\ [FilesNext]_files_vars => FilesInv'
  BY WriterStep, OwnerTypeStep, OpenStep, FailsStep, ReaderStep DEF FilesInv, FilesTypeOK

LEMMA FilesInvariant == FilesSpec => []FilesInv
  BY FilesInvInit, FilesInvNext, PTL DEF FilesSpec

(* Type correctness of the file model; in particular the stream's buffer   *)
(* never outgrows stream_buffer_size.                                      *)
THEOREM FilesTypeCorrect == FilesSpec => []FilesTypeOK
<1>1. FilesInv => FilesTypeOK
  BY DEF FilesInv
<1> QED
  BY <1>1, FilesInvariant, PTL

(* Whatever the sizes of element, buffer and block, a file of recorded     *)
(* data is a beginning of what was received, complete after stop() unless  *)
(* a write has failed, and is read back element by element, as long as the *)
(* disk is not full.                                                       *)
THEOREM FileHoldsTheStream == FilesSpec => []FileIsPrefix
<1>1. ASSUME FilesInv PROVE FileIsPrefix
  <2>0. SUFFICES ASSUME ~disk_full
                 PROVE  /\ IsPrefix(file \o buffer, Stream)
                        /\ bad \/ file \o buffer = Stream
                        /\ (ctl = "configured" /\ worker = "off" /\ ~bad) => file = Stream
                        /\ \A i \in DOMAIN read_back : read_back[i] = Units(first + i - 1)
    BY DEF FileIsPrefix
  <2> DEFINE fb == file \o buffer
             st == Stream
  <2>1. /\ file \in Seq(Elem) /\ buffer \in Seq(Elem) /\ Len(file) \in Nat /\ Len(buffer) \in Nat
        /\ Received \in Nat /\ first \in Nat
    BY <1>1, WriterFacts
  <2>2. /\ fb \in Seq(Elem) /\ Len(fb) = Len(file) + Len(buffer)
        /\ \A k \in 1..Len(file) : fb[k] = file[k]
        /\ \A k \in 1..Len(buffer) : fb[Len(file) + k] = buffer[k]
    BY <2>1, Concatenated
  <2>3. UnitsInPlace /\ OpenInv /\ ReadInOrder
    BY <1>1, <2>0 DEF FilesInv, UnitsInv, ReaderInv
  <2>4. st \in Seq(Nat) /\ Len(st) = Received /\ \A k \in 1..Received : st[k] = UnitNo(k)
    <3>1. \A k \in 1..Received : UnitNo(k) \in Nat
      <4>1. \A a, d \in Nat : d > 0 => a \div d \in Nat
        OBVIOUS
      <4>2. SUFFICES ASSUME NEW k \in 1..Received PROVE UnitNo(k) \in Nat
        OBVIOUS
      <4>3. k - 1 \in Nat
        BY <2>1
      <4>4. (k - 1) \div ElemSize \in Nat
        BY <4>1, <4>3, Sizes
      <4> QED
        BY <2>1, <4>4 DEF UnitNo
    <3>2. st = [k \in 1..Received |-> UnitNo(k)]
      BY DEF Stream, Received
    <3>3. st \in [1..Received -> Nat]
      BY <3>1, <3>2
    <3> HIDE DEF st
    <3>4. st \in Seq(Nat) /\ Len(st) = Received
      BY <2>1, <3>3, FunctionIsSeq
    <3> QED
      BY <3>2, <3>4
  <2>5. ASSUME NEW k \in 1..Len(fb) PROVE fb[k] = UnitNo(k)
    <3>1. CASE k <= Len(file)
      BY <2>1, <2>2, <2>3, <3>1 DEF UnitsInPlace
    <3>2. CASE ~(k <= Len(file))
      <4> DEFINE j == k - Len(file)
      <4>1. j \in 1..Len(buffer) /\ k = Len(file) + j
        BY <2>1, <2>2, <3>2
      <4> HIDE DEF j, fb
      <4> QED
        BY <2>2, <2>3, <4>1 DEF UnitsInPlace
    <3> QED
      BY <3>1, <3>2
  <2>6. Len(fb) \in Nat /\ Len(fb) <= Received /\ (bad \/ Len(fb) = Received)
    BY <2>1, <2>2, <2>3 DEF UnitsInPlace
  <2> HIDE DEF fb, st
  <2>7. fb \in Seq(Nat)
    <3>1. fb \in [1..Len(fb) -> Elem]
      BY <2>2, LenProperties
    <3>2. fb \in [1..Len(fb) -> Nat]
      BY <3>1, Sizes DEF Elem
    <3> QED
      BY <2>6, <3>2, FunctionIsSeq
  <2>8. IsPrefix(fb, st)
    <3> DEFINE n == Len(fb)
               a == SubSeq(fb, 1, n)
               b == SubSeq(st, 1, n)
    <3>1. n \in 0..Len(fb) /\ n \in 0..Len(st)
      BY <2>1, <2>4, <2>6
    <3>2. a \in Seq(Nat) /\ Len(a) = n /\ \A k \in 1..n : a[k] = fb[k]
      BY <2>7, <3>1, Pieces
    <3>3. b \in Seq(Nat) /\ Len(b) = n /\ \A k \in 1..n : b[k] = st[k]
      BY <2>4, <3>1, Pieces
    <3>4. \A k \in 1..n : fb[k] = st[k]
      BY <2>1, <2>4, <2>5, <2>6
    <3> HIDE DEF a, b
    <3>5. a = b
      BY <3>2, <3>3, <3>4, SeqEqual
    <3> QED
      BY <2>4, <2>6, <3>5 DEF IsPrefix, a, b
  <2>9. bad \/ fb = st
    <3>1. ASSUME Len(fb) = Received PROVE fb = st
      <4>1. Len(fb) = Len(st) /\ \A k \in 1..Len(fb) : fb[k] = st[k]
        BY <2>4, <2>5, <3>1
      <4> QED
        BY <2>4, <2>7, <4>1, SeqEqual
    <3> QED
      BY <2>6, <3>1
  <2>10. (ctl = "configured" /\ worker = "off" /\ ~bad) => file = st
    <3>1. SUFFICES ASSUME worker = "off", ~bad PROVE file = st
      OBVIOUS
    <3>2. buffer = <<>>
      BY <2>3, <3>1 DEF OpenInv
    <3>3. fb = file
      BY <2>1, <3>2 DEF fb
    <3> QED
      BY <2>9, <3>1, <3>3
  <2>11. \A i \in DOMAIN read_back : read_back[i] = Units(first + i - 1)
    <3>1. read_back \in Seq(Seq(Elem))
      BY <1>1 DEF FilesInv, FilesTypeOK, ReaderTypeOK, Elem
    <3>2. DOMAIN read_back = 1..Len(read_back)
      BY <3>1, LenProperties
    <3> QED
      BY <2>3, <3>2 DEF ReadInOrder
  <2> QED
    BY <2>8, <2>9, <2>10, <2>11 DEF fb, st
<1> QED
  BY <1>1, FilesInvariant, PTL

(* Recording fails only in the known ways: a full disk, a direct write     *)
(* after a flush in the middle of a block, and, with recording enabled,    *)
(* the record command of a handler that was scrapped and configured again. *)
THEOREM FailuresAreKnown == FilesSpec => []FailsOnlyAsKnown
<1>1. FilesInv => FailsOnlyAsKnown
  BY DEF FilesInv
<1> QED
  BY <1>1, FilesInvariant, PTL

=============================================================================
