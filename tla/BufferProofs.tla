----------------------------- MODULE BufferProofs -----------------------------
(***************************************************************************)
(* Proofs about Buffer for any sizes: the indices stay in order and no     *)
(* byte is lost, duplicated, overwritten or reordered.                     *)
(***************************************************************************)
EXTENDS Programs, SequenceTheorems, TLAPS

USE BufferConstants DEF BufferConstants

(* buf, with the reader at r and the writer at w in a vector of size n,    *)
(* holds what follows the first k bytes of s.                              *)
Ordered(n, r, w) == kCheapPrepend <= r /\ r <= w /\ w <= n
(* Byte for byte.                                                          *)
HoldsBytes(buf, r, w, s, k) ==
  /\ k + (w - r) = Len(s)
  /\ \A i \in 0..(w - r) - 1 : buf[r + i] = s[k + i + 1]

(* The inductive invariant is the conjunction of the three properties.     *)
BufferInv == Buf!TypeOK /\ Buf!IndicesOrdered /\ Buf!StreamPreserved

(* A data sequence is a sequence of bytes, and so are its parts.           *)
LEMMA DataIsSeq ==
  ASSUME NEW n \in Nat, NEW d \in [1..n -> Byte]
  PROVE  d \in Seq(Byte) /\ Len(d) = n
  OBVIOUS

(* A sequence is its first n elements followed by the others.              *)
LEMMA SplitData ==
  ASSUME NEW d \in Seq(Byte), NEW n \in Nat, n <= Len(d)
  PROVE  /\ SubSeq(d, 1, n) \in Seq(Byte) /\ Len(SubSeq(d, 1, n)) = n
         /\ SubSeq(d, n + 1, Len(d)) \in Seq(Byte)
         /\ SubSeq(d, 1, n) \o SubSeq(d, n + 1, Len(d)) = d
  <1>1. Len(d) \in Nat /\ \A i \in 1..Len(d) : d[i] \in Byte
    BY ElementOfSeq, LenProperties
  <1>2. SubSeq(d, 1, n) \in Seq(Byte) /\ Len(SubSeq(d, 1, n)) = n
    BY <1>1, SubSeqProperties
  <1>3. SubSeq(d, n + 1, Len(d)) \in Seq(Byte)
    BY <1>1, SubSeqProperties
  <1>4. SubSeq(d, 1, n) \o SubSeq(d, n + 1, Len(d)) = SubSeq(d, 1, Len(d))
    <2>1. /\ 1 \in 1..Len(d) + 1
          /\ n \in 1 - 1..Len(d)
          /\ Len(d) \in n..Len(d)
      BY <1>1
    <2>. QED
      BY <2>1, ConcatAdjacentSubSeq
  <1>. QED
    BY <1>2, <1>3, <1>4, SubSeqFull

(* The bytes of s followed by d.                                           *)
LEMMA ConcatBytes ==
  ASSUME NEW s \in Seq(Byte), NEW d \in Seq(Byte)
  PROVE  /\ s \o d \in Seq(Byte)
         /\ Len(s \o d) = Len(s) + Len(d)
         /\ Len(s) \in Nat /\ Len(d) \in Nat
         /\ \A i \in 1..Len(s) : (s \o d)[i] = s[i]
         /\ \A i \in 1..Len(d) : (s \o d)[Len(s) + i] = d[i] /\ d[i] \in Byte
  OBVIOUS

(* Copying d behind what buf holds: the buffer then holds s followed by d. *)
LEMMA CopyHolds ==
  ASSUME NEW n \in Nat, NEW buf \in [0..n - 1 -> Byte],
         NEW r \in Nat, NEW w \in Nat, NEW k \in Nat,
         NEW s \in Seq(Byte), NEW d \in Seq(Byte),
         r <= w, w + Len(d) <= n, HoldsBytes(buf, r, w, s, k)
  PROVE  /\ Buf!Copied(buf, w, d) \in [0..n - 1 -> Byte]
         /\ HoldsBytes(Buf!Copied(buf, w, d), r, w + Len(d), s \o d, k)
  <1>. DEFINE c == Buf!Copied(buf, w, d)
  <1>1. /\ Len(s) \in Nat /\ Len(d) \in Nat
        /\ \A i \in 1..Len(d) : d[i] \in Byte
    BY ConcatBytes
  <1>2. /\ DOMAIN buf = 0..n - 1
        /\ c = [i \in 0..n - 1 |-> IF w <= i /\ i < w + Len(d) THEN d[i - w + 1] ELSE buf[i]]
    BY DEF Buf!Copied
  <1>3. c \in [0..n - 1 -> Byte]
    <2>. SUFFICES ASSUME NEW i \in 0..n - 1, w <= i, i < w + Len(d)
                  PROVE  d[i - w + 1] \in Byte
      BY <1>2
    <2>1. i - w + 1 \in 1..Len(d)
      BY <1>1
    <2>. QED
      BY <1>1, <2>1
  <1>4. Len(s) = k + (w - r) /\ w - r \in Nat
    BY DEF HoldsBytes
  <1>5. k + ((w + Len(d)) - r) = Len(s \o d)
    <2>1. Len(s \o d) = Len(s) + Len(d)
      BY ConcatBytes
    <2>2. Len(s) + Len(d) = k + ((w + Len(d)) - r)
      BY <1>1, <1>4
    <2>. QED
      BY <2>1, <2>2
  <1>6. ASSUME NEW i \in 0..((w + Len(d)) - r) - 1
        PROVE  c[r + i] = (s \o d)[k + i + 1]
    <2>0. i \in Nat /\ r + i \in 0..n - 1
      BY <1>1
    <2>1. CASE i < w - r
      <3>0. i \in 0..(w - r) - 1
        BY <1>4, <2>0, <2>1
      <3>1. c[r + i] = buf[r + i]
        BY <1>1, <1>2, <2>0, <2>1
      <3>2. buf[r + i] = s[k + i + 1]
        BY <3>0 DEF HoldsBytes
      <3>3. k + i + 1 \in 1..Len(s)
        BY <1>4, <2>0, <2>1
      <3>. QED
        BY <3>1, <3>2, <3>3, ConcatBytes
    <2>2. CASE i >= w - r
      <3>. DEFINE h == (r + i) - w + 1
      <3>1. h \in 1..Len(d)
        BY <1>1, <2>2
      <3>2. c[r + i] = d[h]
        BY <1>1, <1>2, <2>0, <2>2
      <3>3. k + i + 1 = Len(s) + h
        BY <1>1, <1>4, <2>0, <2>2
      <3>4. (s \o d)[Len(s) + h] = d[h]
        BY <3>1, ConcatBytes
      <3>. QED
        BY <3>2, <3>3, <3>4
    <2>3. i < w - r \/ i >= w - r
      BY <1>4, <2>0
    <2>. QED
      BY <2>1, <2>2, <2>3
  <1>. QED
    BY <1>3, <1>5, <1>6 DEF HoldsBytes

-----------------------------------------------------------------------------
(* A resize keeps what the buffer holds.                                   *)
LEMMA GrowHolds ==
  ASSUME NEW n \in Nat, NEW m \in Nat, NEW buf \in [0..n - 1 -> Byte],
         NEW r \in Nat, NEW w \in Nat, NEW k \in Nat, NEW s \in Seq(Byte),
         r <= w, w <= n, n <= m, HoldsBytes(buf, r, w, s, k)
  PROVE  /\ Buf!Resized(buf, m) \in [0..m - 1 -> Byte]
         /\ HoldsBytes(Buf!Resized(buf, m), r, w, s, k)
  <1>. DEFINE grown == Buf!Resized(buf, m)
  <1>0. grown = [i \in 0..m - 1 |-> IF i < n THEN buf[i] ELSE Zero]
    BY DEF Buf!Resized
  <1>1. grown \in [0..m - 1 -> Byte]
    BY <1>0
  <1>2. ASSUME NEW i \in 0..(w - r) - 1
        PROVE  grown[r + i] = buf[r + i]
    <2>1. r + i \in 0..m - 1 /\ r + i < n
      OBVIOUS
    <2>. QED
      BY <1>0, <2>1
  <1>. QED
    BY <1>1, <1>2 DEF HoldsBytes

(* Moving the readable bytes to the front keeps what the buffer holds.     *)
LEMMA SlideHolds ==
  ASSUME NEW n \in Nat, NEW buf \in [0..n - 1 -> Byte],
         NEW r \in Nat, NEW w \in Nat, NEW k \in Nat, NEW s \in Seq(Byte),
         Ordered(n, r, w), HoldsBytes(buf, r, w, s, k)
  PROVE  /\ Buf!Moved(buf, r, w) \in [0..n - 1 -> Byte]
         /\ HoldsBytes(Buf!Moved(buf, r, w), kCheapPrepend, kCheapPrepend + (w - r), s, k)
  <1>. DEFINE p == kCheapPrepend
              moved == Buf!Moved(buf, r, w)
  <1>1. moved = [i \in 0..n - 1 |->
                   IF p <= i /\ i < p + (w - r) THEN buf[r + (i - p)] ELSE buf[i]]
    BY DEF Buf!Moved
  <1>2. ASSUME NEW i \in 0..n - 1, p <= i, i < p + (w - r)
        PROVE  r + (i - p) \in 0..n - 1
    BY <1>2 DEF Ordered
  <1>3. moved \in [0..n - 1 -> Byte]
    BY <1>1, <1>2
  <1>4. /\ (p + (w - r)) - p = w - r
        /\ k + (w - r) = Len(s)
    BY DEF Ordered, HoldsBytes
  <1>5. ASSUME NEW i \in 0..(w - r) - 1
        PROVE  moved[p + i] = s[k + i + 1]
    <2>1. /\ p + i \in 0..n - 1 /\ p <= p + i /\ p + i < p + (w - r)
          /\ (p + i) - p = i
      BY DEF Ordered
    <2>2. moved[p + i] = buf[r + i]
      BY <1>1, <2>1
    <2>. QED
      BY <2>2 DEF HoldsBytes
  <1>. QED
    BY <1>3, <1>4, <1>5 DEF HoldsBytes

-----------------------------------------------------------------------------
(* append(d), in each of its three ways, leaves a buffer in order that     *)
(* holds s followed by d.                                                  *)
LEMMA AppendHolds ==
  ASSUME m_size \in Nat, m_readerIndex \in Nat,
         NEW buf \in [0..m_size - 1 -> Byte], NEW w \in Nat, NEW k \in Nat,
         NEW s \in Seq(Byte), NEW d \in Seq(Byte),
         Ordered(m_size, m_readerIndex, w), HoldsBytes(buf, m_readerIndex, w, s, k),
         Buf!AppendAt(buf, w, d)
  PROVE  /\ m_size' \in Nat /\ m_readerIndex' \in Nat /\ m_writerIndex' \in Nat
         /\ m_buffer' \in [0..m_size' - 1 -> Byte]
         /\ Ordered(m_size', m_readerIndex', m_writerIndex')
         /\ HoldsBytes(m_buffer', m_readerIndex', m_writerIndex', s \o d, k)
  <1>0. Len(d) \in Nat /\ m_readerIndex <= w /\ w <= m_size /\ kCheapPrepend <= m_readerIndex
    BY DEF Ordered
  <1>1. CASE Buf!AppendFits(buf, w, d)
    <2>1. w + Len(d) <= m_size /\ w + Len(d) \in Nat
      BY <1>0, <1>1 DEF Buf!AppendFits
    <2>2. /\ Buf!Copied(buf, w, d) \in [0..m_size - 1 -> Byte]
          /\ HoldsBytes(Buf!Copied(buf, w, d), m_readerIndex, w + Len(d), s \o d, k)
      BY <1>0, <2>1, CopyHolds
    <2>3. Ordered(m_size, m_readerIndex, w + Len(d))
      BY <1>0, <2>1 DEF Ordered
    <2>. QED
      BY <1>1, <2>1, <2>2, <2>3 DEF Buf!AppendFits
  <1>2. CASE Buf!AppendGrows(buf, w, d)
    <2>. DEFINE m == w + Len(d)
                grown == Buf!Resized(buf, m)
    <2>1. m \in Nat /\ m_size <= m /\ w + Len(d) <= m
      BY <1>0, <1>2 DEF Buf!AppendGrows
    <2>2. /\ grown \in [0..m - 1 -> Byte]
          /\ HoldsBytes(grown, m_readerIndex, w, s, k)
      BY <1>0, <2>1, GrowHolds
    <2>3. /\ Buf!Copied(grown, w, d) \in [0..m - 1 -> Byte]
          /\ HoldsBytes(Buf!Copied(grown, w, d), m_readerIndex, w + Len(d), s \o d, k)
      <3>. HIDE DEF grown, m
      <3>. QED
        BY <1>0, <2>1, <2>2, CopyHolds
    <2>4. Ordered(m, m_readerIndex, m)
      BY <1>0, <2>1 DEF Ordered
    <2>. QED
      BY <1>2, <2>1, <2>3, <2>4 DEF Buf!AppendGrows
  <1>3. CASE Buf!AppendSlides(buf, w, d)
    <2>. DEFINE p == kCheapPrepend
                e == p + (w - m_readerIndex)
                moved == Buf!Moved(buf, m_readerIndex, w)
    <2>1. /\ moved \in [0..m_size - 1 -> Byte]
          /\ HoldsBytes(moved, p, e, s, k)
      BY SlideHolds
    <2>2. e \in Nat /\ p <= e /\ e + Len(d) <= m_size /\ e + Len(d) \in Nat
      BY <1>0, <1>3 DEF Buf!AppendSlides, Buf!MustGrow, Buf!prependableBytes
    <2>3. /\ Buf!Copied(moved, e, d) \in [0..m_size - 1 -> Byte]
          /\ HoldsBytes(Buf!Copied(moved, e, d), p, e + Len(d), s \o d, k)
      <3>. HIDE DEF moved, e
      <3>. QED
        BY <2>1, <2>2, CopyHolds
    <2>4. Ordered(m_size, p, e + Len(d))
      BY <1>0, <2>2 DEF Ordered
    <2>5. /\ m_buffer' = Buf!Copied(moved, e, d) /\ m_readerIndex' = p
          /\ m_writerIndex' = e + Len(d) /\ m_size' = m_size
      BY <1>3 DEF Buf!AppendSlides
    <2>. HIDE DEF moved, e
    <2>. QED
      BY <2>2, <2>3, <2>4, <2>5
  <1>. QED
    BY <1>1, <1>2, <1>3 DEF Buf!AppendAt

(* BufferInv in terms of Ordered and HoldsBytes.                                *)
LEMMA InvUnfolds ==
  BufferInv <=> /\ Buf!TypeOK
                /\ Ordered(m_size, m_readerIndex, m_writerIndex)
                /\ HoldsBytes(m_buffer, m_readerIndex, m_writerIndex, put, taken)
  BY DEF BufferInv, Buf!IndicesOrdered, Buf!StreamPreserved, Ordered, HoldsBytes,
     Buf!readableBytes

(* The indices never leave their order, and the buffer is a faithful queue *)
(* of bytes.                                                               *)
THEOREM BufferAlways == Buf!Spec => []BufferInv
  <1>1. Buf!Init => BufferInv
    <2>. SUFFICES ASSUME Buf!Init PROVE BufferInv
      OBVIOUS
    <2>1. m_size \in Nat /\ kCheapPrepend <= m_size
      BY DEF Buf!Init
    <2>2. Buf!readableBytes = 0
      BY DEF Buf!Init, Buf!readableBytes
    <2>3. 0..(Buf!readableBytes - 1) = {}
      BY <2>2
    <2>. QED
      BY <2>1, <2>2, <2>3
         DEF Buf!Init, BufferInv, Buf!TypeOK, Buf!IndicesOrdered, Buf!StreamPreserved
  <1>2. BufferInv /\ [Buf!Next]_(Buf!vars) => BufferInv'
    <2>. SUFFICES ASSUME BufferInv, [Buf!Next]_(Buf!vars)
                  PROVE  BufferInv'
      OBVIOUS
    <2>0. /\ Buf!TypeOK
          /\ Ordered(m_size, m_readerIndex, m_writerIndex)
          /\ HoldsBytes(m_buffer, m_readerIndex, m_writerIndex, put, taken)
      BY InvUnfolds
    <2>1. ASSUME NEW n \in 0..MaxBytes, NEW d \in [1..n -> Byte], Buf!Append_(d)
          PROVE  BufferInv'
      <3>1. d \in Seq(Byte)
        BY DataIsSeq
      <3>2. /\ m_size' \in Nat /\ m_readerIndex' \in Nat /\ m_writerIndex' \in Nat
            /\ m_buffer' \in [0..m_size' - 1 -> Byte]
            /\ Ordered(m_size', m_readerIndex', m_writerIndex')
            /\ HoldsBytes(m_buffer', m_readerIndex', m_writerIndex', put \o d, taken)
        BY <2>0, <2>1, <3>1, AppendHolds DEF Buf!TypeOK, Buf!Append_
      <3>3. put' = put \o d /\ put' \in Seq(Byte) /\ taken' = taken
        BY <2>0, <2>1, <3>1, ConcatBytes DEF Buf!TypeOK, Buf!Append_, Buf!Record
      <3>. QED
        BY <2>0, <3>2, <3>3
           DEF BufferInv, Buf!TypeOK, Buf!IndicesOrdered, Buf!StreamPreserved,
                                Ordered, HoldsBytes, Buf!readableBytes
    <2>2. ASSUME NEW n \in 0..MaxBytes, NEW d \in [1..n -> Byte], Buf!ReadFdFits(d)
          PROVE  BufferInv'
      <3>1. d \in Seq(Byte)
        BY DataIsSeq
      <3>2. Buf!AppendFits(m_buffer, m_writerIndex, d)
        BY <2>0, <2>2, <3>1
           DEF Buf!ReadFdFits, Buf!AppendFits, Buf!writableBytes, Buf!TypeOK
      <3>3. /\ m_size' \in Nat /\ m_readerIndex' \in Nat /\ m_writerIndex' \in Nat
            /\ m_buffer' \in [0..m_size' - 1 -> Byte]
            /\ Ordered(m_size', m_readerIndex', m_writerIndex')
            /\ HoldsBytes(m_buffer', m_readerIndex', m_writerIndex', put \o d, taken)
        BY <2>0, <3>1, <3>2, AppendHolds DEF Buf!TypeOK, Buf!AppendAt
      <3>4. put' = put \o d /\ put' \in Seq(Byte) /\ taken' = taken
        BY <2>0, <2>2, <3>1, ConcatBytes DEF Buf!TypeOK, Buf!ReadFdFits, Buf!Record
      <3>. QED
        BY <2>0, <3>3, <3>4
           DEF BufferInv, Buf!TypeOK, Buf!IndicesOrdered, Buf!StreamPreserved,
                                Ordered, HoldsBytes, Buf!readableBytes
    <2>3. ASSUME NEW n \in 0..MaxBytes, NEW d \in [1..n -> Byte], Buf!ReadFdExtra(d)
          PROVE  BufferInv'
      <3>. DEFINE front == SubSeq(d, 1, Buf!writableBytes)
                  extra == SubSeq(d, Buf!writableBytes + 1, Len(d))
                  buf   == Buf!Copied(m_buffer, m_writerIndex, front)
      <3>1. d \in Seq(Byte) /\ Len(d) \in Nat
        BY DataIsSeq
      <3>2. Buf!writableBytes \in Nat /\ Buf!writableBytes <= Len(d)
        BY <2>0, <2>3, <3>1 DEF Buf!ReadFdExtra, Buf!writableBytes, Buf!TypeOK, Ordered
      <3>3. /\ front \in Seq(Byte) /\ Len(front) = Buf!writableBytes
            /\ extra \in Seq(Byte) /\ front \o extra = d
        BY <3>1, <3>2, SplitData
      <3>4. m_writerIndex + Len(front) = m_size
        BY <2>0, <3>3 DEF Buf!writableBytes, Buf!TypeOK
      <3>5. /\ buf \in [0..m_size - 1 -> Byte]
            /\ HoldsBytes(buf, m_readerIndex, m_size, put \o front, taken)
        <4>. HIDE DEF front
        <4>0. /\ m_size \in Nat /\ m_readerIndex \in Nat /\ m_writerIndex \in Nat
              /\ m_buffer \in [0..m_size - 1 -> Byte]
              /\ put \in Seq(Byte) /\ taken \in Nat
              /\ m_readerIndex <= m_writerIndex /\ m_writerIndex + Len(front) <= m_size
          BY <2>0, <3>4 DEF Buf!TypeOK, Ordered
        <4>1. /\ buf \in [0..m_size - 1 -> Byte]
              /\ HoldsBytes(buf, m_readerIndex, m_writerIndex + Len(front), put \o front, taken)
          BY <2>0, <3>3, <4>0, CopyHolds
        <4>. QED
          BY <3>4, <4>1
      <3>6. put \o front \in Seq(Byte) /\ Ordered(m_size, m_readerIndex, m_size)
        BY <2>0, <3>3, ConcatBytes DEF Buf!TypeOK, Ordered
      <3>7. Buf!AppendAt(buf, m_size, extra)
        BY <2>3 DEF Buf!ReadFdExtra
      <3>8. (put \o front) \o extra = put \o d
        <4>. HIDE DEF front, extra
        <4>0. put \in Seq(Byte) /\ front \in Seq(Byte) /\ extra \in Seq(Byte)
          BY <2>0, <3>3 DEF Buf!TypeOK
        <4>1. (put \o front) \o extra = put \o (front \o extra)
          BY <4>0, ConcatAssociative
        <4>. QED
          BY <3>3, <4>1
      <3>9. /\ m_size' \in Nat /\ m_readerIndex' \in Nat /\ m_writerIndex' \in Nat
            /\ m_buffer' \in [0..m_size' - 1 -> Byte]
            /\ Ordered(m_size', m_readerIndex', m_writerIndex')
            /\ HoldsBytes(m_buffer', m_readerIndex', m_writerIndex', put \o d, taken)
        <4>. HIDE DEF front, extra, buf
        <4>1. /\ m_size' \in Nat /\ m_readerIndex' \in Nat /\ m_writerIndex' \in Nat
              /\ m_buffer' \in [0..m_size' - 1 -> Byte]
              /\ Ordered(m_size', m_readerIndex', m_writerIndex')
              /\ HoldsBytes(m_buffer', m_readerIndex', m_writerIndex', (put \o front) \o extra, taken)
          BY <2>0, <3>3, <3>5, <3>6, <3>7, AppendHolds DEF Buf!TypeOK
        <4>. QED
          BY <3>8, <4>1
      <3>10. put' = put \o d /\ put' \in Seq(Byte) /\ taken' = taken
        BY <2>0, <2>3, <3>1, ConcatBytes DEF Buf!TypeOK, Buf!ReadFdExtra, Buf!Record
      <3>. QED
        BY <2>0, <3>9, <3>10
           DEF BufferInv, Buf!TypeOK, Buf!IndicesOrdered, Buf!StreamPreserved,
                                 Ordered, HoldsBytes, Buf!readableBytes
    <2>4. ASSUME NEW len \in 0..MaxBytes, Buf!Retrieve(len)
          PROVE  BufferInv'
      <3>1. Buf!readableBytes \in Nat
        BY <2>0 DEF Buf!TypeOK, Ordered, Buf!readableBytes
      <3>2. CASE len < Buf!readableBytes
        <4>1. /\ m_readerIndex' = m_readerIndex + len /\ taken' = taken + len
              /\ UNCHANGED <<m_buffer, m_size, m_writerIndex, put>>
          BY <2>4, <3>2 DEF Buf!Retrieve
        <4>2. Buf!TypeOK' /\ Ordered(m_size', m_readerIndex', m_writerIndex')
          BY <2>0, <3>2, <4>1 DEF Buf!TypeOK, Ordered, Buf!readableBytes
        <4>3. taken' + (m_writerIndex' - m_readerIndex') = Len(put')
          BY <2>0, <3>2, <4>1 DEF Buf!TypeOK, HoldsBytes
        <4>4. ASSUME NEW i \in 0..(m_writerIndex' - m_readerIndex') - 1
              PROVE  m_buffer'[m_readerIndex' + i] = put'[taken' + i + 1]
          <5>1. /\ len + i \in 0..(m_writerIndex - m_readerIndex) - 1
                /\ m_readerIndex' + i = m_readerIndex + (len + i)
                /\ taken' + i + 1 = taken + (len + i) + 1
            BY <2>0, <4>1 DEF Buf!TypeOK
          <5>2. m_buffer[m_readerIndex + (len + i)] = put[taken + (len + i) + 1]
            BY <2>0, <5>1 DEF HoldsBytes
          <5>. QED
            BY <4>1, <5>1, <5>2
        <4>. QED
          BY <4>2, <4>3, <4>4
             DEF BufferInv, Buf!IndicesOrdered, Buf!StreamPreserved, Ordered,
                                  Buf!readableBytes
      <3>3. CASE ~(len < Buf!readableBytes)
        <4>1. /\ m_readerIndex' = kCheapPrepend /\ m_writerIndex' = kCheapPrepend
              /\ taken' = taken + Buf!readableBytes
              /\ UNCHANGED <<m_buffer, m_size, put>>
          BY <2>4, <3>3 DEF Buf!Retrieve
        <4>2. Buf!TypeOK' /\ Ordered(m_size', m_readerIndex', m_writerIndex')
          BY <2>0, <3>1, <4>1 DEF Buf!TypeOK, Ordered
        <4>3. Buf!readableBytes' = 0 /\ 0..(Buf!readableBytes' - 1) = {}
          BY <4>1 DEF Buf!readableBytes
        <4>4. taken' + Buf!readableBytes' = Len(put')
          BY <2>0, <3>1, <4>1, <4>3 DEF HoldsBytes, Buf!readableBytes, Buf!TypeOK
        <4>. QED
          BY <4>2, <4>3, <4>4
             DEF BufferInv, Buf!IndicesOrdered, Buf!StreamPreserved, Ordered
      <3>. QED
        BY <3>2, <3>3
    <2>5. CASE UNCHANGED Buf!vars
      BY <2>5 DEF Buf!vars, BufferInv, Buf!TypeOK, Buf!IndicesOrdered,
         Buf!StreamPreserved, Buf!readableBytes
    <2>. QED
      BY <2>1, <2>2, <2>3, <2>4, <2>5 DEF Buf!Next
  <1>. QED
    BY <1>1, <1>2, PTL DEF Buf!Spec

-----------------------------------------------------------------------------
(* The other programs leave the buffer alone.                              *)
LEMMA BufferRuns == Spec => Buf!Spec
  <1>1. Init => Buf!Init
    BY DEF Init
  <1>2. [Next]_vars => [Buf!Next]_(Buf!vars)
    BY DEF Next, BufferNext, HttpNext, TimersNext, ScheduleNext, StoreNext, TomatoNext,
           TurnsNext, StackNext, vars, serverVars, bufferVars, Buf!vars
  <1>. QED
    BY <1>1, <1>2, PTL DEF Spec, Buf!Spec

(* Type correctness of every state of Buffer.                              *)
THEOREM BufferTypeCorrect == Spec => []Buf!TypeOK
  <1>1. BufferInv => Buf!TypeOK
    BY DEF BufferInv
  <1>. QED
    BY <1>1, BufferRuns, BufferAlways, PTL

(* No operation writes past the vector, lets the reader overtake the       *)
(* writer or eats into the prependable zone.                               *)
THEOREM IndicesStayOrdered == Spec => []IndicesOrdered
  <1>1. BufferInv => IndicesOrdered
    BY DEF BufferInv, IndicesOrdered
  <1>. QED
    BY <1>1, BufferRuns, BufferAlways, PTL

(* Every byte that was put in is read once, in order, whichever way it     *)
(* went in.                                                                *)
THEOREM BytesStayInOrder == Spec => []StreamPreserved
  <1>1. BufferInv => StreamPreserved
    BY DEF BufferInv, StreamPreserved
  <1>. QED
    BY <1>1, BufferRuns, BufferAlways, PTL
=============================================================================
