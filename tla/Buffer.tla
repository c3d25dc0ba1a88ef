-------------------------------- MODULE Buffer --------------------------------
(***************************************************************************)
(* The input and output buffer of a connection (include/buffer.h,          *)
(* common/buffer.cpp): a vector with a prependable zone, the bytes that    *)
(* wait to be read, and room to write, delimited by two indices.           *)
(*                                                                         *)
(*   0 <= m_readerIndex <= m_writerIndex <= m_buffer.size()                *)
(*                                                                         *)
(* The vector is a function on 0..m_size-1.  Lengths stay far below 2^31,  *)
(* so makeSpace's int parameter holds them exactly.                        *)
(***************************************************************************)
EXTENDS Integers, Sequences

CONSTANTS Byte,           \* the bytes
          Zero,           \* what vector::resize fills with
          kCheapPrepend,  \* 8
          kInitialSize,   \* 1024
          ExtraLen,       \* size of readFd's stack buffer, 65536
          MaxBytes        \* bound: bytes put in over the buffer's life

VARIABLES m_buffer, m_size, m_readerIndex, m_writerIndex,
          put,     \* history: every byte put in, in order
          taken    \* history: how many of them have been retrieved

vars == <<m_buffer, m_size, m_readerIndex, m_writerIndex, put, taken>>

readableBytes == m_writerIndex - m_readerIndex
writableBytes == m_size - m_writerIndex
prependableBytes == m_readerIndex

Init ==
  /\ m_size = kCheapPrepend + kInitialSize
  /\ m_buffer = [i \in 0..m_size - 1 |-> Zero]
  /\ m_readerIndex = kCheapPrepend
  /\ m_writerIndex = kCheapPrepend
  /\ put = <<>>
  /\ taken = 0

-----------------------------------------------------------------------------
(* Copy d into buf from index w on.                                        *)
Copied(buf, w, d) ==
  [i \in DOMAIN buf |-> IF w <= i /\ i < w + Len(d) THEN d[i - w + 1] ELSE buf[i]]

(* vector::resize to size n, and the move of the readable bytes, between r *)
(* and w, to the front.                                                    *)
Resized(buf, n) == [i \in 0..n - 1 |-> IF i \in DOMAIN buf THEN buf[i] ELSE Zero]
Moved(buf, r, w) ==
  [i \in DOMAIN buf |-> IF kCheapPrepend <= i /\ i < kCheapPrepend + (w - r)
                        THEN buf[r + (i - kCheapPrepend)] ELSE buf[i]]

(* Mutant: the prependable zone is counted as room.                        *)
MustGrowNoPrepend(w, len) == (m_size - w) + prependableBytes < len

(* makeSpace's test: not even the consumed part of the front would make    *)
(* enough room behind the writer index w.                                  *)
MustGrow(w, len) == (m_size - w) + prependableBytes < len + kCheapPrepend

(* append(d) on contents buf with the writer index at w: there is room ... *)
AppendFits(buf, w, d) ==
  /\ m_size - w >= Len(d)
  /\ m_buffer' = Copied(buf, w, d)
  /\ m_writerIndex' = w + Len(d)
  /\ UNCHANGED <<m_size, m_readerIndex>>

(* ... or makeSpace resizes the vector ...                                 *)
AppendGrows(buf, w, d) ==
  /\ m_size - w < Len(d)
  /\ MustGrow(w, Len(d))
  /\ m_size' = w + Len(d)
  /\ m_buffer' = Copied(Resized(buf, w + Len(d)), w, d)
  /\ m_writerIndex' = w + Len(d)
  /\ UNCHANGED m_readerIndex

(* ... or it moves the readable bytes to the front.                        *)
AppendSlides(buf, w, d) ==
  LET end == kCheapPrepend + (w - m_readerIndex)
  IN  /\ m_size - w < Len(d)
      /\ ~MustGrow(w, Len(d))
      /\ m_buffer' = Copied(Moved(buf, m_readerIndex, w), end, d)
      /\ m_readerIndex' = kCheapPrepend
      /\ m_writerIndex' = end + Len(d)
      /\ UNCHANGED m_size

AppendAt(buf, w, d) ==
  AppendFits(buf, w, d) \/ AppendGrows(buf, w, d) \/ AppendSlides(buf, w, d)

Record(d) == /\ Len(put) + Len(d) <= MaxBytes
             /\ put' = put \o d
             /\ UNCHANGED taken

Append_(d) == AppendAt(m_buffer, m_writerIndex, d) /\ Record(d)

(* readFd when the descriptor has d: readv fills the room behind the       *)
(* writer index, and the rest comes through the stack buffer, which is     *)
(* offered only when the room is smaller than it.                          *)
ReadFdFits(d) ==
  /\ Len(d) <= writableBytes
  /\ m_buffer' = Copied(m_buffer, m_writerIndex, d)
  /\ m_writerIndex' = m_writerIndex + Len(d)
  /\ UNCHANGED <<m_size, m_readerIndex>>
  /\ Record(d)

(* Mutant: m_writerIndex is not moved to the end before the append.        *)
ExtraOverwrites(d) ==
  /\ Len(d) > writableBytes
  /\ writableBytes < ExtraLen
  /\ Len(d) <= writableBytes + ExtraLen
  /\ LET first == SubSeq(d, 1, writableBytes)
         extra == SubSeq(d, writableBytes + 1, Len(d))
     IN  AppendAt(Copied(m_buffer, m_writerIndex, first), m_writerIndex, extra)
  /\ Record(d)

ReadFdExtra(d) ==
  /\ Len(d) > writableBytes
  /\ writableBytes < ExtraLen
  /\ Len(d) <= writableBytes + ExtraLen
  /\ LET first == SubSeq(d, 1, writableBytes)
         extra == SubSeq(d, writableBytes + 1, Len(d))
     IN  AppendAt(Copied(m_buffer, m_writerIndex, first), m_size, extra)
  /\ Record(d)

(* retrieve(len); retrieving everything resets both indices.               *)
Retrieve(len) ==
  /\ IF len < readableBytes
     THEN /\ m_readerIndex' = m_readerIndex + len
          /\ taken' = taken + len
          /\ UNCHANGED m_writerIndex
     ELSE /\ m_readerIndex' = kCheapPrepend
          /\ m_writerIndex' = kCheapPrepend
          /\ taken' = taken + readableBytes
  /\ UNCHANGED <<m_buffer, m_size, put>>

Next ==
  \/ \E n \in 0..MaxBytes : \E d \in [1..n -> Byte] :
       Append_(d) \/ ReadFdFits(d) \/ ReadFdExtra(d)
  \/ \E len \in 0..MaxBytes : Retrieve(len)

Spec == Init /\ [][Next]_vars

-----------------------------------------------------------------------------
(* Properties.                                                             *)

TypeOK ==
  /\ m_size \in Nat
  /\ m_buffer \in [0..m_size - 1 -> Byte]
  /\ m_readerIndex \in Nat
  /\ m_writerIndex \in Nat
  /\ put \in Seq(Byte)
  /\ taken \in Nat

(* The picture in buffer.h, with the prependable zone never smaller than   *)
(* kCheapPrepend: no operation writes past the vector or lets the reader   *)
(* overtake the writer.                                                    *)
IndicesOrdered ==
  /\ kCheapPrepend <= m_readerIndex
  /\ m_readerIndex <= m_writerIndex
  /\ m_writerIndex <= m_size

(* What can be read is exactly what was put in and not yet retrieved, in   *)
(* that order, whether it went in directly, across a resize, across a move *)
(* to the front, or through readFd's stack buffer.                         *)
StreamPreserved ==
  /\ taken + readableBytes = Len(put)
  /\ \A i \in 0..readableBytes - 1 : m_buffer[m_readerIndex + i] = put[taken + i + 1]
=============================================================================
