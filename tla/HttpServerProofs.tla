--------------------------- MODULE HttpServerProofs ---------------------------
(***************************************************************************)
(* Proofs about HttpServer for streams of any length, cut into segments    *)
(* anywhere.                                                               *)
(***************************************************************************)
EXTENDS Programs, SequenceTheorems, WellFoundedInduction, TLAPS

USE HttpConstants DEF HttpConstants

-----------------------------------------------------------------------------
(* A sequence of pieces, and the segments that arrive, by their elements.  *)
LEMMA PieceOf ==
  ASSUME NEW s \in Seq(Http!Pieces)
  PROVE  Len(s) \in Nat /\ DOMAIN s = 1..Len(s) /\ \A i \in 1..Len(s) : s[i] \in Http!Pieces
  OBVIOUS

(* A set of numbers has a smallest one.                                    *)
LEMMA LeastIndex ==
  ASSUME NEW I \in SUBSET Nat, I # {}
  PROVE  \E x \in I : \A y \in I : x =< y
  <1>. DEFINE R == OpToRel(<, Nat)
  <1>1. IsWellFoundedOn(R, Nat)
    BY NatLessThanWellFounded
  <1>2. PICK x \in I : \A y \in I : ~(<<y, x>> \in R)
    <2>. HIDE DEF R
    <2>. QED
      BY <1>1, WFMin
  <1>3. ASSUME NEW y \in I
        PROVE  x =< y
    <2>1. x \in Nat /\ y \in Nat /\ ~(y < x)
      BY <1>2 DEF OpToRel
    <2>. QED
      BY <2>1
  <1>. QED
    BY <1>3

(* The first CRLF of a buffer that has one.                                *)
LEMMA FirstCRLF ==
  ASSUME NEW buf \in Seq(Http!Pieces), Http!HasLine(buf)
  PROVE  /\ Http!CRLF(buf) \in 1..Len(buf) /\ buf[Http!CRLF(buf)] = "crlf"
         /\ \A i \in 1..Http!CRLF(buf) - 1 : buf[i] # "crlf"
  <1>. DEFINE I == {i \in 1..Len(buf) : buf[i] = "crlf"}
  <1>0. Len(buf) \in Nat /\ DOMAIN buf = 1..Len(buf)
    BY PieceOf
  <1>1. I # {}
    BY <1>0 DEF Http!HasLine, Http!ToSet
  <1>2. I \in SUBSET Nat
    BY <1>0
  <1>3. Http!CRLF(buf) = CHOOSE x \in I : \A y \in I : x =< y
    BY <1>1 DEF Http!CRLF, Http!SelectInSeq, Http!Min
  <1>4. \E x \in I : \A y \in I : x =< y
    <2>. HIDE DEF I
    <2>. QED
      BY <1>1, <1>2, LeastIndex
  <1>5. Http!CRLF(buf) \in I /\ \A y \in I : Http!CRLF(buf) =< y
    BY <1>3, <1>4
  <1>. QED
    BY <1>0, <1>5

(* What retrieveUntil leaves, and the line before it.                      *)
LEMMA LineAndRest ==
  ASSUME NEW buf \in Seq(Http!Pieces), Http!HasLine(buf)
  PROVE  /\ Http!Line(buf) \in Seq(Http!Pieces) /\ Len(Http!Line(buf)) = Http!CRLF(buf) - 1
         /\ \A i \in 1..Http!CRLF(buf) - 1 : Http!Line(buf)[i] = buf[i]
         /\ Http!RetrieveLine(buf) \in Seq(Http!Pieces)
         /\ Len(Http!RetrieveLine(buf)) = Len(buf) - Http!CRLF(buf)
         /\ \A i \in 1..Len(buf) - Http!CRLF(buf) :
              Http!RetrieveLine(buf)[i] = buf[Http!CRLF(buf) + i]
  <1>. DEFINE c == Http!CRLF(buf)
  <1>0. Len(buf) \in Nat /\ \A i \in 1..Len(buf) : buf[i] \in Http!Pieces
    BY PieceOf
  <1>1. c \in 1..Len(buf)
    BY FirstCRLF
  <1>. HIDE DEF c
  <1>2. /\ SubSeq(buf, 1, c - 1) \in Seq(Http!Pieces)
        /\ Len(SubSeq(buf, 1, c - 1)) = c - 1
        /\ \A i \in 1..c - 1 : SubSeq(buf, 1, c - 1)[i] = buf[i]
    BY <1>0, <1>1, SubSeqProperties
  <1>3. /\ SubSeq(buf, c + 1, Len(buf)) \in Seq(Http!Pieces)
        /\ Len(SubSeq(buf, c + 1, Len(buf))) = Len(buf) - c
        /\ \A i \in 1..Len(buf) - c : SubSeq(buf, c + 1, Len(buf))[i] = buf[c + i]
    BY <1>0, <1>1, SubSeqProperties
  <1>. QED
    BY <1>2, <1>3 DEF Http!Line, Http!RetrieveLine, c

(* A segment arrives.                                                      *)
LEMMA Arrives ==
  ASSUME NEW s \in Seq(Http!Pieces), NEW t \in Seq(Http!Pieces)
  PROVE  /\ s \o t \in Seq(Http!Pieces) /\ Len(s \o t) = Len(s) + Len(t)
         /\ Len(s) \in Nat /\ Len(t) \in Nat
         /\ \A i \in 1..Len(s) : (s \o t)[i] = s[i]
         /\ \A i \in 1..Len(t) : (s \o t)[Len(s) + i] = t[i]
  OBVIOUS

(* What a segment is.                                                      *)
LEMMA SegmentIsSeq ==
  ASSUME NEW n \in Nat, NEW segment \in [1..n -> Http!Pieces]
  PROVE  segment \in Seq(Http!Pieces)
  OBVIOUS

-----------------------------------------------------------------------------
(* Type correctness of every state of HttpServer.                          *)
LEMMA HttpTypes == Http!Spec => []Http!TypeOK
  <1>1. Http!Init => Http!TypeOK
    BY EmptySeq DEF Http!Init, Http!TypeOK
  <1>2. Http!TypeOK /\ [Http!Next]_(Http!vars) => Http!TypeOK'
    <2>. SUFFICES ASSUME Http!TypeOK, [Http!Next]_(Http!vars)
                  PROVE  Http!TypeOK'
      OBVIOUS
    <2>0. Len(received) \in Nat
      BY PieceOf DEF Http!TypeOK
    <2>1. CASE Http!NoLine
      BY <2>1 DEF Http!NoLine, Http!TypeOK, Http!context
    <2>2. CASE Http!RequestLine
      <3>1. Http!RetrieveLine(m_inputBuffer) \in Seq(Http!Pieces)
        BY <2>2, LineAndRest DEF Http!RequestLine, Http!TypeOK
      <3>2. ASSUME Http!processRequestLine(Http!Line(m_inputBuffer))
            PROVE  Head(m_inputBuffer) \in Http!RequestLines
        <4>. DEFINE b == m_inputBuffer
        <4>1. PICK r \in Http!RequestLines : Http!Line(b) = <<r>>
          BY <3>2 DEF Http!processRequestLine
        <4>2. /\ b \in Seq(Http!Pieces) /\ Http!CRLF(b) \in 1..Len(b)
              /\ Len(Http!Line(b)) = Http!CRLF(b) - 1
              /\ \A i \in 1..Http!CRLF(b) - 1 : Http!Line(b)[i] = b[i]
          BY <2>2, LineAndRest, FirstCRLF DEF Http!RequestLine, Http!TypeOK
        <4>3. Len(<<r>>) = 1 /\ <<r>>[1] = r
          OBVIOUS
        <4>4. Http!CRLF(b) = 2 /\ Http!Line(b)[1] = b[1]
          BY <4>1, <4>2, <4>3
        <4>. QED
          BY <4>1, <4>2, <4>3, <4>4
      <3>. QED
        BY <2>2, <3>1, <3>2 DEF Http!RequestLine, Http!TypeOK
    <2>3. CASE Http!Headers
      <3>1. Http!RetrieveLine(m_inputBuffer) \in Seq(Http!Pieces)
        BY <2>3, LineAndRest DEF Http!Headers, Http!TypeOK
      <3>. QED
        BY <2>3, <3>1 DEF Http!Headers, Http!TypeOK
    <2>4. CASE Http!Respond
      <3>1. \A s \in {"200", "404", "400"} : Http!Send(s) \in Seq({"200", "404", "400"})
        BY AppendProperties DEF Http!Send, Http!TypeOK
      <3>2. Http!Status(m_request) \in {"200", "404", "400"}
        BY DEF Http!Status
      <3>. QED
        BY <2>4, <3>1, <3>2 DEF Http!Respond, Http!TypeOK
    <2>5. ASSUME NEW n \in 1..MaxPieces - Len(received), NEW segment \in [1..n -> Http!Pieces],
                 Http!OnMessage(segment)
          PROVE  Http!TypeOK'
      <3>1. segment \in Seq(Http!Pieces)
        BY <2>0, SegmentIsSeq
      <3>2. received \o segment \in Seq(Http!Pieces) /\ m_inputBuffer \o segment \in Seq(Http!Pieces)
        BY <3>1, Arrives DEF Http!TypeOK
      <3>. QED
        BY <2>5, <3>2 DEF Http!OnMessage, Http!TypeOK
    <2>6. CASE UNCHANGED Http!vars
      BY <2>6 DEF Http!vars, Http!context, Http!TypeOK
    <2>. QED
      BY <2>1, <2>2, <2>3, <2>4, <2>5, <2>6 DEF Http!Next, Http!ServerStep
  <1>. QED
    BY <1>1, <1>2, PTL DEF Http!Spec


-----------------------------------------------------------------------------
(* The framing, element by element: buf is the end of s, from the          *)
(* beginning of a line on.                                                 *)
Framed(s, buf) ==
  /\ Len(buf) <= Len(s)
  /\ \A i \in 1..Len(buf) : buf[i] = s[(Len(s) - Len(buf)) + i]
  /\ Len(s) - Len(buf) > 0 => s[Len(s) - Len(buf)] = "crlf"

(* The two ways to say it agree.                                           *)
LEMMA FramedUnfolds ==
  ASSUME Http!TypeOK
  PROVE  Http!FramedByLines <=> Framed(received, m_inputBuffer)
  <1>. DEFINE n == Len(received)
              cut == n - Len(m_inputBuffer)
              tail == SubSeq(received, cut + 1, n)
  <1>0. /\ n \in Nat /\ Len(m_inputBuffer) \in Nat /\ m_inputBuffer \in Seq(Http!Pieces)
        /\ \A i \in 1..n : received[i] \in Http!Pieces
    BY PieceOf DEF Http!TypeOK
  <1>1. ASSUME cut >= 0
        PROVE  /\ tail \in Seq(Http!Pieces) /\ Len(tail) = Len(m_inputBuffer)
               /\ \A i \in 1..Len(m_inputBuffer) : tail[i] = received[cut + i]
    <2>. HIDE DEF n
    <2>. QED
      BY <1>0, <1>1, SubSeqProperties
  <1>2. ASSUME cut >= 0
        PROVE  m_inputBuffer = tail <=>
                 \A i \in 1..Len(m_inputBuffer) : m_inputBuffer[i] = received[cut + i]
    <2>. HIDE DEF tail, cut, n
    <2>1. ASSUME \A i \in 1..Len(m_inputBuffer) : m_inputBuffer[i] = received[cut + i]
          PROVE  m_inputBuffer = tail
      BY <1>0, <1>1, <1>2, <2>1, SeqEqual
    <2>. QED
      BY <1>1, <1>2, <2>1
  <1>3. cut >= 0 <=> Len(m_inputBuffer) <= n
    BY <1>0
  <1>4. Http!FramedByLines <=> /\ cut >= 0
                               /\ m_inputBuffer = tail
                               /\ cut > 0 => received[cut] = "crlf"
    BY DEF Http!FramedByLines
  <1>5. Framed(received, m_inputBuffer) <=>
          /\ Len(m_inputBuffer) <= n
          /\ \A i \in 1..Len(m_inputBuffer) : m_inputBuffer[i] = received[cut + i]
          /\ cut > 0 => received[cut] = "crlf"
    BY DEF Framed
  <1>. HIDE DEF tail, cut, n
  <1>. QED
    BY <1>2, <1>3, <1>4, <1>5

(* A line is taken off the buffer.                                         *)
LEMMA RetrieveFrames ==
  ASSUME NEW s \in Seq(Http!Pieces), NEW buf \in Seq(Http!Pieces), Framed(s, buf), Http!HasLine(buf)
  PROVE  Framed(s, Http!RetrieveLine(buf))
  <1>. DEFINE c == Http!CRLF(buf)
              rest == Http!RetrieveLine(buf)
              cut == Len(s) - Len(buf)
  <1>0. Len(s) \in Nat /\ Len(buf) \in Nat
    BY PieceOf
  <1>1. c \in 1..Len(buf) /\ buf[c] = "crlf"
    BY FirstCRLF
  <1>2. Len(rest) = Len(buf) - c /\ \A i \in 1..Len(buf) - c : rest[i] = buf[c + i]
    BY LineAndRest
  <1>3. cut >= 0 /\ cut \in Nat /\ \A i \in 1..Len(buf) : buf[i] = s[cut + i]
    BY <1>0 DEF Framed
  <1>. HIDE DEF c, rest
  <1>4. Len(s) - Len(rest) = cut + c
    BY <1>0, <1>1, <1>2
  <1>. HIDE DEF cut
  <1>5. ASSUME NEW i \in 1..Len(rest)
        PROVE  rest[i] = s[(cut + c) + i]
    <2>1. i \in 1..Len(buf) - c /\ c + i \in 1..Len(buf) /\ cut + (c + i) = (cut + c) + i
      BY <1>0, <1>1, <1>2, <1>3
    <2>. QED
      BY <1>2, <1>3, <2>1
  <1>6. s[cut + c] = "crlf"
    BY <1>1, <1>3
  <1>7. Len(rest) <= Len(s)
    BY <1>0, <1>1, <1>2, <1>3 DEF cut
  <1>. QED
    BY <1>4, <1>5, <1>6, <1>7 DEF Framed, rest

(* A segment is added to both.                                             *)
LEMMA ArrivalFrames ==
  ASSUME NEW s \in Seq(Http!Pieces), NEW buf \in Seq(Http!Pieces), NEW t \in Seq(Http!Pieces),
         Framed(s, buf)
  PROVE  Framed(s \o t, buf \o t)
  <1>. DEFINE S == s \o t
              B == buf \o t
              cut == Len(s) - Len(buf)
  <1>1. /\ Len(S) = Len(s) + Len(t) /\ Len(s) \in Nat /\ Len(t) \in Nat
        /\ \A i \in 1..Len(s) : S[i] = s[i]
        /\ \A i \in 1..Len(t) : S[Len(s) + i] = t[i]
    BY Arrives
  <1>2. /\ Len(B) = Len(buf) + Len(t) /\ Len(buf) \in Nat
        /\ \A i \in 1..Len(buf) : B[i] = buf[i]
        /\ \A i \in 1..Len(t) : B[Len(buf) + i] = t[i]
    BY Arrives
  <1>3. /\ Len(buf) <= Len(s) /\ cut \in Nat
        /\ \A i \in 1..Len(buf) : buf[i] = s[cut + i]
        /\ cut > 0 => s[cut] = "crlf"
    BY <1>1, <1>2 DEF Framed
  <1>. HIDE DEF S, B
  <1>4. Len(S) - Len(B) = cut /\ Len(B) <= Len(S)
    BY <1>1, <1>2, <1>3
  <1>5. ASSUME NEW i \in 1..Len(B)
        PROVE  B[i] = S[cut + i]
    <2>1. CASE i <= Len(buf)
      <3>1. i \in 1..Len(buf) /\ cut + i \in 1..Len(s)
        BY <1>1, <1>2, <1>3, <2>1
      <3>. QED
        BY <1>1, <1>2, <1>3, <3>1
    <2>2. CASE i > Len(buf)
      <3>. DEFINE h == i - Len(buf)
      <3>1. h \in 1..Len(t) /\ i = Len(buf) + h /\ cut + i = Len(s) + h
        BY <1>1, <1>2, <1>3, <2>2
      <3>. HIDE DEF h
      <3>. QED
        BY <1>1, <1>2, <3>1
    <2>. QED
      BY <1>2, <2>1, <2>2
  <1>. HIDE DEF cut
  <1>6. ASSUME cut > 0
        PROVE  S[cut] = "crlf"
    <2>1. cut <= Len(s)
      BY <1>1, <1>2, <1>3 DEF cut
    <2>. QED
      BY <1>1, <1>3, <1>6, <2>1
  <1>. QED
    BY <1>4, <1>5, <1>6 DEF Framed, S, B

(* Whatever the segmentation, the buffer is the end of the stream, from    *)
(* the beginning of a line on: no byte is skipped and no line is cut.      *)
LEMMA FramedAlways == Http!Spec => []Http!FramedByLines
  <1>. DEFINE F == Framed(received, m_inputBuffer)
  <1>1. Http!Init => F
    BY EmptySeq DEF Http!Init, Framed
  <1>2. Http!TypeOK /\ Http!TypeOK' /\ F /\ [Http!Next]_(Http!vars) => F'
    <2>. SUFFICES ASSUME Http!TypeOK, F, [Http!Next]_(Http!vars)
                  PROVE  F'
      OBVIOUS
    <2>0. received \in Seq(Http!Pieces) /\ m_inputBuffer \in Seq(Http!Pieces) /\ Len(received) \in Nat
      BY PieceOf DEF Http!TypeOK
    <2>1. CASE UNCHANGED <<received, m_inputBuffer>>
      BY <2>1
    <2>2. CASE /\ Http!HasLine(m_inputBuffer)
               /\ m_inputBuffer' = Http!RetrieveLine(m_inputBuffer) /\ UNCHANGED received
      BY <2>0, <2>2, RetrieveFrames
    <2>3. ASSUME NEW n \in 1..MaxPieces - Len(received), NEW segment \in [1..n -> Http!Pieces],
                 Http!OnMessage(segment)
          PROVE  F'
      <3>1. segment \in Seq(Http!Pieces)
        BY <2>0, SegmentIsSeq
      <3>. QED
        BY <2>0, <2>3, <3>1, ArrivalFrames DEF Http!OnMessage
    <2>. QED
      BY <2>1, <2>2, <2>3
         DEF Http!Next, Http!ServerStep, Http!NoLine, Http!RequestLine, Http!Headers,
             Http!Respond, Http!vars, Http!context
  <1>3. Http!TypeOK /\ F => Http!FramedByLines
    BY FramedUnfolds
  <1>. QED
    BY <1>1, <1>2, <1>3, HttpTypes, PTL DEF Http!Spec


-----------------------------------------------------------------------------
(* s holds a request of path r: its request line at i, from the start of a *)
(* line, and a line without a colon between the CRLFs at b and e.          *)
Whole(s, r) ==
  \E i, b, e \in 1..Len(s) :
    /\ i > 1 => s[i - 1] = "crlf"
    /\ i + 1 <= b /\ b < e
    /\ s[i] = r /\ s[i + 1] = "crlf" /\ s[b] = "crlf" /\ s[e] = "crlf"
    /\ \A x \in b + 1..e - 1 : s[x] # "crlf" /\ s[x] # "header"

(* s holds a request line of path r that ends before or at n.              *)
Started(s, n, r) ==
  \E i \in 1..n :
    /\ i > 1 => s[i - 1] = "crlf"
    /\ i + 1 <= n /\ s[i] = r /\ s[i + 1] = "crlf"

(* A request that has arrived remains one as more arrives.                 *)
LEMMA WholeStays ==
  ASSUME NEW s \in Seq(Http!Pieces), NEW t \in Seq(Http!Pieces), NEW r, Whole(s, r)
  PROVE  Whole(s \o t, r)
  <1>. DEFINE S == s \o t
  <1>1. /\ Len(S) = Len(s) + Len(t) /\ Len(s) \in Nat /\ Len(t) \in Nat
        /\ \A i \in 1..Len(s) : S[i] = s[i]
    BY Arrives
  <1>2. PICK i, b, e \in 1..Len(s) :
          /\ i > 1 => s[i - 1] = "crlf"
          /\ i + 1 <= b /\ b < e
          /\ s[i] = r /\ s[i + 1] = "crlf" /\ s[b] = "crlf" /\ s[e] = "crlf"
          /\ \A x \in b + 1..e - 1 : s[x] # "crlf" /\ s[x] # "header"
    BY DEF Whole
  <1>. HIDE DEF S
  <1>3. /\ i \in 1..Len(S) /\ b \in 1..Len(S) /\ e \in 1..Len(S)
        /\ i > 1 => S[i - 1] = "crlf"
        /\ S[i] = r /\ S[i + 1] = "crlf" /\ S[b] = "crlf" /\ S[e] = "crlf"
    BY <1>1, <1>2
  <1>4. ASSUME NEW x \in b + 1..e - 1
        PROVE  S[x] # "crlf" /\ S[x] # "header"
    BY <1>1, <1>2
  <1>. QED
    BY <1>2, <1>3, <1>4 DEF Whole, S

(* A request in the stream, in the words of ResponseMatchesRequest.        *)
LEMMA WholeBegins ==
  ASSUME NEW s \in Seq(Http!Pieces), NEW r, Whole(s, r)
  PROVE  \E i \in 1..Len(s) :
           /\ i > 1 => s[i - 1] = "crlf"
           /\ Http!BeginsWithRequest(SubSeq(s, i, Len(s)), r)
  <1>1. PICK i, b, e \in 1..Len(s) :
          /\ i > 1 => s[i - 1] = "crlf"
          /\ i + 1 <= b /\ b < e
          /\ s[i] = r /\ s[i + 1] = "crlf" /\ s[b] = "crlf" /\ s[e] = "crlf"
          /\ \A x \in b + 1..e - 1 : s[x] # "crlf" /\ s[x] # "header"
    BY DEF Whole
  <1>. DEFINE t == SubSeq(s, i, Len(s))
              B == (b - i) + 1
              E == (e - i) + 1
  <1>0. Len(s) \in Nat /\ \A h \in 1..Len(s) : s[h] \in Http!Pieces
    BY PieceOf
  <1>2. /\ Len(t) = (Len(s) - i) + 1
        /\ \A h \in 1..(Len(s) - i) + 1 : t[h] = s[i + h - 1]
    BY <1>0, SubSeqProperties
  <1>. HIDE DEF t
  <1>3. /\ Len(t) >= 2 /\ t[1] = r /\ t[2] = "crlf"
        /\ B \in Http!Lines(t) /\ E \in Http!Lines(t) /\ 2 <= B /\ B < E
        /\ B \in Int /\ E \in Int
    <2>1. /\ 1 \in 1..(Len(s) - i) + 1 /\ i + 1 - 1 = i
          /\ 2 \in 1..(Len(s) - i) + 1 /\ i + 2 - 1 = i + 1
          /\ B \in 1..(Len(s) - i) + 1 /\ i + B - 1 = b
          /\ E \in 1..(Len(s) - i) + 1 /\ i + E - 1 = e
          /\ 2 <= B /\ B < E
      BY <1>0, <1>1
    <2>. HIDE DEF B, E
    <2>2. t[1] = r /\ t[2] = "crlf" /\ t[B] = "crlf" /\ t[E] = "crlf"
      BY <1>1, <1>2, <2>1
    <2>3. Len(t) >= 2 /\ B \in 1..Len(t) /\ E \in 1..Len(t) /\ B \in Int /\ E \in Int
      BY <1>0, <1>2, <2>1
    <2>. QED
      BY <2>1, <2>2, <2>3 DEF Http!Lines
  <1>4. ASSUME NEW x \in B + 1..E - 1
        PROVE  t[x] # "crlf" /\ t[x] # "header"
    <2>1. x \in 1..(Len(s) - i) + 1 /\ i + x - 1 \in b + 1..e - 1
      BY <1>0, <1>1
    <2>. QED
      BY <1>1, <1>2, <2>1
  <1>. HIDE DEF B, E
  <1>5. \A x \in Http!Lines(t) : x \in Int /\ (x < E => x <= B)
    BY <1>0, <1>2, <1>3, <1>4 DEF Http!Lines
  <1>. DEFINE last == CHOOSE y \in Http!Lines(t) : y < E /\ \A x \in Http!Lines(t) : x < E => x <= y
  <1>6. last = B
    <2>1. \E y \in Http!Lines(t) : y < E /\ \A x \in Http!Lines(t) : x < E => x <= y
      BY <1>3, <1>5
    <2>2. last \in Http!Lines(t) /\ last < E /\ \A x \in Http!Lines(t) : x < E => x <= last
      BY <2>1
    <2>. HIDE DEF last
    <2>3. last <= B /\ B <= last /\ last \in Int
      BY <1>3, <1>5, <2>2
    <2>. QED
      BY <1>3, <2>3
  <1>7. "header" \notin {t[x] : x \in last + 1..E - 1}
    <2>1. \A x \in last + 1..E - 1 : t[x] # "header"
      <3>. HIDE DEF last
      <3>. QED
        BY <1>4, <1>6
    <2>. HIDE DEF last
    <2>. QED
      BY <2>1
  <1>8. E \in Http!Lines(t) \ {2}
    BY <1>3
  <1>9. Http!BeginsWithRequest(t, r)
    BY <1>3, <1>7, <1>8 DEF Http!BeginsWithRequest
  <1>. QED
    BY <1>1, <1>9 DEF t

(* The context of parseRequest and the answers, against the stream.        *)
Consumed == Len(received) - Len(m_inputBuffer)

(* What the context says of the stream: the request line it has kept came  *)
(* first, and a request is complete when the state says so.                *)
ContextInv ==
  /\ httpPc # "idle" /\ m_state = "kExpectHeaders" =>
       m_request \in Http!RequestLines /\ Started(received, Consumed, m_request)
  /\ m_state = "kGotAll" =>
       httpPc = "parsed" /\ m_request \in Http!RequestLines /\ Whole(received, m_request)

(* No answer while connected, and at most one in all, to a whole request.  *)
AnswerInv ==
  /\ connState = "kConnected" => sent = <<>>
  /\ Len(sent) <= 1
  /\ \A r \in Http!RequestLines : sent = <<Http!Status(r)>> => Whole(received, r)

(* Accepting a request line starts a request.                              *)
LEMMA LineStarts ==
  ASSUME Http!TypeOK, Framed(received, m_inputBuffer), ContextInv, Http!RequestLine
  PROVE  ContextInv'
  <1>. DEFINE b == m_inputBuffer
              n == Consumed
  <1>0. /\ received \in Seq(Http!Pieces) /\ b \in Seq(Http!Pieces)
        /\ Len(received) \in Nat /\ Len(b) \in Nat /\ Http!HasLine(b)
    BY PieceOf DEF Http!TypeOK, Http!RequestLine
  <1>1. n \in Nat /\ n = Len(received) - Len(b)
        /\ (\A i \in 1..Len(b) : b[i] = received[n + i])
        /\ (n > 0 => received[n] = "crlf")
    BY <1>0 DEF Framed, Consumed
  <1>2. CASE ~Http!processRequestLine(Http!Line(b))
    BY <1>2 DEF Http!RequestLine, ContextInv
  <1>3. CASE Http!processRequestLine(Http!Line(b))
    <2>1. PICK r \in Http!RequestLines : Http!Line(b) = <<r>>
      BY <1>3 DEF Http!processRequestLine
    <2>2. /\ Http!CRLF(b) \in 1..Len(b) /\ b[Http!CRLF(b)] = "crlf"
          /\ Len(Http!Line(b)) = Http!CRLF(b) - 1
          /\ \A i \in 1..Http!CRLF(b) - 1 : Http!Line(b)[i] = b[i]
          /\ Len(Http!RetrieveLine(b)) = Len(b) - Http!CRLF(b)
      BY <1>0, LineAndRest, FirstCRLF
    <2>3. Len(<<r>>) = 1 /\ <<r>>[1] = r
      OBVIOUS
    <2>4. Http!CRLF(b) = 2 /\ Len(b) >= 2 /\ b[1] = r /\ b[2] = "crlf"
      BY <2>1, <2>2, <2>3
    <2>5. /\ m_request' = r /\ received' = received /\ m_state' = "kExpectHeaders"
          /\ m_inputBuffer' = Http!RetrieveLine(b)
      <3>1. Head(b) = b[1]
        BY <1>0, <2>4
      <3>. QED
        BY <1>3, <2>4, <3>1 DEF Http!RequestLine
    <2>6. Consumed' = n + 2
      BY <1>0, <1>1, <2>2, <2>4, <2>5 DEF Consumed
    <2>7. /\ received[n + 1] = r /\ received[n + 2] = "crlf"
          /\ n + 1 > 1 => received[(n + 1) - 1] = "crlf"
      BY <1>1, <2>4
    <2>. HIDE DEF n
    <2>8. Started(received, n + 2, r)
      <3>1. n + 1 \in 1..n + 2 /\ (n + 1) + 1 = n + 2
        BY <1>1
      <3>. QED
        BY <2>7, <3>1 DEF Started
    <2>. QED
      BY <2>5, <2>6, <2>8 DEF ContextInv
  <1>. QED
    BY <1>2, <1>3

(* A line without a colon completes it.                                    *)
LEMMA LineCompletes ==
  ASSUME Http!TypeOK, Framed(received, m_inputBuffer), ContextInv, Http!Headers
  PROVE  ContextInv'
  <1>. DEFINE b == m_inputBuffer
              n == Consumed
              c == Http!CRLF(b)
              s == received
  <1>0. /\ s \in Seq(Http!Pieces) /\ b \in Seq(Http!Pieces)
        /\ Len(s) \in Nat /\ Len(b) \in Nat /\ Http!HasLine(b)
    BY PieceOf DEF Http!TypeOK, Http!Headers
  <1>1. /\ n \in Nat /\ n = Len(s) - Len(b)
        /\ (\A i \in 1..Len(b) : b[i] = s[n + i])
        /\ (n > 0 => s[n] = "crlf")
    BY <1>0 DEF Framed, Consumed
  <1>2. /\ c \in 1..Len(b) /\ b[c] = "crlf" /\ \A i \in 1..c - 1 : b[i] # "crlf"
        /\ Http!Line(b) \in Seq(Http!Pieces)
        /\ Len(Http!Line(b)) = c - 1 /\ \A i \in 1..c - 1 : Http!Line(b)[i] = b[i]
        /\ Len(Http!RetrieveLine(b)) = Len(b) - c
    BY <1>0, LineAndRest, FirstCRLF
  <1>3. m_request \in Http!RequestLines /\ Started(s, n, m_request)
    BY DEF ContextInv, Http!Headers
  <1>4. PICK i \in 1..n : /\ i > 1 => s[i - 1] = "crlf"
                          /\ i + 1 <= n /\ s[i] = m_request /\ s[i + 1] = "crlf"
    BY <1>3 DEF Started
  <1>5. /\ UNCHANGED <<received, m_request>> /\ m_inputBuffer' = Http!RetrieveLine(b)
        /\ Consumed' = n + c
    BY <1>0, <1>1, <1>2 DEF Http!Headers, Consumed
  <1>. HIDE DEF n, c
  <1>6. CASE Http!HasColon(Http!Line(b))
    <2>1. i \in 1..n + c /\ i + 1 <= n + c
      BY <1>1, <1>2, <1>4
    <2>2. Started(s, n + c, m_request)
      BY <1>4, <2>1 DEF Started
    <2>3. m_state' = "kExpectHeaders"
      BY <1>6 DEF Http!Headers
    <2>. QED
      BY <1>3, <1>5, <2>2, <2>3 DEF ContextInv
  <1>7. CASE ~Http!HasColon(Http!Line(b))
    <2>1. ASSUME NEW x \in n + 1..(n + c) - 1
          PROVE  s[x] # "crlf" /\ s[x] # "header"
      <3>. DEFINE h == x - n
      <3>1. h \in 1..c - 1 /\ h \in 1..Len(b) /\ x = n + h
        BY <1>1, <1>2
      <3>. HIDE DEF h
      <3>2. s[x] = b[h] /\ b[h] # "crlf" /\ Http!Line(b)[h] = b[h]
        BY <1>1, <1>2, <3>1
      <3>3. Http!Line(b)[h] # "header"
        BY <1>2, <1>7, <3>1, PieceOf DEF Http!HasColon, Http!ToSet
      <3>. QED
        BY <3>2, <3>3
    <2>2. /\ i \in 1..Len(s) /\ n \in 1..Len(s) /\ n + c \in 1..Len(s)
          /\ i + 1 <= n /\ n < n + c
          /\ s[n] = "crlf" /\ s[n + c] = "crlf"
      <3>1. /\ i \in 1..Len(s) /\ n \in 1..Len(s) /\ n + c \in 1..Len(s)
            /\ i + 1 <= n /\ n < n + c /\ n > 0
        BY <1>0, <1>1, <1>2, <1>4
      <3>. QED
        BY <1>1, <1>2, <3>1
    <2>3. Whole(s, m_request)
      BY <1>4, <2>1, <2>2 DEF Whole
    <2>4. m_state' = "kGotAll" /\ httpPc' = "parsed"
      BY <1>7 DEF Http!Headers
    <2>. QED
      BY <1>3, <1>5, <2>3, <2>4 DEF ContextInv
  <1>. QED
    BY <1>6, <1>7


(* The context and the answers keep to the stream.                         *)
LEMMA AnswersStep ==
  ASSUME Http!TypeOK, Http!TypeOK', Framed(received, m_inputBuffer), ContextInv, AnswerInv,
         [Http!Next]_(Http!vars)
  PROVE  ContextInv' /\ AnswerInv'
  <1>0. received \in Seq(Http!Pieces) /\ Len(received) \in Nat
    BY PieceOf DEF Http!TypeOK
  <1>1. CASE Http!NoLine
    <2>1. UNCHANGED <<received, Consumed, m_state, m_request, connState, sent>> /\ httpPc # "idle"
          /\ httpPc' = "parsed"
      BY <1>1 DEF Http!NoLine, Http!context, Consumed
    <2>. QED
      BY <2>1 DEF ContextInv, AnswerInv
  <1>2. CASE Http!RequestLine
    <2>1. UNCHANGED <<received, connState, sent>>
      BY <1>2 DEF Http!RequestLine
    <2>. QED
      BY <1>2, <2>1, LineStarts DEF AnswerInv
  <1>3. CASE Http!Headers
    <2>1. UNCHANGED <<received, connState, sent>>
      BY <1>3 DEF Http!Headers
    <2>. QED
      BY <1>3, <2>1, LineCompletes DEF AnswerInv
  <1>4. CASE Http!Respond
    <2>1. ContextInv'
      BY <1>4 DEF Http!Respond, ContextInv
    <2>2. \A s : Append(<<>>, s) = <<s>> /\ Len(<<s>>) = 1 /\ <<s>>[1] = s
      OBVIOUS
    <2>3. CASE sent' = sent
      <3>1. received' = received /\ (connState' = "kConnected" => connState = "kConnected")
        BY <1>4 DEF Http!Respond
      <3>. QED
        BY <2>1, <2>3, <3>1 DEF AnswerInv
    <2>4. CASE sent' # sent
      <3>. DEFINE a == IF ~ok THEN "400" ELSE Http!Status(m_request)
      <3>1. sent' = Http!Send(a) /\ connState' = "kDisconnecting" /\ received' = received
        BY <1>4, <2>4 DEF Http!Respond
      <3>2. sent = <<>> /\ sent' = Append(<<>>, a)
        BY <2>4, <3>1 DEF Http!Send, AnswerInv
      <3>3. ok => m_state = "kGotAll"
        BY <1>4, <2>4 DEF Http!Respond
      <3>4. \A r \in Http!RequestLines : a = Http!Status(r) => ok /\ r = m_request
        BY <3>3 DEF Http!Status, Http!RequestLines, ContextInv
      <3>. HIDE DEF a
      <3>5. sent' = <<a>> /\ Len(sent') = 1
        BY <2>2, <3>2
      <3>6. ASSUME NEW r \in Http!RequestLines, sent' = <<Http!Status(r)>>
            PROVE  Whole(received, r)
        <4>1. a = Http!Status(r)
          BY <2>2, <3>5, <3>6
        <4>. QED
          BY <3>3, <3>4, <4>1 DEF ContextInv
      <3>. QED
        BY <2>1, <3>1, <3>5, <3>6 DEF AnswerInv
    <2>. QED
      BY <2>1, <2>3, <2>4
  <1>5. ASSUME NEW n \in 1..MaxPieces - Len(received), NEW segment \in [1..n -> Http!Pieces],
               Http!OnMessage(segment)
        PROVE  ContextInv' /\ AnswerInv'
    <2>1. segment \in Seq(Http!Pieces)
      BY <1>0, SegmentIsSeq
    <2>2. /\ received' = received \o segment /\ m_state' = "kExpectRequestLine"
          /\ UNCHANGED <<connState, sent>>
      BY <1>5 DEF Http!OnMessage
    <2>3. \A r : Whole(received, r) => Whole(received', r)
      BY <1>0, <2>1, <2>2, WholeStays
    <2>. QED
      BY <2>2, <2>3 DEF ContextInv, AnswerInv
  <1>6. CASE UNCHANGED Http!vars
    <2>1. UNCHANGED <<received, Consumed, m_state, m_request, connState, sent, httpPc>>
      BY <1>6 DEF Http!vars, Http!context, Consumed
    <2>. QED
      BY <2>1 DEF ContextInv, AnswerInv
  <1>. QED
    BY <1>1, <1>2, <1>3, <1>4, <1>5, <1>6 DEF Http!Next, Http!ServerStep

(* The same invariants, throughout.                                        *)
LEMMA AnswersAlways == Http!Spec => [](Http!TypeOK /\ ContextInv /\ AnswerInv)
  <1>1. Http!Init => ContextInv /\ AnswerInv
    <2>1. \A s : <<s>> # <<>>
      OBVIOUS
    <2>. QED
      BY <2>1 DEF Http!Init, ContextInv, AnswerInv
  <1>2. Http!TypeOK /\ Http!TypeOK' /\ Http!FramedByLines /\ ContextInv /\ AnswerInv
          /\ [Http!Next]_(Http!vars)
          => ContextInv' /\ AnswerInv'
    BY AnswersStep, FramedUnfolds
  <1>. QED
    BY <1>1, <1>2, HttpTypes, FramedAlways, PTL DEF Http!Spec

-----------------------------------------------------------------------------
(* The other programs leave the connection alone.                          *)
LEMMA HttpRuns == Spec => Http!Spec
  <1>1. Init => Http!Init
    BY DEF Init
  <1>2. [Next]_vars => [Http!Next]_(Http!vars)
    BY DEF Next, BufferNext, HttpNext, TimersNext, ScheduleNext, StoreNext, TomatoNext,
           TurnsNext, StackNext, vars, serverVars, httpVars, Http!vars,
           Http!context
  <1>. QED
    BY <1>1, <1>2, PTL DEF Spec, Http!Spec

(* Type correctness of every state of HttpServer.                          *)
THEOREM HttpTypeCorrect == Spec => []Http!TypeOK
  BY HttpRuns, HttpTypes, PTL

(* Whatever the segmentation, the buffer is the end of the stream, from    *)
(* the beginning of a line on: no byte is skipped and no line is cut.      *)
THEOREM StaysFramed == Spec => []FramedByLines
  <1>1. Http!FramedByLines => FramedByLines
    BY DEF FramedByLines
  <1>. QED
    BY <1>1, HttpRuns, FramedAlways, PTL

(* A connection is answered at most once, although onMessage goes on being *)
(* called while the shutdown is under way.                                 *)
THEOREM AnsweredAtMostOnce == Spec => []AnsweredOnce
  <1>1. AnswerInv => AnsweredOnce
    BY DEF AnswerInv, Http!AnsweredOnce, AnsweredOnce
  <1>. QED
    BY <1>1, HttpRuns, AnswersAlways, PTL

(* A page or a 404 answers a request the peer really sent, whole, from the *)
(* start of a line, and of that request's path.                            *)
THEOREM AnswersWhatWasAsked == Spec => []ResponseMatchesRequest
  <1>1. Http!TypeOK /\ AnswerInv => ResponseMatchesRequest
    BY WholeBegins DEF Http!TypeOK, AnswerInv, Http!ResponseMatchesRequest,
       ResponseMatchesRequest
  <1>. QED
    BY <1>1, HttpRuns, AnswersAlways, PTL
=============================================================================
