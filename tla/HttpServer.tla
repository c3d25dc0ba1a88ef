------------------------------ MODULE HttpServer ------------------------------
(***************************************************************************)
(* HttpServer on one connection of myserver (http/http_server.cpp,         *)
(* http/http_context.cpp, main/main.cpp): the peer's bytes arrive in       *)
(* segments cut anywhere, every arrival calls onMessage on all that is in  *)
(* the input buffer, and onMessage parses with a context of its own.  An   *)
(* iteration of the loop of parseRequest is one step.                      *)
(*                                                                         *)
(* Bytes are abstracted to pieces of lines: the text of a request line     *)
(* processRequestLine accepts, for a path main.cpp knows or not; a text    *)
(* with a colon; any other text; and CRLF.  Texts without a CRLF between   *)
(* them are one longer line.  The buffer is the stream Buffer provides,    *)
(* and send and shutdown are those of TcpConnection in its own loop.       *)
(***************************************************************************)
EXTENDS Integers, Sequences, SequencesExt

CONSTANT MaxPieces     \* bound: pieces received on the connection

RequestLines == {"known", "unknown"}
Pieces == RequestLines \union {"header", "other", "crlf"}

VARIABLES
  received,        \* history: everything the peer has sent
  m_inputBuffer,   \* what onMessage has not retrieved
  pc,              \* "idle", "parse" (in parseRequest) or "parsed"
  m_state,         \* the context's state
  m_request,       \* the context's request: its request line
  ok,              \* parseRequest's result so far
  connState,       \* the connection's m_state
  sent             \* history: the responses sent

context == <<m_state, m_request, ok>>
vars == <<received, m_inputBuffer, pc, context, connState, sent>>

Init ==
  /\ received = <<>> /\ m_inputBuffer = <<>>
  /\ pc = "idle"
  /\ m_state = "kExpectRequestLine" /\ m_request = "none" /\ ok = FALSE
  /\ connState = "kConnected"
  /\ sent = <<>>

-----------------------------------------------------------------------------
(* findCRLF: buf up to the first CRLF, and what retrieveUntil leaves.      *)
HasLine(buf) == "crlf" \in ToSet(buf)
CRLF(buf) == SelectInSeq(buf, LAMBDA p : p = "crlf")
Line(buf) == SubSeq(buf, 1, CRLF(buf) - 1)

(* Mutant: the CRLF stays in the buffer.                                   *)
RetrieveText(buf) == SubSeq(buf, CRLF(buf), Len(buf))

RetrieveLine(buf) == SubSeq(buf, CRLF(buf) + 1, Len(buf))

(* A request line: known method, path, HTTP/1.0 or 1.1.                    *)
processRequestLine(line) == \E r \in RequestLines : line = <<r>>

(* Mutants: the first header ends the headers; nothing does.               *)
NoColon(line) == FALSE
AlwaysColon(line) == TRUE

HasColon(line) == "header" \in ToSet(line)

(* onRequest of main.cpp, and what TcpConnection::send lets through.       *)
Status(r) == IF r = "known" THEN "200" ELSE "404"
Send(s) == IF connState = "kConnected" THEN Append(sent, s) ELSE sent

-----------------------------------------------------------------------------
(* handleRead: a segment is appended and onMessage begins.                 *)
OnMessage(segment) ==
  /\ pc = "idle"
  /\ segment # <<>>
  /\ Len(received) + Len(segment) <= MaxPieces
  /\ received' = received \o segment
  /\ m_inputBuffer' = m_inputBuffer \o segment
  /\ m_state' = "kExpectRequestLine" /\ m_request' = "none" /\ ok' = FALSE
  /\ pc' = "parse"
  /\ UNCHANGED <<connState, sent>>

(* An iteration that finds no CRLF is the last one.                        *)
NoLine ==
  /\ pc = "parse"
  /\ ~HasLine(m_inputBuffer)
  /\ pc' = "parsed"
  /\ UNCHANGED <<received, m_inputBuffer, context, connState, sent>>

RequestLine ==
  /\ pc = "parse"
  /\ m_state = "kExpectRequestLine"
  /\ HasLine(m_inputBuffer)
  /\ IF processRequestLine(Line(m_inputBuffer))
     THEN /\ ok' = TRUE
          /\ m_request' = Head(m_inputBuffer)
          /\ m_inputBuffer' = RetrieveLine(m_inputBuffer)
          /\ m_state' = "kExpectHeaders"
     ELSE /\ ok' = FALSE     \* hasMore stays true: the loop goes round again
          /\ UNCHANGED <<m_request, m_inputBuffer, m_state>>
  /\ UNCHANGED <<received, pc, connState, sent>>

(* A line without a colon, blank or not, ends the request.                 *)
Headers ==
  /\ pc = "parse"
  /\ m_state = "kExpectHeaders"
  /\ HasLine(m_inputBuffer)
  /\ IF HasColon(Line(m_inputBuffer))
     THEN UNCHANGED <<m_state, pc>>
     ELSE m_state' = "kGotAll" /\ pc' = "parsed"
  /\ m_inputBuffer' = RetrieveLine(m_inputBuffer)
  /\ UNCHANGED <<received, m_request, ok, connState, sent>>

(* Mutant: the refusal does not shut the connection down.                  *)
RespondAndStay ==
  /\ pc = "parsed"
  /\ sent' = IF ~ok THEN Send("400")
             ELSE IF m_state = "kGotAll" THEN Send(Status(m_request)) ELSE sent
  /\ connState' = IF m_state = "kGotAll" THEN "kDisconnecting" ELSE connState
  /\ m_state' = IF m_state = "kGotAll" THEN "kExpectRequestLine" ELSE m_state
  /\ pc' = "idle"
  /\ UNCHANGED <<received, m_inputBuffer, m_request, ok>>

(* The rest of onMessage.  onRequest closes whatever the headers say.      *)
Respond ==
  /\ pc = "parsed"
  /\ sent' = IF ~ok THEN Send("400")
             ELSE IF m_state = "kGotAll" THEN Send(Status(m_request)) ELSE sent
  /\ connState' = IF ~ok \/ m_state = "kGotAll" THEN "kDisconnecting" ELSE connState
  /\ m_state' = IF m_state = "kGotAll" THEN "kExpectRequestLine" ELSE m_state
  /\ m_request' = IF m_state = "kGotAll" THEN "none" ELSE m_request
  /\ pc' = "idle"
  /\ UNCHANGED <<received, m_inputBuffer, ok>>

-----------------------------------------------------------------------------
ServerStep == NoLine \/ RequestLine \/ Headers \/ Respond

Next ==
  \/ ServerStep
  \/ \E n \in 1..MaxPieces - Len(received) : \E segment \in [1..n -> Pieces] : OnMessage(segment)

Spec == Init /\ [][Next]_vars

(* The loop thread keeps running: no fairness of the peer.                 *)
FairSpec == Spec /\ WF_vars(ServerStep)

-----------------------------------------------------------------------------
(* Properties.                                                             *)

TypeOK ==
  /\ received \in Seq(Pieces)
  /\ m_inputBuffer \in Seq(Pieces)
  /\ pc \in {"idle", "parse", "parsed"}
  /\ m_state \in {"kExpectRequestLine", "kExpectHeaders", "kGotAll"}
  /\ m_request \in RequestLines \union {"none"}
  /\ ok \in BOOLEAN
  /\ connState \in {"kConnected", "kDisconnecting"}
  /\ sent \in Seq({"200", "404", "400"})

(* Whatever the segmentation, and whichever way parsing ended last time,   *)
(* the buffer is the end of the stream from the beginning of a line on: no *)
(* byte is skipped and no line is cut.                                     *)
FramedByLines ==
  LET cut == Len(received) - Len(m_inputBuffer)
  IN  /\ cut >= 0
      /\ m_inputBuffer = SubSeq(received, cut + 1, Len(received))
      /\ cut > 0 => received[cut] = "crlf"

(* A connection is answered at most once, although onMessage goes on being *)
(* called, with pipelined requests or the rest of a refused one, while the *)
(* shutdown is under way.                                                  *)
AnsweredOnce == Len(sent) <= 1

(* A request at the beginning of s, up to the line without a colon.        *)
Lines(s) == {i \in 1..Len(s) : s[i] = "crlf"}
BeginsWithRequest(s, r) ==
  /\ Len(s) >= 2 /\ s[1] = r /\ s[2] = "crlf"
  /\ \E e \in Lines(s) \ {2} :
       LET last == CHOOSE b \in Lines(s) : b < e /\ \A x \in Lines(s) : x < e => x <= b
       IN  "header" \notin {s[i] : i \in last + 1..e - 1}

(* A page or a 404 answers a request the peer really sent, whole, from the *)
(* start of a line, and of that request's path.                            *)
ResponseMatchesRequest ==
  \A r \in RequestLines : sent = <<Status(r)>> =>
    \E i \in 1..Len(received) :
      /\ i > 1 => received[i - 1] = "crlf"
      /\ BeginsWithRequest(SubSeq(received, i, Len(received)), r)

(* Mid-parse, at the first iteration on a connection that is still up.     *)
Parsing == pc = "parse" /\ m_state = "kExpectRequestLine" /\ connState = "kConnected"

(* A whole request that arrives in one segment is answered with a page or  *)
(* a 404 (the right one: ResponseMatchesRequest).                          *)
WholeRequestAnswered ==
  (Parsing /\ \E r \in RequestLines : BeginsWithRequest(m_inputBuffer, r))
    ~> (\E r \in RequestLines : sent = <<Status(r)>>)

(* "parse request failed", "400 Bad Request": a line that is not a request *)
(* line is refused.                                                        *)
MalformedIsRefused ==
  (Parsing /\ HasLine(m_inputBuffer) /\ ~processRequestLine(Line(m_inputBuffer)))
    ~> (sent = <<"400">>)
=============================================================================
