--------------------------- MODULE TcpServerProofs ---------------------------
(***************************************************************************)
(* Proofs about TcpServer for any number of connections, io loops, user    *)
(* threads and sends.                                                      *)
(*                                                                         *)
(* First, what the handlers of TcpConnection do to one connection; then    *)
(* the invariant that holds whatever the users call (types, registration   *)
(* with the poller, write interest); then the invariant of the teardown,   *)
(* which relates the server's map, the queued functors and the phase of    *)
(* every connection.  The teardown is proved for servers on which only the *)
(* loops' threads call shutdown(), as HttpServer does: a shutdown() by     *)
(* another thread may set kDisconnecting after handleClose has set         *)
(* kDisconnected.                                                          *)
(***************************************************************************)
EXTENDS TcpServer, SequenceTheorems, TLAPS

(* The poller's index and the kernel's interest list agree on r, and no    *)
(* epoll_ctl has failed.                                                   *)
Registered(r) ==
  /\ ~r.fatal
  /\ r.index = kAdded <=> r.armed # {}

USE DEF kNew, kAdded, kDeleted, AlwaysReported

(* Only the registration differs. *)
SameButRegistration(r, s) ==
  /\ s.state = r.state /\ s.loop = r.loop /\ s.out = r.out /\ s.fin = r.fin
  /\ s.sends = r.sends /\ s.closer = r.closer /\ s.reports = r.reports
  /\ s.closed = r.closed /\ s.destroyed = r.destroyed /\ s.late = r.late

(* updateChannel touches only the registration, arms the descriptor        *)
(* exactly when events are wanted, and makes no epoll_ctl that fails.      *)
LEMMA UpdateChannelKeeps ==
  ASSUME NEW r \in Connection
  PROVE  LET s == UpdateChannel(r)
         IN  /\ s \in Connection
             /\ SameButRegistration(r, s)
             /\ s.events = r.events
             /\ Registered(r) => Registered(s)
             /\ r.index = kAdded => (s.armed = {} <=> r.events = {})
             /\ r.index # kAdded => s.armed # {}
  <1>. USE DEF Connection, Revents
  <1>1. CASE r.index # kAdded
    <2>. DEFINE m == (r.mapped \/ r.index = kNew)
                f == (r.fatal \/ r.armed # {})
                s == [r EXCEPT !.index = kAdded, !.mapped = m,
                               !.armed = r.events \union AlwaysReported, !.fatal = f]
    <2>1. m \in BOOLEAN /\ f \in BOOLEAN
      OBVIOUS
    <2>2. UpdateChannel(r) = s
      BY <1>1 DEF UpdateChannel, Update
    <2>3. s \in Connection
      BY <2>1
    <2>4. SameButRegistration(r, s) /\ s.events = r.events
      BY DEF SameButRegistration
    <2>5. s.index = kAdded /\ s.armed # {} /\ s.fatal = f
      OBVIOUS
    <2>6. Registered(r) => Registered(s)
      BY <1>1, <2>5 DEF Registered
    <2>. HIDE DEF s
    <2>. QED
      BY <1>1, <2>2, <2>3, <2>4, <2>5, <2>6
  <1>2. CASE r.index = kAdded /\ r.events = {}
    BY <1>2 DEF UpdateChannel, Update, SameButRegistration, Registered
  <1>3. CASE r.index = kAdded /\ r.events # {}
    BY <1>3 DEF UpdateChannel, Update, SameButRegistration, Registered
  <1>. QED
    BY <1>1, <1>2, <1>3

(* e is r asking for the events X, before the poller has been told.        *)
Asking(r, e, X) ==
  /\ e \in Connection /\ SameButRegistration(r, e) /\ e.events = X
  /\ e.index = r.index /\ e.armed = r.armed /\ e.fatal = r.fatal

(* Asking for other events changes nothing but the registration.           *)
LEMMA InterestKeeps ==
  ASSUME NEW r \in Connection, NEW X, NEW e, Asking(r, e, X)
  PROVE  LET s == UpdateChannel(e)
         IN  /\ s \in Connection
             /\ SameButRegistration(r, s)
             /\ s.events = X
             /\ Registered(r) => Registered(s)
             /\ r.index = kAdded => (s.armed = {} <=> X = {})
             /\ r.index # kAdded => s.armed # {}
  <1>1. Registered(r) => Registered(e)
    BY DEF Registered, Asking
  <1>. QED
    BY <1>1, UpdateChannelKeeps DEF SameButRegistration, Asking

(* s is r with another registration, as sound as r's.                      *)
Reregistered(r, s) == s \in Connection /\ SameButRegistration(r, s) /\ Registered(s)

(* enableReading: read interest is added and the descriptor armed.         *)
LEMMA EnableReadKeeps ==
  ASSUME NEW r \in Connection, Registered(r)
  PROVE  LET s == EnableRead(r)
         IN  /\ Reregistered(r, s) /\ s.armed # {}
             /\ "in" \in s.events /\ (IsWrite(s) <=> IsWrite(r))
  <1>. DEFINE X == r.events \union {"in"}
  <1>1. /\ X \in SUBSET {"in", "out"} /\ X # {}
        /\ "in" \in X /\ ("out" \in X <=> IsWrite(r))
    BY DEF Connection, IsWrite
  <1>. DEFINE e == [r EXCEPT !.events = X]
  <1>2. EnableRead(r) = UpdateChannel(e)
    BY DEF EnableRead
  <1>3. Asking(r, e, X)
    BY <1>1 DEF Asking, Connection, SameButRegistration
  <1>. HIDE DEF X, e
  <1>. QED
    BY <1>1, <1>2, <1>3, InterestKeeps DEF Reregistered, IsWrite, Registered

(* enableWriting: write interest is added and the descriptor armed.        *)
LEMMA EnableWriteKeeps ==
  ASSUME NEW r \in Connection, Registered(r)
  PROVE  LET s == EnableWrite(r)
         IN  /\ Reregistered(r, s) /\ s.armed # {}
             /\ IsWrite(s) /\ ("in" \in s.events <=> "in" \in r.events)
  <1>. DEFINE X == r.events \union {"out"}
  <1>1. /\ X \in SUBSET {"in", "out"} /\ X # {}
        /\ "out" \in X /\ ("in" \in X <=> "in" \in r.events)
    BY DEF Connection, IsWrite
  <1>. DEFINE e == [r EXCEPT !.events = X]
  <1>2. EnableWrite(r) = UpdateChannel(e)
    BY DEF EnableWrite
  <1>3. Asking(r, e, X)
    BY <1>1 DEF Asking, Connection, SameButRegistration
  <1>. HIDE DEF X, e
  <1>. QED
    BY <1>1, <1>2, <1>3, InterestKeeps DEF Reregistered, IsWrite, Registered

(* disableWriting: write interest is gone, read interest as before.        *)
LEMMA DisableWriteKeeps ==
  ASSUME NEW r \in Connection, Registered(r)
  PROVE  LET s == DisableWrite(r)
         IN  /\ Reregistered(r, s) /\ ~IsWrite(s)
             /\ "in" \in s.events <=> "in" \in r.events
             /\ "in" \in r.events => s.armed # {}
  <1>. DEFINE X == r.events \ {"out"}
  <1>1. /\ X \in SUBSET {"in", "out"}
        /\ "out" \notin X /\ ("in" \in X <=> "in" \in r.events)
    BY DEF Connection, IsWrite
  <1>. DEFINE e == [r EXCEPT !.events = X]
  <1>2. DisableWrite(r) = UpdateChannel(e)
    BY DEF DisableWrite
  <1>3. Asking(r, e, X)
    BY <1>1 DEF Asking, Connection, SameButRegistration
  <1>. HIDE DEF X, e
  <1>. QED
    BY <1>1, <1>2, <1>3, InterestKeeps DEF Reregistered, IsWrite, Registered

(* disableAll: a descriptor that was armed is so no more.                  *)
LEMMA DisableAllKeeps ==
  ASSUME NEW r \in Connection, Registered(r)
  PROVE  LET s == DisableAll(r)
         IN  /\ Reregistered(r, s) /\ s.events = {}
             /\ r.armed # {} => s.armed = {}
  <1>. DEFINE X == {}
  <1>1. X \in SUBSET {"in", "out"} /\ X = {}
    BY DEF Connection, IsWrite
  <1>. DEFINE e == [r EXCEPT !.events = X]
  <1>2. DisableAll(r) = UpdateChannel(e)
    BY DEF DisableAll
  <1>3. Asking(r, e, X)
    BY <1>1 DEF Asking, Connection, SameButRegistration
  <1>. HIDE DEF X, e
  <1>. QED
    BY <1>1, <1>2, <1>3, InterestKeeps DEF Reregistered, IsWrite, Registered

(* removeChannel: neither the map nor the kernel knows the channel.        *)
LEMMA RemoveChannelKeeps ==
  ASSUME NEW r \in Connection
  PROVE  LET s == RemoveChannel(r)
         IN  /\ s \in Connection
             /\ SameButRegistration(r, s)
             /\ s.events = r.events /\ ~s.mapped
             /\ Registered(r) => Registered(s) /\ s.armed = {}
  <1>. USE DEF Connection, RemoveChannel, Update, SameButRegistration, Registered
  <1>1. CASE r.index = kAdded
    BY <1>1
  <1>2. CASE r.index # kAdded
    BY <1>2
  <1>. QED
    BY <1>1, <1>2

-----------------------------------------------------------------------------
(* What every connection satisfies, whoever calls what.                    *)
WriteMatches(r) ==
  r.closed = 0 /\ r.destroyed = 0 => (IsWrite(r) <=> r.out # <<>>)

(* A connection of the right type, soundly registered, that waits for the  *)
(* socket to become writable exactly while it has output.                  *)
Sound(r) == r \in Connection /\ Registered(r) /\ WriteMatches(r)

(* What connectionCallback has been told: of the connection only, and of   *)
(* its end too.                                                            *)
Up == <<"up">>
UpDown == <<"up", "down">>

(* The phases of a connection's life.  Once up it is armed for reading and *)
(* has been reported once; once down, or destroyed, it is not armed and    *)
(* has been reported twice; a shutdown has sent the FIN or waits for the   *)
(* output to go first.                                                     *)
LifeOK(r) ==
  /\ r.closed \in {0, 1} /\ r.destroyed \in {0, 1}
  /\ r.closer \in {"none", "loop"}
  /\ r.fin => r.out = <<>> /\ ~IsWrite(r)
  /\ r.destroyed = 1 => r.armed = {} /\ ~r.mapped /\ r.state # "kConnected"
  /\ r.state = "kConnecting" =>
       /\ r.armed = {} /\ r.events = {} /\ r.reports = <<>> /\ r.out = <<>>
       /\ r.closed = 0 /\ ~r.fin
  /\ r.state \in {"kConnected", "kDisconnecting"} =>
       /\ r.closed = 0 /\ r.reports = Up
       /\ (IsWrite(r) <=> r.out # <<>>)
       /\ r.destroyed = 0 => "in" \in r.events /\ r.armed # {}
  /\ r.state = "kDisconnecting" => r.fin \/ IsWrite(r)
  /\ r.state = "kDisconnected" =>
       /\ r.closed = 1 \/ r.destroyed = 1
       /\ r.armed = {} /\ r.events = {} /\ r.reports = UpDown

(* Only what connectionCallback has been told differs.                     *)
SameButReports(r, s) ==
  /\ s.state = r.state /\ s.loop = r.loop /\ s.out = r.out /\ s.fin = r.fin
  /\ s.events = r.events /\ s.index = r.index /\ s.mapped = r.mapped
  /\ s.armed = r.armed /\ s.fatal = r.fatal /\ s.closer = r.closer
  /\ s.closed = r.closed /\ s.destroyed = r.destroyed

(* Being told up and then down, as sequences.                              *)
LEMMA ToldInTurn == Append(<<>>, "up") = Up /\ Append(Up, "down") = UpDown
  <1>. DEFINE S == {"up", "down"}
              a == <<"up">>
              t == <<"up", "down">>
  <1>1. /\ a \in Seq(S) /\ Len(a) = 1 /\ a[1] = "up"
        /\ t \in Seq(S) /\ Len(t) = 2 /\ t[1] = "up" /\ t[2] = "down"
        /\ "down" \in S
    OBVIOUS
  <1>2. Append(<<>>, "up") = Up
    BY DEF Up
  <1>. HIDE DEF S, a, t
  <1>3. /\ Append(a, "down") \in Seq(S) /\ Len(Append(a, "down")) = 2
        /\ Append(a, "down")[1] = "up" /\ Append(a, "down")[2] = "down"
    <2>1. a \in Seq(S)
      BY <1>1
    <2>2. ASSUME NEW d \in S
          PROVE  /\ Append(a, d) \in Seq(S)
                 /\ Len(Append(a, d)) = Len(a) + 1
                 /\ \A i \in 1..Len(a) : Append(a, d)[i] = a[i]
                 /\ Append(a, d)[Len(a) + 1] = d
      BY ONLY <2>1, AppendProperties, d \in S
    <2>. QED
      BY ONLY <1>1, <2>2
  <1>4. Append(a, "down") = t
    BY <1>1, <1>3, SeqEqual
  <1>. QED
    BY <1>2, <1>4 DEF a, t, Up, UpDown

(* connectionCallback changes nothing, and is told up or down by the       *)
(* state.                                                                  *)
LEMMA ReportKeeps ==
  ASSUME NEW r \in Connection
  PROVE  LET s == Report(r)
         IN  /\ s \in Connection
             /\ SameButReports(r, s)
             /\ s.reports = Append(r.reports, IF r.state = "kConnected" THEN "up" ELSE "down")
  <1>1. Append(r.reports, IF r.state = "kConnected" THEN "up" ELSE "down") \in Seq({"up", "down"})
    BY AppendProperties DEF Connection
  <1>. QED
    BY <1>1 DEF Connection, Report, SameButReports

(* connectEstablished brings a new connection up.                          *)
LEMMA EstablishedSound ==
  ASSUME NEW r, Sound(r)
  PROVE  LET s == ConnectEstablished(r)
         IN  /\ Sound(s)
             /\ s.loop = r.loop /\ s.state = "kConnected"
             /\ s.closed = r.closed /\ s.destroyed = r.destroyed
             /\ LifeOK(r) /\ r.state = "kConnecting" /\ r.destroyed = 0 => LifeOK(s)
  <1>. DEFINE a == [r EXCEPT !.state = "kConnected"]
              b == EnableRead(a)
              s == Report(b)
  <1>0. r \in Connection /\ Registered(r) /\ WriteMatches(r)
    BY DEF Sound
  <1>1. /\ a \in Connection /\ a.state = "kConnected" /\ a.loop = r.loop /\ a.out = r.out
        /\ a.fin = r.fin /\ a.events = r.events /\ a.index = r.index /\ a.armed = r.armed
        /\ a.fatal = r.fatal /\ a.closer = r.closer /\ a.reports = r.reports
        /\ a.closed = r.closed /\ a.destroyed = r.destroyed
    BY <1>0 DEF Connection
  <1>2. Registered(a)
    BY <1>0, <1>1 DEF Registered
  <1>. HIDE DEF a
  <1>3. /\ Reregistered(a, b) /\ b.armed # {}
        /\ "in" \in b.events /\ (IsWrite(b) <=> IsWrite(a))
    BY <1>1, <1>2, EnableReadKeeps
  <1>. HIDE DEF b
  <1>4. /\ s \in Connection /\ s.state = "kConnected" /\ s.loop = r.loop /\ s.out = r.out
        /\ s.fin = r.fin /\ s.events = b.events /\ s.index = b.index
        /\ s.armed = b.armed /\ s.fatal = b.fatal /\ s.closer = r.closer
        /\ s.reports = Append(r.reports, "up")
        /\ s.closed = r.closed /\ s.destroyed = r.destroyed
    BY <1>1, <1>3, ReportKeeps DEF Reregistered, SameButRegistration, SameButReports
  <1>. HIDE DEF s
  <1>5. Sound(s)
    BY <1>0, <1>1, <1>3, <1>4 DEF Reregistered, Sound, Registered, WriteMatches, IsWrite
  <1>6. LifeOK(r) /\ r.state = "kConnecting" /\ r.destroyed = 0 => LifeOK(s)
    <2>. SUFFICES ASSUME LifeOK(r), r.state = "kConnecting", r.destroyed = 0
                  PROVE  LifeOK(s)
      OBVIOUS
    <2>1. /\ r.reports = <<>> /\ r.out = <<>> /\ ~r.fin /\ ~IsWrite(r)
          /\ r.closed = 0 /\ r.closer \in {"none", "loop"}
      BY DEF LifeOK, IsWrite
    <2>2. s.reports = Up
      <3>1. s.reports = Append(<<>>, "up")
        BY <1>4, <2>1
      <3>. QED
        BY <3>1, ToldInTurn
    <2>3. "in" \in s.events /\ ~IsWrite(s) /\ s.armed # {}
      BY <1>1, <1>3, <1>4, <2>1 DEF IsWrite
    <2>4. /\ s.state = "kConnected" /\ s.out = <<>> /\ ~s.fin /\ s.closed = 0
          /\ s.destroyed = 0 /\ s.closer \in {"none", "loop"}
      BY <1>4, <2>1
    <2>. QED
      BY <2>2, <2>3, <2>4 DEF LifeOK
  <1>7. ConnectEstablished(r) = s
    BY DEF ConnectEstablished, s, b, a
  <1>. QED
    BY <1>4, <1>5, <1>6, <1>7

(* handleClose takes a connection that was up down, once.                  *)
LEMMA CloseSound ==
  ASSUME NEW r, Sound(r)
  PROVE  LET s == HandleClose(r)
         IN  /\ Sound(s)
             /\ s.loop = r.loop /\ s.state = "kDisconnected"
             /\ s.closed = r.closed + 1 /\ s.destroyed = r.destroyed
             /\ LifeOK(r) /\ r.state # "kConnecting" /\ r.closed = 0 /\ r.destroyed = 0
                  => LifeOK(s)
  <1>. DEFINE a == [r EXCEPT !.state = "kDisconnected"]
              b == DisableAll(a)
              d == Report(b)
              s == [d EXCEPT !.closed = @ + 1]
  <1>0. r \in Connection /\ Registered(r) /\ WriteMatches(r)
    BY DEF Sound
  <1>1. /\ a \in Connection /\ a.state = "kDisconnected" /\ a.loop = r.loop /\ a.out = r.out
        /\ a.fin = r.fin /\ a.events = r.events /\ a.index = r.index /\ a.armed = r.armed
        /\ a.fatal = r.fatal /\ a.closer = r.closer /\ a.reports = r.reports
        /\ a.closed = r.closed /\ a.destroyed = r.destroyed
    BY <1>0 DEF Connection
  <1>2. Registered(a)
    BY <1>0, <1>1 DEF Registered
  <1>. HIDE DEF a
  <1>3. /\ Reregistered(a, b) /\ b.events = {}
        /\ a.armed # {} => b.armed = {}
    BY <1>1, <1>2, DisableAllKeeps
  <1>. HIDE DEF b
  <1>4. /\ d \in Connection /\ d.state = "kDisconnected" /\ d.loop = r.loop /\ d.out = r.out
        /\ d.fin = r.fin /\ d.events = {} /\ d.index = b.index
        /\ d.armed = b.armed /\ d.fatal = b.fatal /\ d.closer = r.closer
        /\ d.reports = Append(r.reports, "down")
        /\ d.closed = r.closed /\ d.destroyed = r.destroyed
    BY <1>1, <1>3, ReportKeeps DEF Reregistered, SameButRegistration, SameButReports
  <1>. HIDE DEF d
  <1>5. /\ s \in Connection /\ s.state = "kDisconnected" /\ s.loop = r.loop /\ s.out = r.out
        /\ s.fin = r.fin /\ s.events = {} /\ s.index = b.index
        /\ s.armed = b.armed /\ s.fatal = b.fatal /\ s.closer = r.closer
        /\ s.reports = Append(r.reports, "down")
        /\ s.closed = r.closed + 1 /\ s.destroyed = r.destroyed
    <2>1. d.closed + 1 \in Nat
      BY <1>4 DEF Connection
    <2>. QED
      BY <1>4, <2>1 DEF Connection
  <1>. HIDE DEF s
  <1>6. Sound(s)
    <2>1. s.closed # 0
      BY <1>0, <1>5 DEF Connection
    <2>. QED
      BY <1>3, <1>5, <2>1 DEF Reregistered, Sound, Registered, WriteMatches
  <1>7. LifeOK(r) /\ r.state # "kConnecting" /\ r.closed = 0 /\ r.destroyed = 0 => LifeOK(s)
    <2>. SUFFICES ASSUME LifeOK(r), r.state # "kConnecting", r.closed = 0, r.destroyed = 0
                  PROVE  LifeOK(s)
      OBVIOUS
    <2>0. r.state \in {"kConnected", "kDisconnecting"}
      BY <1>0 DEF LifeOK, Connection
    <2>1. /\ r.reports = Up /\ r.armed # {} /\ (r.fin => r.out = <<>>)
          /\ r.closer \in {"none", "loop"}
      BY <2>0 DEF LifeOK
    <2>2. s.reports = UpDown
      BY <1>5, <2>1, ToldInTurn
    <2>3. s.armed = {}
      BY <1>1, <1>3, <1>5, <2>1
    <2>4. ~IsWrite(s)
      BY <1>5 DEF IsWrite
    <2>. QED
      BY <1>5, <2>1, <2>2, <2>3, <2>4 DEF LifeOK
  <1>8. HandleClose(r) = s
    BY DEF HandleClose, s, d, b, a
  <1>. QED
    BY <1>5, <1>6, <1>7, <1>8

(* connectDestroyed takes down what was still up, and unregisters.         *)
LEMMA DestroyedSound ==
  ASSUME NEW r, Sound(r)
  PROVE  LET s == ConnectDestroyed(r)
         IN  /\ Sound(s)
             /\ s.loop = r.loop /\ s.closed = r.closed /\ s.destroyed = r.destroyed + 1
             /\ s.state = "kConnecting" <=> r.state = "kConnecting"
             /\ LifeOK(r) /\ r.destroyed = 0 => LifeOK(s)
  <1>. DEFINE a == [r EXCEPT !.state = "kDisconnected"]
              b == DisableAll(a)
              d == IF r.state = "kConnected" THEN Report(b) ELSE r
              e == RemoveChannel(d)
              s == [e EXCEPT !.destroyed = @ + 1]
  <1>0. r \in Connection /\ Registered(r) /\ WriteMatches(r)
    BY DEF Sound
  <1>1. /\ a \in Connection /\ a.state = "kDisconnected" /\ a.loop = r.loop /\ a.out = r.out
        /\ a.fin = r.fin /\ a.events = r.events /\ a.index = r.index /\ a.armed = r.armed
        /\ a.fatal = r.fatal /\ a.closer = r.closer /\ a.reports = r.reports
        /\ a.closed = r.closed /\ a.destroyed = r.destroyed
    BY <1>0 DEF Connection
  <1>2. Registered(a)
    BY <1>0, <1>1 DEF Registered
  <1>. HIDE DEF a
  <1>3. Reregistered(a, b) /\ b.events = {}
    BY <1>1, <1>2, DisableAllKeeps
  <1>. HIDE DEF b
  <1>4. /\ d \in Connection /\ Registered(d) /\ d.loop = r.loop /\ d.out = r.out
        /\ d.fin = r.fin /\ d.closer = r.closer
        /\ d.closed = r.closed /\ d.destroyed = r.destroyed
        /\ r.state = "kConnected" =>
             d.state = "kDisconnected" /\ d.events = {} /\ d.reports = Append(r.reports, "down")
        /\ r.state # "kConnected" =>
             d.state = r.state /\ d.events = r.events /\ d.reports = r.reports
    <2>1. CASE r.state = "kConnected"
      BY <1>1, <1>3, <2>1, ReportKeeps
         DEF Reregistered, SameButRegistration, SameButReports, Registered
    <2>2. CASE r.state # "kConnected"
      BY <1>0, <2>2
    <2>. QED
      BY <2>1, <2>2
  <1>. HIDE DEF d
  <1>5. /\ e \in Connection /\ SameButRegistration(d, e)
        /\ e.events = d.events /\ ~e.mapped /\ Registered(e) /\ e.armed = {}
    BY <1>4, RemoveChannelKeeps
  <1>. HIDE DEF e
  <1>6. /\ s \in Connection /\ s.state = d.state /\ s.loop = r.loop /\ s.out = r.out
        /\ s.fin = r.fin /\ s.events = d.events /\ s.index = e.index /\ ~s.mapped
        /\ s.armed = {} /\ s.fatal = e.fatal /\ s.closer = r.closer /\ s.reports = d.reports
        /\ s.closed = r.closed /\ s.destroyed = r.destroyed + 1
    <2>1. e.destroyed + 1 \in Nat
      BY <1>5 DEF Connection
    <2>. QED
      BY <1>4, <1>5, <2>1 DEF SameButRegistration, Connection
  <1>. HIDE DEF s
  <1>7. Sound(s)
    <2>1. s.destroyed # 0
      BY <1>0, <1>6 DEF Connection
    <2>. QED
      BY <1>5, <1>6, <2>1 DEF Sound, Registered, WriteMatches
  <1>8. LifeOK(r) /\ r.destroyed = 0 => LifeOK(s)
    <2>. SUFFICES ASSUME LifeOK(r), r.destroyed = 0
                  PROVE  LifeOK(s)
      OBVIOUS
    <2>1. CASE r.state = "kConnected"
      <3>1. r.reports = Up /\ r.closed = 0
        BY <2>1 DEF LifeOK
      <3>2. s.reports = UpDown
        BY <1>4, <1>6, <2>1, <3>1, ToldInTurn
      <3>3. ~IsWrite(s)
        BY <1>4, <1>6, <2>1 DEF IsWrite
      <3>. QED
        BY <1>4, <1>6, <2>1, <3>2, <3>3 DEF LifeOK
    <2>2. CASE r.state # "kConnected"
      <3>1. IsWrite(s) <=> IsWrite(r)
        BY <1>4, <1>6, <2>2 DEF IsWrite
      <3>2. s.state = r.state /\ s.events = r.events /\ s.reports = r.reports
        BY <1>4, <1>6, <2>2
      <3>. QED
        BY <1>6, <2>2, <3>1, <3>2 DEF LifeOK
    <2>. QED
      BY <2>1, <2>2
  <1>9. ConnectDestroyed(r) = s
    BY DEF ConnectDestroyed, s, e, d, b, a
  <1>. QED
    BY <1>4, <1>6, <1>7, <1>8, <1>9

(* shutdownInLoop sends the FIN unless output is waiting.                  *)
LEMMA ShutdownSound ==
  ASSUME NEW r, Sound(r)
  PROVE  LET s == ShutdownInLoop(r)
         IN  /\ Sound(s)
             /\ s.loop = r.loop /\ s.closed = r.closed /\ s.destroyed = r.destroyed
             /\ s.state = r.state /\ s.out = r.out /\ s.events = r.events
             /\ s.armed = r.armed /\ s.mapped = r.mapped /\ s.closer = r.closer
             /\ s.reports = r.reports
             /\ IF IsWrite(r) THEN s.fin = r.fin ELSE s.fin = TRUE
  <1>1. CASE IsWrite(r)
    BY <1>1 DEF ShutdownInLoop
  <1>2. CASE ~IsWrite(r)
    <2>. DEFINE s == [r EXCEPT !.fin = TRUE]
    <2>1. /\ s \in Connection
          /\ s.loop = r.loop /\ s.closed = r.closed /\ s.destroyed = r.destroyed
          /\ s.state = r.state /\ s.out = r.out /\ s.events = r.events
          /\ s.armed = r.armed /\ s.mapped = r.mapped /\ s.closer = r.closer
          /\ s.reports = r.reports /\ s.fin = TRUE /\ s.index = r.index /\ s.fatal = r.fatal
      BY DEF Sound, Connection
    <2>2. ShutdownInLoop(r) = s
      BY <1>2 DEF ShutdownInLoop
    <2>. HIDE DEF s
    <2>3. Sound(s)
      BY <2>1 DEF Sound, Registered, WriteMatches, IsWrite
    <2>. QED
      BY <1>2, <2>1, <2>2, <2>3
  <1>. QED
    BY <1>1, <1>2

(* shutdown() itself changes the state and nothing else.                   *)
LEMMA DisconnectingSound ==
  ASSUME NEW r, Sound(r), NEW by \in Callers
  PROVE  LET s == Disconnecting(r, by)
         IN  /\ Sound(s)
             /\ s.loop = r.loop /\ s.closed = r.closed /\ s.destroyed = r.destroyed
             /\ s.state = "kDisconnecting" /\ s.out = r.out /\ s.events = r.events
             /\ s.armed = r.armed /\ s.mapped = r.mapped /\ s.fin = r.fin
             /\ s.closer \in {r.closer, by}
             /\ s.reports = r.reports
  <1>. DEFINE x == IF r.closer = "none" THEN by ELSE r.closer
              s == [r EXCEPT !.state = "kDisconnecting", !.closer = x]
  <1>1. x \in Callers \union {"none"} /\ x \in {r.closer, by}
    BY DEF Sound, Connection
  <1>2. Disconnecting(r, by) = s
    BY DEF Disconnecting
  <1>. HIDE DEF x
  <1>3. /\ s \in Connection
        /\ s.loop = r.loop /\ s.closed = r.closed /\ s.destroyed = r.destroyed
        /\ s.state = "kDisconnecting" /\ s.out = r.out /\ s.events = r.events
        /\ s.armed = r.armed /\ s.mapped = r.mapped /\ s.fin = r.fin
        /\ s.reports = r.reports /\ s.closer = x /\ s.index = r.index /\ s.fatal = r.fatal
    BY <1>1 DEF Sound, Connection
  <1>. HIDE DEF s
  <1>4. Sound(s)
    BY <1>3 DEF Sound, Registered, WriteMatches, IsWrite
  <1>. QED
    BY <1>1, <1>2, <1>3, <1>4

(* A handler of the loop that shuts a connection down leaves it either     *)
(* with its FIN sent or with output that will be followed by the FIN.      *)
LEMMA LoopShutdownLife ==
  ASSUME NEW r, Sound(r), LifeOK(r), r.state = "kConnected"
  PROVE  LifeOK(ShutdownInLoop(Disconnecting(r, "loop")))
  <1>. DEFINE d == Disconnecting(r, "loop")
              s == ShutdownInLoop(d)
  <1>1. /\ Sound(d)
        /\ d.closed = r.closed /\ d.destroyed = r.destroyed
        /\ d.state = "kDisconnecting" /\ d.out = r.out /\ d.events = r.events
        /\ d.armed = r.armed /\ d.mapped = r.mapped /\ d.fin = r.fin
        /\ d.closer \in {r.closer, "loop"}
        /\ d.reports = r.reports
    BY DisconnectingSound DEF Callers
  <1>. HIDE DEF d
  <1>2. /\ s.closed = r.closed /\ s.destroyed = r.destroyed
        /\ s.state = "kDisconnecting" /\ s.out = r.out /\ s.events = r.events
        /\ s.armed = r.armed /\ s.closer = d.closer /\ s.mapped = r.mapped
        /\ s.reports = r.reports
        /\ IF IsWrite(d) THEN s.fin = r.fin ELSE s.fin = TRUE
    BY <1>1, ShutdownSound
  <1>. HIDE DEF s
  <1>3. (IsWrite(s) <=> IsWrite(r)) /\ (IsWrite(d) <=> IsWrite(r))
    BY <1>1, <1>2 DEF IsWrite
  <1>4. LifeOK(s)
    BY <1>1, <1>2, <1>3 DEF LifeOK
  <1>. QED
    BY <1>4 DEF s, d

(* sendInLoop writes, buffers with write interest, or drops; it ends no    *)
(* phase of the connection's life.                                         *)
LEMMA SendSound ==
  ASSUME NEW r, Sound(r), NEW p, NEW by \in Callers, NEW k \in 0..MsgLen
  PROVE  LET s == SendInLoop(r, p, by, k)
         IN  /\ Sound(s)
             /\ s.loop = r.loop /\ s.closed = r.closed /\ s.destroyed = r.destroyed
             /\ s.state = r.state /\ s.sends = r.sends
             /\ LifeOK(r) /\ r.state # "kConnecting" => LifeOK(s)
  <1>. DEFINE n == IF WritesNow(r) THEN MsgLen - k ELSE MsgLen
              left == [i \in 1..n |-> by]
              m == (r.late \/ r.closed > 0)
              kept == [r EXCEPT !.out = @ \o left, !.late = m]
              s == SendInLoop(r, p, by, k)
  <1>0. r \in Connection /\ Registered(r) /\ WriteMatches(r)
    BY DEF Sound
  <1>1. CASE r.state = "kDisconnected" \/ (WritesNow(r) /\ Broken(r, p))
    BY <1>1 DEF SendInLoop
  <1>2. CASE ~(r.state = "kDisconnected" \/ (WritesNow(r) /\ Broken(r, p)))
    <2>1. /\ n \in Nat /\ left \in Seq(Callers)
          /\ left # <<>> <=> n # 0
          /\ m \in BOOLEAN
      BY ServerAssumption, IsASeq, EmptySeq DEF ServerAssumption
    <2>2. s = IF left # <<>> /\ ~IsWrite(r) THEN EnableWrite(kept) ELSE kept
      BY <1>2 DEF SendInLoop
    <2>3. ~WritesNow(r) => n # 0
      BY ServerAssumption DEF ServerAssumption
    <2>. HIDE DEF n, left, m
    <2>4. /\ r.out \o left \in Seq(Callers)
          /\ r.out \o left = <<>> <=> r.out = <<>> /\ left = <<>>
      BY <1>0, <2>1, ConcatProperties, ConcatEqualIffEmpty, EmptySeq DEF Connection
    <2>5. /\ kept \in Connection /\ kept.state = r.state /\ kept.loop = r.loop
          /\ kept.out = r.out \o left
          /\ kept.fin = r.fin /\ kept.events = r.events /\ kept.index = r.index
          /\ kept.armed = r.armed /\ kept.mapped = r.mapped
          /\ kept.fatal = r.fatal /\ kept.closer = r.closer /\ kept.reports = r.reports
          /\ kept.closed = r.closed /\ kept.destroyed = r.destroyed /\ kept.sends = r.sends
      BY <1>0, <2>1, <2>4 DEF Connection
    <2>6. Registered(kept)
      BY <1>0, <2>5 DEF Registered
    <2>7. LifeOK(r) => ~r.fin
      BY <1>2 DEF LifeOK, WritesNow, Broken
    <2>. DEFINE w == EnableWrite(kept)
    <2>. HIDE DEF kept
    <2>8. CASE left # <<>> /\ ~IsWrite(r)
      <3>1. /\ Reregistered(kept, w) /\ w.armed # {}
            /\ IsWrite(w) /\ ("in" \in w.events <=> "in" \in kept.events)
        BY <2>5, <2>6, EnableWriteKeeps
      <3>. HIDE DEF w
      <3>2. /\ w \in Connection /\ w.state = r.state /\ w.loop = r.loop
            /\ w.out = r.out \o left /\ w.fin = r.fin /\ w.closer = r.closer
            /\ w.reports = r.reports /\ w.closed = r.closed
            /\ w.destroyed = r.destroyed /\ w.sends = r.sends
            /\ "in" \in w.events <=> "in" \in r.events
        BY <2>5, <3>1 DEF Reregistered, SameButRegistration
      <3>3. w.out # <<>>
        BY <2>4, <2>8, <3>2
      <3>4. Sound(w)
        BY <3>1, <3>2, <3>3 DEF Sound, Reregistered, WriteMatches
      <3>5. ASSUME LifeOK(r), r.state # "kConnecting"
            PROVE  LifeOK(w)
        <4>1. r.state \in {"kConnected", "kDisconnecting"} /\ ~r.fin
          BY <1>0, <1>2, <2>7, <3>5 DEF Connection
        <4>2. r.state = "kConnected" /\ r.destroyed = 0
          BY <2>8, <3>5, <4>1 DEF LifeOK
        <4>. QED
          BY <3>1, <3>2, <3>3, <3>5, <4>1, <4>2 DEF LifeOK
      <3>. QED
        BY <2>2, <2>8, <3>2, <3>4, <3>5 DEF w
    <2>9. CASE ~(left # <<>> /\ ~IsWrite(r))
      <3>1. IsWrite(kept) <=> IsWrite(r)
        BY <2>5 DEF IsWrite
      <3>2. Sound(kept)
        BY <1>0, <2>4, <2>5, <2>6, <2>9, <3>1 DEF Sound, WriteMatches
      <3>3. ASSUME LifeOK(r), r.state # "kConnecting"
            PROVE  LifeOK(kept)
        <4>1. r.state \in {"kConnected", "kDisconnecting"} /\ ~r.fin
          BY <1>0, <1>2, <2>7, <3>3 DEF Connection
        <4>2. IsWrite(kept) <=> kept.out # <<>>
          BY <2>4, <2>5, <2>9, <3>1, <3>3, <4>1 DEF LifeOK
        <4>. QED
          BY <2>5, <3>1, <3>3, <4>1, <4>2 DEF LifeOK
      <3>. QED
        BY <2>2, <2>5, <2>9, <3>2, <3>3
    <2>. QED
      BY <2>8, <2>9
  <1>. QED
    BY <1>1, <1>2

(* handleWrite stops waiting when the output has gone, and then sends a    *)
(* FIN that waited for it.                                                 *)
LEMMA WriteSound ==
  ASSUME NEW r, Sound(r), NEW p, NEW k \in 0..Len(r.out)
  PROVE  LET s == HandleWrite(r, p, k)
         IN  /\ Sound(s)
             /\ s.loop = r.loop /\ s.closed = r.closed /\ s.destroyed = r.destroyed
             /\ s.state = r.state
             /\ LifeOK(r) /\ r.destroyed = 0 => LifeOK(s)
  <1>. DEFINE left == SubSeq(r.out, k + 1, Len(r.out))
              written == [r EXCEPT !.out = left]
              drained == DisableWrite(written)
              s == HandleWrite(r, p, k)
  <1>0. r \in Connection /\ Registered(r) /\ WriteMatches(r)
    BY DEF Sound
  <1>1. CASE ~IsWrite(r) \/ Broken(r, p) \/ k = 0
    <2>1. s = r
      BY <1>1 DEF HandleWrite
    <2>. QED
      BY <2>1
  <1>2. CASE ~(~IsWrite(r) \/ Broken(r, p) \/ k = 0)
    <2>1. left \in Seq(Callers)
      BY <1>0, SubSeqProperties DEF Connection
    <2>2. s = IF left # <<>> THEN written
              ELSE IF r.state = "kDisconnecting" THEN ShutdownInLoop(drained) ELSE drained
      BY <1>2 DEF HandleWrite
    <2>. HIDE DEF left
    <2>3. /\ written \in Connection /\ written.state = r.state /\ written.loop = r.loop
          /\ written.out = left /\ written.fin = r.fin /\ written.events = r.events
          /\ written.index = r.index /\ written.armed = r.armed /\ written.mapped = r.mapped
          /\ written.fatal = r.fatal /\ written.closer = r.closer
          /\ written.reports = r.reports /\ written.closed = r.closed
          /\ written.destroyed = r.destroyed
      BY <1>0, <2>1 DEF Connection
    <2>4. Registered(written)
      BY <1>0, <2>3 DEF Registered
    <2>. HIDE DEF written
    <2>5. IsWrite(r) /\ ~r.fin
      BY <1>2 DEF Broken
    <2>6. LifeOK(r) /\ r.destroyed = 0 =>
            /\ r.state \in {"kConnected", "kDisconnecting"} /\ "in" \in r.events
            /\ r.armed # {}
      BY <1>0, <2>5 DEF LifeOK, Connection, IsWrite
    <2>7. CASE left # <<>>
      <3>1. IsWrite(written)
        BY <2>3, <2>5 DEF IsWrite
      <3>2. Sound(written)
        BY <2>3, <2>4, <2>7, <3>1 DEF Sound, WriteMatches
      <3>3. LifeOK(r) /\ r.destroyed = 0 => LifeOK(written)
        BY <2>3, <2>5, <2>6, <2>7, <3>1 DEF LifeOK
      <3>. QED
        BY <2>2, <2>3, <2>7, <3>2, <3>3
    <2>8. CASE left = <<>>
      <3>1. /\ Reregistered(written, drained) /\ ~IsWrite(drained)
            /\ "in" \in drained.events <=> "in" \in written.events
            /\ "in" \in written.events => drained.armed # {}
        BY <2>3, <2>4, DisableWriteKeeps
      <3>. HIDE DEF drained
      <3>2. /\ drained \in Connection /\ drained.state = r.state /\ drained.loop = r.loop
            /\ drained.out = <<>> /\ drained.fin = r.fin /\ drained.closer = r.closer
            /\ drained.reports = r.reports /\ drained.closed = r.closed
            /\ drained.destroyed = r.destroyed /\ Registered(drained)
        BY <2>3, <2>8, <3>1 DEF Reregistered, SameButRegistration
      <3>3. Sound(drained)
        BY <3>1, <3>2 DEF Sound, WriteMatches
      <3>4. LifeOK(r) /\ r.destroyed = 0 =>
              "in" \in drained.events /\ drained.armed # {}
        BY <2>3, <2>6, <3>1
      <3>5. CASE r.state = "kDisconnecting"
        <4>. DEFINE f == ShutdownInLoop(drained)
        <4>1. /\ Sound(f)
              /\ f.loop = r.loop /\ f.closed = r.closed /\ f.destroyed = r.destroyed
              /\ f.state = r.state /\ f.out = <<>> /\ f.events = drained.events
              /\ f.armed = drained.armed /\ f.closer = r.closer
              /\ f.reports = r.reports /\ f.fin = TRUE
          BY <3>1, <3>2, <3>3, ShutdownSound
        <4>. HIDE DEF f
        <4>2. ~IsWrite(f)
          BY <3>1, <4>1 DEF IsWrite
        <4>3. LifeOK(r) /\ r.destroyed = 0 => LifeOK(f)
          BY <2>6, <3>4, <3>5, <4>1, <4>2 DEF LifeOK
        <4>. QED
          BY <2>2, <2>8, <3>5, <4>1, <4>3 DEF f
      <3>6. CASE r.state # "kDisconnecting"
        <4>1. LifeOK(r) /\ r.destroyed = 0 => LifeOK(drained)
          BY <2>5, <2>6, <3>1, <3>2, <3>4, <3>6 DEF LifeOK
        <4>. QED
          BY <2>2, <2>8, <3>2, <3>3, <3>6, <4>1
      <3>. QED
        BY <3>5, <3>6
    <2>. QED
      BY <2>7, <2>8
  <1>. QED
    BY <1>1, <1>2

-----------------------------------------------------------------------------
(* Queues.                                                                 *)

(* f is pending on loop l.                                                 *)
InQueue(q, l, f) == \E i \in DOMAIN q[l] : q[l][i] = f

(* queueInLoop adds one functor to one loop, at the end.                   *)
LEMMA PostQueue ==
  ASSUME NEW q \in [Loops -> Seq(Functors)], NEW l \in Loops, NEW f \in Functors
  PROVE  /\ Post(q, l, f) \in [Loops -> Seq(Functors)]
         /\ \A m \in Loops : m # l => Post(q, l, f)[m] = q[m]
         /\ Post(q, l, f)[l] = Append(q[l], f)
         /\ \A m \in Loops : \A g : InQueue(Post(q, l, f), m, g) <=>
                                    InQueue(q, m, g) \/ (m = l /\ g = f)
  <1>. DEFINE p == Post(q, l, f)
  <1>1. /\ p \in [Loops -> Seq(Functors)]
        /\ \A m \in Loops : m # l => p[m] = q[m]
        /\ p[l] = Append(q[l], f)
    BY AppendProperties DEF Post
  <1>2. /\ DOMAIN q[l] = 1..Len(q[l]) /\ Len(q[l]) \in Nat
        /\ DOMAIN p[l] = 1..(Len(q[l]) + 1)
        /\ \A i \in 1..Len(q[l]) : p[l][i] = q[l][i]
        /\ p[l][Len(q[l]) + 1] = f
    BY <1>1, AppendProperties, LenProperties
  <1>. HIDE DEF p
  <1>3. ASSUME NEW g
        PROVE  InQueue(p, l, g) <=> InQueue(q, l, g) \/ g = f
    BY <1>2 DEF InQueue
  <1>4. ASSUME NEW m \in Loops, NEW g, m # l
        PROVE  InQueue(p, m, g) <=> InQueue(q, m, g)
    BY <1>1, <1>4 DEF InQueue
  <1>. QED
    BY <1>1, <1>3, <1>4 DEF p

(* Running a functor takes the first one of its loop.                      *)
LEMMA RestQueue ==
  ASSUME queue \in [Loops -> Seq(Functors)], NEW l \in Loops, queue[l] # <<>>
  PROVE  /\ Rest(l) \in [Loops -> Seq(Functors)]
         /\ \A m \in Loops : m # l => Rest(l)[m] = queue[m]
         /\ Rest(l)[l] = Tail(queue[l])
         /\ Head(queue[l]) \in Functors
         /\ InQueue(queue, l, Head(queue[l]))
         /\ \A m \in Loops : \A g : InQueue(Rest(l), m, g) => InQueue(queue, m, g)
         /\ \A m \in Loops : \A g :
              InQueue(queue, m, g) /\ (m # l \/ g # Head(queue[l])) => InQueue(Rest(l), m, g)
  <1>. DEFINE p == Rest(l)
              h == Head(queue[l])
  <1>1. /\ p \in [Loops -> Seq(Functors)]
        /\ \A m \in Loops : m # l => p[m] = queue[m]
        /\ p[l] = Tail(queue[l])
        /\ h \in Functors
    BY HeadTailProperties DEF Rest
  <1>2. /\ DOMAIN queue[l] = 1..Len(queue[l]) /\ Len(queue[l]) \in Nat \ {0}
        /\ DOMAIN p[l] = 1..(Len(queue[l]) - 1)
        /\ \A i \in 1..(Len(queue[l]) - 1) : p[l][i] = queue[l][i + 1]
        /\ queue[l][1] = h
    BY <1>1, HeadTailProperties, LenProperties, EmptySeq
  <1>. HIDE DEF p, h
  <1>3. ASSUME NEW g, InQueue(p, l, g)
        PROVE  InQueue(queue, l, g)
    <2>1. PICK i \in 1..(Len(queue[l]) - 1) : p[l][i] = g
      BY <1>2, <1>3 DEF InQueue
    <2>2. i + 1 \in DOMAIN queue[l] /\ queue[l][i + 1] = g
      BY <1>2, <2>1
    <2>. QED
      BY <2>2 DEF InQueue
  <1>4. ASSUME NEW g, InQueue(queue, l, g), g # h
        PROVE  InQueue(p, l, g)
    <2>1. PICK i \in 1..Len(queue[l]) : queue[l][i] = g
      BY <1>2, <1>4 DEF InQueue
    <2>2. i - 1 \in DOMAIN p[l] /\ p[l][i - 1] = g
      BY <1>2, <1>4, <2>1
    <2>. QED
      BY <2>2 DEF InQueue
  <1>5. ASSUME NEW m \in Loops, NEW g, m # l
        PROVE  InQueue(p, m, g) <=> InQueue(queue, m, g)
    BY <1>1, <1>5 DEF InQueue
  <1>6. InQueue(queue, l, h)
    BY <1>2 DEF InQueue
  <1>. QED
    BY <1>1, <1>3, <1>4, <1>5, <1>6 DEF p, h

-----------------------------------------------------------------------------
(* Whatever the server still refers to exists, and every connection is     *)
(* sound.                                                                  *)
Referenced ==
  /\ \A c \in Conn : Created(c) <=> c < m_nextConnId
  /\ \A c \in m_connections : Created(c)
  /\ \A l \in Loops, f \in Functors : InQueue(queue, l, f) => Created(f.c)
  /\ \A l \in Loops : handling[l] # Idle => Created(handling[l].c)
  /\ \A u \in Users : user[u] # Idle => Created(user[u].c)

(* Every connection is sound.                                              *)
Wired == \A c \in Conn : Created(c) => Sound(conn[c])

(* The invariant that holds whatever the users call.                       *)
CommonInv == TypeOK /\ Referenced /\ Wired

(* A step that changes one existing connection, soundly.                   *)
LEMMA TouchOne ==
  ASSUME TypeOK, Wired, NEW c \in Conn, Created(c), NEW s, Sound(s),
         conn' = [conn EXCEPT ![c] = s]
  PROVE  /\ conn' \in [Conn -> Connection \union {NoConnection}]
         /\ \A d \in Conn : Created(d)' <=> Created(d)
         /\ conn'[c] = s
         /\ \A d \in Conn : d # c => conn'[d] = conn[d]
         /\ Wired'
  <1>1. s \in Connection /\ s.state # "none"
    BY DEF Sound, Connection
  <1>2. /\ conn' \in [Conn -> Connection \union {NoConnection}]
        /\ conn'[c] = s
        /\ \A d \in Conn : d # c => conn'[d] = conn[d]
    BY <1>1 DEF TypeOK
  <1>3. \A d \in Conn : Created(d)' <=> Created(d)
    BY <1>1, <1>2 DEF Created
  <1>4. Wired'
    BY <1>2, <1>3 DEF Wired
  <1>. QED
    BY <1>2, <1>3, <1>4

(* What a loop may be dispatching.                                         *)
Handling == {Idle} \union [c : Conn, revents : (SUBSET Revents) \ {{}}]

(* A loop that is not idle dispatches an event of a connection.            *)
LEMMA HandlingType ==
  ASSUME TypeOK, NEW l \in Loops, handling[l] # Idle
  PROVE  handling[l] \in [c : Conn, revents : (SUBSET Revents) \ {{}}]
  BY DEF TypeOK

(* A dispatched callback leaves the rest of the event.                     *)
LEMMA DispatchedType ==
  ASSUME TypeOK, NEW l \in Loops, NEW e, Dispatching(l, e), Dispatched(l, e)
  PROVE  /\ handling' \in [Loops -> Handling]
         /\ \A m \in Loops : m # l => handling'[m] = handling[m]
         /\ handling'[l] # Idle =>
              /\ handling'[l].c = handling[l].c
              /\ handling'[l].revents = handling[l].revents \ {e}
  <1>1. /\ handling[l] \in [c : Conn, revents : (SUBSET Revents) \ {{}}]
        /\ e \in handling[l].revents
    BY HandlingType DEF Dispatching
  <1>. DEFINE rest == handling[l].revents \ {e}
              h == [c |-> handling[l].c, revents |-> rest]
  <1>2. handling' = [handling EXCEPT ![l] = IF handling[l].revents = {e} THEN Idle ELSE h]
    BY DEF Dispatched
  <1>3. handling[l].revents # {e} => rest \in (SUBSET Revents) \ {{}}
    BY <1>1
  <1>. HIDE DEF rest
  <1>4. handling[l].revents # {e} => h \in [c : Conn, revents : (SUBSET Revents) \ {{}}]
    BY <1>1, <1>3
  <1>5. h.c = handling[l].c /\ h.revents = rest
    OBVIOUS
  <1>. HIDE DEF h
  <1>. QED
    BY <1>2, <1>4, <1>5 DEF TypeOK, Handling, rest

-----------------------------------------------------------------------------
(* What a step does to each part of the state, when it creates nothing.    *)
ConnKept ==
  /\ conn' \in [Conn -> Connection \union {NoConnection}]
  /\ \A d \in Conn : Created(d)' <=> Created(d)
  /\ Wired'
(* A functor that is new in a queue is for a connection that exists.       *)
QueueKept ==
  /\ queue' \in [Loops -> Seq(Functors)]
  /\ \A l \in Loops, g \in Functors : InQueue(queue', l, g) => InQueue(queue, l, g) \/ Created(g.c)
(* So is what a loop handles,                                              *)
HandlingKept ==
  /\ handling' \in [Loops -> Handling]
  /\ \A l \in Loops : handling'[l] # Idle => handling'[l].c \in Conn /\ Created(handling'[l].c)
(* and what a user thread calls.                                           *)
UserKept ==
  /\ user' \in [Users -> {Idle} \union [op : UserOps, c : Conn]]
  /\ \A u \in Users : user'[u] # Idle => user'[u].c \in Conn /\ Created(user'[u].c)
(* The peers and the server change within their ranges.                    *)
RestKept ==
  /\ peer' \in [Conn -> {"open", "eof", "reset", "dead"}]
  /\ server' \in {"up", "dtor", "gone"}
  /\ UNCHANGED <<m_nextConnId, pool>>

(* The parts together: a step that creates nothing keeps the invariant.    *)
LEMMA StepKeeps ==
  ASSUME CommonInv, ConnKept, QueueKept, HandlingKept, UserKept, RestKept,
         m_connections' \subseteq m_connections
  PROVE  CommonInv'
  <1>. USE DEF CommonInv
  <1>1. TypeOK'
    BY DEF TypeOK, ConnKept, QueueKept, HandlingKept, UserKept, RestKept, Handling, pool
  <1>2. Referenced'
    <2>1. \A c \in Conn : Created(c)' <=> c < m_nextConnId'
      BY DEF Referenced, ConnKept, RestKept
    <2>2. \A c \in m_connections' : Created(c)'
      BY DEF Referenced, ConnKept, TypeOK
    <2>3. \A l \in Loops, f \in Functors : InQueue(queue', l, f) => Created(f.c)'
      <3>1. \A f \in Functors : f.c \in Conn
        BY DEF Functors
      <3>. QED
        BY <3>1 DEF Referenced, ConnKept, QueueKept
    <2>4. (\A l \in Loops : handling[l] # Idle => Created(handling[l].c))'
      BY DEF ConnKept, HandlingKept, Created
    <2>5. (\A u \in Users : user[u] # Idle => Created(user[u].c))'
      BY DEF ConnKept, UserKept, Created
    <2>. QED
      BY <2>1, <2>2, <2>3, <2>4, <2>5 DEF Referenced
  <1>. QED
    BY <1>1, <1>2 DEF ConnKept

(* What a step leaves alone it keeps.                                      *)
LEMMA UnchangedKept ==
  ASSUME CommonInv
  PROVE  /\ UNCHANGED conn => ConnKept
         /\ UNCHANGED queue => QueueKept
         /\ UNCHANGED handling => HandlingKept
         /\ UNCHANGED user => UserKept
         /\ UNCHANGED <<peer, m_nextConnId, pool, server>> => RestKept
  <1>1. \A l \in Loops : handling[l] # Idle => handling[l].c \in Conn
    BY HandlingType DEF CommonInv
  <1>2. \A u \in Users : user[u] # Idle => user[u].c \in Conn
    BY DEF CommonInv, TypeOK
  <1>3. UNCHANGED conn => ConnKept
    BY DEF CommonInv, TypeOK, ConnKept, Wired, Created
  <1>4. UNCHANGED queue => QueueKept
    BY DEF CommonInv, TypeOK, QueueKept
  <1>5. UNCHANGED handling => HandlingKept
    BY <1>1 DEF CommonInv, TypeOK, HandlingKept, Referenced, Handling
  <1>6. UNCHANGED user => UserKept
    BY <1>2 DEF CommonInv, TypeOK, UserKept, Referenced
  <1>7. UNCHANGED <<peer, m_nextConnId, pool, server>> => RestKept
    BY DEF CommonInv, TypeOK, RestKept
  <1>. QED
    BY <1>3, <1>4, <1>5, <1>6, <1>7

(* A functor of a connection is a functor.                                 *)
LEMMA FunctorType ==
  ASSUME NEW fn \in {"connectEstablished", "removeConnectionInLoop", "connectDestroyed",
                     "sendInLoop", "shutdownInLoop", "writeComplete"},
         NEW c \in Conn, NEW by \in Callers
  PROVE  /\ Functor(fn, c, by) \in Functors
         /\ Functor(fn, c, by).fn = fn /\ Functor(fn, c, by).c = c /\ Functor(fn, c, by).by = by
  BY DEF Functor, Functors

(* A finished write posts writeCompleteCallback, or nothing.               *)
LEMMA CompletedQueue ==
  ASSUME NEW q \in [Loops -> Seq(Functors)], NEW l \in Loops, NEW c \in Conn, NEW yes
  PROVE  LET p == Completed(q, l, c, yes)
         IN  /\ p \in [Loops -> Seq(Functors)]
             /\ p = q \/ p = Post(q, l, Functor("writeComplete", c, "loop"))
  BY FunctorType, PostQueue DEF Completed, Callers

(* The connection newConnection constructs is sound.                       *)
LEMMA NewConnectionSound ==
  ASSUME NEW l \in Loops
  PROVE  LET r == NewConnection(l)
         IN  /\ Sound(r) /\ LifeOK(r) /\ r.loop = l /\ r.state = "kConnecting"
             /\ r.closed = 0 /\ r.destroyed = 0
  <1>. DEFINE r == NewConnection(l)
  <1>1. r \in Connection
    BY ServerAssumption, EmptySeq DEF ServerAssumption, NewConnection, Connection, Callers
  <1>2. /\ r.state = "kConnecting" /\ r.loop = l /\ r.out = <<>> /\ r.fin = FALSE
        /\ r.events = {} /\ r.index = kNew /\ r.mapped = FALSE /\ r.armed = {}
        /\ r.fatal = FALSE /\ r.closer = "none" /\ r.reports = <<>>
        /\ r.closed = 0 /\ r.destroyed = 0
    BY DEF NewConnection
  <1>. HIDE DEF r
  <1>3. ~IsWrite(r)
    BY <1>2 DEF IsWrite
  <1>4. Sound(r) /\ LifeOK(r)
    BY <1>1, <1>2, <1>3 DEF Sound, Registered, WriteMatches, LifeOK
  <1>. QED
    BY <1>2, <1>4 DEF r

(* The round robin stays within the pool.                                  *)
LEMMA NextLoopType ==
  ASSUME TypeOK
  PROVE  /\ NextLoop \in Loops
         /\ NextIndex \in 0..m_numThreads
         /\ NextIndex = m_numThreads => m_numThreads = 0
  BY ServerAssumption DEF ServerAssumption, TypeOK, NextLoop, NextIndex, Loops

(* A new connection: the one step that creates.                            *)
LEMMA AcceptCommon == ASSUME CommonInv, Accept PROVE CommonInv'
  <1>. DEFINE c == m_nextConnId
              r == NewConnection(NextLoop)
              s == IF NextLoop = 0 THEN ConnectEstablished(r) ELSE r
  <1>1. c \in Conn /\ ~Created(c)
    BY ServerAssumption DEF CommonInv, TypeOK, Referenced, Accept, Conn, ServerAssumption
  <1>2. Sound(s)
    BY NextLoopType, NewConnectionSound, EstablishedSound DEF CommonInv
  <1>3. conn' = [conn EXCEPT ![c] = s]
    BY DEF Accept
  <1>. HIDE DEF s
  <1>4. s \in Connection /\ s.state # "none"
    BY <1>2 DEF Sound, Connection
  <1>5. /\ conn' \in [Conn -> Connection \union {NoConnection}]
        /\ conn'[c] = s
        /\ \A d \in Conn : d # c => conn'[d] = conn[d]
    BY <1>1, <1>3, <1>4 DEF CommonInv, TypeOK
  <1>6. \A d \in Conn : Created(d)' <=> Created(d) \/ d = c
    BY <1>4, <1>5 DEF Created
  <1>7. Wired'
    BY <1>2, <1>5, <1>6 DEF CommonInv, Wired
  <1>8. /\ queue' \in [Loops -> Seq(Functors)]
        /\ \A l \in Loops, g \in Functors :
             InQueue(queue', l, g) => InQueue(queue, l, g) \/ g.c = c
    <2>1. CASE NextLoop = 0
      BY <2>1 DEF Accept, CommonInv, TypeOK
    <2>2. CASE NextLoop # 0
      <3>1. queue' = Post(queue, NextLoop, Functor("connectEstablished", c, "server"))
        BY <2>2 DEF Accept
      <3>2. /\ Functor("connectEstablished", c, "server") \in Functors
            /\ Functor("connectEstablished", c, "server").c = c
        BY <1>1, FunctorType DEF Callers
      <3>. QED
        BY <3>1, <3>2, NextLoopType, PostQueue DEF CommonInv, TypeOK
    <2>. QED
      BY <2>1, <2>2
  <1>9. TypeOK'
    <2>1. m_nextConnId' \in 1..MaxConn + 1 /\ m_connections' \subseteq Conn
      BY <1>1, ServerAssumption DEF Accept, CommonInv, TypeOK, Conn, ServerAssumption
    <2>2. /\ m_numThreads' \in 0..MaxThreads
          /\ m_next' \in 0..m_numThreads'
          /\ m_next' = m_numThreads' => m_numThreads' = 0
      BY NextLoopType DEF Accept, CommonInv, TypeOK
    <2>. QED
      BY <1>5, <1>8, <2>1, <2>2 DEF Accept, CommonInv, TypeOK
  <1>10. Referenced'
    <2>1. \A d \in Conn : Created(d)' <=> d < m_nextConnId'
      BY <1>1, <1>6 DEF Accept, CommonInv, Referenced, TypeOK, Conn
    <2>2. \A d \in m_connections' : Created(d)'
      BY <1>1, <1>6 DEF Accept, CommonInv, Referenced, TypeOK
    <2>3. (\A l \in Loops, f \in Functors : InQueue(queue, l, f) => Created(f.c))'
      <3>1. \A f \in Functors : f.c \in Conn
        BY DEF Functors
      <3>. QED
        BY <1>6, <1>8, <3>1 DEF CommonInv, Referenced
    <2>4. (\A l \in Loops : handling[l] # Idle => Created(handling[l].c))'
      BY <1>6, HandlingType DEF Accept, CommonInv, Referenced
    <2>5. (\A u \in Users : user[u] # Idle => Created(user[u].c))'
      BY <1>6 DEF Accept, CommonInv, Referenced, TypeOK
    <2>. QED
      BY <2>1, <2>2, <2>3, <2>4, <2>5 DEF Referenced
  <1>. QED
    BY <1>7, <1>9, <1>10 DEF CommonInv

-----------------------------------------------------------------------------
(* The functor a loop is about to run, and what is left of the queue.      *)
LEMMA HeadFacts ==
  ASSUME CommonInv, NEW l \in Loops, NEW fn, Pending(l, fn)
  PROVE  /\ queue[l] # <<>> /\ Head(queue[l]) \in Functors
         /\ Target(l) \in Conn /\ Created(Target(l)) /\ Sound(conn[Target(l)])
         /\ conn[Target(l)].loop \in Loops
         /\ Rest(l) \in [Loops -> Seq(Functors)]
         /\ \A m \in Loops : \A g : InQueue(Rest(l), m, g) => InQueue(queue, m, g)
         /\ queue' = Rest(l) => QueueKept
  <1>1. queue[l] # <<>> /\ queue \in [Loops -> Seq(Functors)]
    BY DEF Pending, CommonInv, TypeOK
  <1>2. /\ Head(queue[l]) \in Functors
        /\ InQueue(queue, l, Head(queue[l]))
        /\ Rest(l) \in [Loops -> Seq(Functors)]
        /\ \A m \in Loops : \A g : InQueue(Rest(l), m, g) => InQueue(queue, m, g)
    BY <1>1, RestQueue
  <1>3. Target(l) \in Conn /\ Created(Target(l))
    BY <1>2 DEF Target, Functors, CommonInv, Referenced
  <1>4. Sound(conn[Target(l)])
    BY <1>3 DEF CommonInv, Wired
  <1>5. conn[Target(l)].loop \in Loops
    BY <1>4 DEF Sound, Connection
  <1>. QED
    BY <1>1, <1>2, <1>3, <1>4, <1>5 DEF QueueKept

(* A functor posted to what is left of the queue concerns a connection.    *)
LEMMA PostKept ==
  ASSUME CommonInv, NEW q \in [Loops -> Seq(Functors)],
         \A m \in Loops : \A g : InQueue(q, m, g) => InQueue(queue, m, g),
         NEW l \in Loops, NEW f \in Functors, Created(f.c), queue' = Post(q, l, f)
  PROVE  QueueKept
  BY PostQueue DEF QueueKept

(* So does writeCompleteCallback.                                          *)
LEMMA CompletedKept ==
  ASSUME CommonInv, NEW q \in [Loops -> Seq(Functors)],
         \A m \in Loops : \A g : InQueue(q, m, g) => InQueue(queue, m, g),
         NEW l \in Loops, NEW c \in Conn, Created(c), NEW yes,
         queue' = Completed(q, l, c, yes)
  PROVE  QueueKept
  <1>. DEFINE f == Functor("writeComplete", c, "loop")
  <1>1. f \in Functors /\ f.c = c
    BY FunctorType DEF Callers
  <1>. HIDE DEF f
  <1>2. CASE queue' = q
    BY <1>2 DEF QueueKept
  <1>3. CASE queue' = Post(q, l, f)
    BY <1>1, <1>3, PostKept
  <1>. QED
    BY <1>2, <1>3, CompletedQueue DEF f

(* Changing one connection soundly keeps them all.                         *)
LEMMA TouchKept ==
  ASSUME CommonInv, NEW c \in Conn, Created(c), NEW s, Sound(s),
         conn' = [conn EXCEPT ![c] = s]
  PROVE  ConnKept
  BY TouchOne DEF CommonInv, ConnKept

(* The functors of a loop.                                                 *)
LEMMA RunFunctorCommon == ASSUME CommonInv, NEW l \in Loops, RunFunctor(l) PROVE CommonInv'
  <1>. DEFINE c == Target(l)
              r == conn[c]
  <1>1. CASE RunConnectEstablished(l)
    <2>1. ConnKept /\ QueueKept
      BY <1>1, HeadFacts, EstablishedSound, TouchKept DEF RunConnectEstablished
    <2>. QED
      BY <1>1, <2>1, UnchangedKept, StepKeeps DEF RunConnectEstablished
  <1>2. CASE RunRemoveConnection(l)
    <2>. DEFINE f == Functor("connectDestroyed", Target(l), "server")
    <2>1. f \in Functors /\ f.c = Target(l)
      BY <1>2, HeadFacts, FunctorType DEF RunRemoveConnection, Callers
    <2>2. queue' = Post(Rest(l), conn[Target(l)].loop, f)
      BY <1>2 DEF RunRemoveConnection
    <2>. HIDE DEF f
    <2>3. QueueKept
      BY <1>2, <2>1, <2>2, HeadFacts, PostKept DEF RunRemoveConnection
    <2>. QED
      BY <1>2, <2>3, UnchangedKept, StepKeeps DEF RunRemoveConnection
  <1>3. CASE RunConnectDestroyed(l)
    <2>1. ConnKept /\ QueueKept
      BY <1>3, HeadFacts, DestroyedSound, TouchKept DEF RunConnectDestroyed
    <2>. QED
      BY <1>3, <2>1, UnchangedKept, StepKeeps DEF RunConnectDestroyed
  <1>4. CASE RunSendInLoop(l)
    <2>1. Pending(l, "sendInLoop")
      BY <1>4 DEF RunSendInLoop
    <2>2. PICK k \in 0..MsgLen :
            /\ conn' = [conn EXCEPT ![c] = SendInLoop(r, peer[c], Head(queue[l]).by, k)]
            /\ queue' = Completed(Rest(l), l, c, WritesNow(r) /\ ~Broken(r, peer[c]) /\ k = MsgLen)
      BY <1>4 DEF RunSendInLoop
    <2>3. Head(queue[l]).by \in Callers
      BY <2>1, HeadFacts DEF Functors
    <2>4. Sound(SendInLoop(r, peer[c], Head(queue[l]).by, k))
      BY <2>1, <2>3, HeadFacts, SendSound
    <2>5. ConnKept
      BY <2>1, <2>2, <2>4, HeadFacts, TouchKept
    <2>6. QueueKept
      BY <2>1, <2>2, HeadFacts, CompletedKept
    <2>. QED
      BY <1>4, <2>5, <2>6, UnchangedKept, StepKeeps DEF RunSendInLoop
  <1>5. CASE RunShutdownInLoop(l)
    <2>1. ConnKept /\ QueueKept
      BY <1>5, HeadFacts, ShutdownSound, TouchKept DEF RunShutdownInLoop
    <2>. QED
      BY <1>5, <2>1, UnchangedKept, StepKeeps DEF RunShutdownInLoop
  <1>6. CASE RunWriteComplete(l)
    <2>1. QueueKept
      BY <1>6, HeadFacts DEF RunWriteComplete
    <2>. QED
      BY <1>6, <2>1, UnchangedKept, StepKeeps DEF RunWriteComplete
  <1>. QED
    BY <1>1, <1>2, <1>3, <1>4, <1>5, <1>6 DEF RunFunctor

-----------------------------------------------------------------------------
(* The connection whose event a loop is dispatching.                       *)
LEMMA HandledFacts ==
  ASSUME CommonInv, NEW l \in Loops, NEW e, Dispatching(l, e), Dispatched(l, e)
  PROVE  /\ handling[l].c \in Conn /\ Created(handling[l].c)
         /\ Sound(conn[handling[l].c]) /\ conn[handling[l].c].loop \in Loops
         /\ HandlingKept
  <1>1. /\ handling[l] \in [c : Conn, revents : (SUBSET Revents) \ {{}}]
        /\ handling[l] # Idle
    BY HandlingType DEF CommonInv, Dispatching
  <1>2. handling[l].c \in Conn /\ Created(handling[l].c)
    BY <1>1 DEF CommonInv, Referenced
  <1>3. Sound(conn[handling[l].c]) /\ conn[handling[l].c].loop \in Loops
    BY <1>2 DEF CommonInv, Wired, Sound, Connection
  <1>4. HandlingKept
    <2>1. /\ handling' \in [Loops -> Handling]
          /\ \A m \in Loops : m # l => handling'[m] = handling[m]
          /\ handling'[l] # Idle => handling'[l].c = handling[l].c
      BY DispatchedType DEF CommonInv
    <2>2. \A m \in Loops : handling[m] # Idle => handling[m].c \in Conn /\ Created(handling[m].c)
      BY HandlingType DEF CommonInv, Referenced
    <2>. QED
      BY <1>2, <2>1, <2>2 DEF HandlingKept
  <1>. QED
    BY <1>2, <1>3, <1>4

(* closeCallback only erases, or only posts a functor of the connection.   *)
LEMMA CloseCallbackKept ==
  ASSUME CommonInv, NEW l \in Loops, NEW c \in Conn, Created(c),
         conn[c].loop \in Loops, CloseCallback(l, c)
  PROVE  QueueKept /\ m_connections' \subseteq m_connections
  <1>1. 0 \in Loops
    BY ServerAssumption DEF ServerAssumption, Loops
  <1>2. \A fn \in {"connectDestroyed", "removeConnectionInLoop"} :
          Functor(fn, c, "server") \in Functors /\ Functor(fn, c, "server").c = c
    BY FunctorType DEF Callers
  <1>3. queue \in [Loops -> Seq(Functors)]
    BY DEF CommonInv, TypeOK
  <1>4. CASE l = 0
    <2>1. queue' = Post(queue, conn[c].loop, Functor("connectDestroyed", c, "server"))
      BY <1>4 DEF CloseCallback
    <2>2. QueueKept
      BY <1>2, <1>3, <2>1, PostKept
    <2>. QED
      BY <1>4, <2>2 DEF CloseCallback
  <1>5. CASE l # 0
    <2>1. queue' = Post(queue, 0, Functor("removeConnectionInLoop", c, "server"))
      BY <1>5 DEF CloseCallback
    <2>2. QueueKept
      BY <1>1, <1>2, <1>3, <2>1, PostKept
    <2>. QED
      BY <1>5, <2>2 DEF CloseCallback
  <1>. QED
    BY <1>4, <1>5

(* The read handler's sends are counted.                                   *)
LEMMA CountedSound ==
  ASSUME NEW r, Sound(r), NEW n \in 0..MaxSend, NEW s, s = [r EXCEPT !.sends = n]
  PROVE  /\ Sound(s) /\ (LifeOK(r) => LifeOK(s))
         /\ s.loop = r.loop /\ s.closed = r.closed /\ s.destroyed = r.destroyed
         /\ s.state = r.state
  <1>1. /\ s \in Connection /\ s.state = r.state /\ s.loop = r.loop /\ s.out = r.out
        /\ s.fin = r.fin /\ s.events = r.events /\ s.index = r.index
        /\ s.armed = r.armed /\ s.mapped = r.mapped
        /\ s.fatal = r.fatal /\ s.closer = r.closer /\ s.reports = r.reports
        /\ s.closed = r.closed /\ s.destroyed = r.destroyed
    BY DEF Sound, Connection
  <1>2. Sound(s)
    BY <1>1 DEF Sound, Registered, WriteMatches, IsWrite
  <1>3. LifeOK(r) => LifeOK(s)
    BY <1>1 DEF LifeOK, IsWrite
  <1>. QED
    BY <1>1, <1>2, <1>3

(* What the message callback does to the connection.                       *)
ReadResult(r, p, sends, shut, k) ==
  LET sent == IF sends THEN [SendInLoop(r, p, "loop", k) EXCEPT !.sends = @ + 1] ELSE r
  IN  IF shut /\ sent.state = "kConnected"
      THEN ShutdownInLoop(Disconnecting(sent, "loop"))
      ELSE sent

(* Whatever the message callback sends, and whether or not it shuts the    *)
(* connection down, the connection stays sound.                            *)
LEMMA ReadResultSound ==
  ASSUME NEW r, Sound(r), NEW p, NEW sends \in BOOLEAN, NEW shut \in BOOLEAN,
         NEW k \in 0..MsgLen, sends => r.sends < MaxSend
  PROVE  LET s == ReadResult(r, p, sends, shut, k)
         IN  /\ Sound(s) /\ s.loop = r.loop /\ s.closed = r.closed /\ s.destroyed = r.destroyed
             /\ r.state # "kConnecting" => s.state # "kConnecting"
             /\ LifeOK(r) /\ r.state # "kConnecting" => LifeOK(s)
  <1>. DEFINE a == SendInLoop(r, p, "loop", k)
              b == [a EXCEPT !.sends = @ + 1]
              sent == IF sends THEN b ELSE r
  <1>1. /\ Sound(a) /\ a.loop = r.loop /\ a.closed = r.closed /\ a.destroyed = r.destroyed
        /\ a.state = r.state /\ a.sends = r.sends
        /\ LifeOK(r) /\ r.state # "kConnecting" => LifeOK(a)
    BY SendSound DEF Callers
  <1>. HIDE DEF a
  <1>2. sends =>
          /\ Sound(b) /\ b.loop = r.loop /\ b.closed = r.closed /\ b.destroyed = r.destroyed
          /\ b.state = r.state
          /\ LifeOK(r) /\ r.state # "kConnecting" => LifeOK(b)
    <2>1. sends => a.sends + 1 \in 0..MaxSend
      BY <1>1, ServerAssumption DEF Sound, Connection, ServerAssumption
    <2>2. b = [a EXCEPT !.sends = a.sends + 1]
      OBVIOUS
    <2>. HIDE DEF b
    <2>. QED
      BY <1>1, <2>1, <2>2, CountedSound
  <1>. HIDE DEF b
  <1>3. /\ Sound(sent) /\ sent.loop = r.loop /\ sent.closed = r.closed
        /\ sent.destroyed = r.destroyed /\ sent.state = r.state
        /\ LifeOK(r) /\ r.state # "kConnecting" => LifeOK(sent)
    BY <1>2
  <1>4. ReadResult(r, p, sends, shut, k) =
          IF shut /\ sent.state = "kConnected"
          THEN ShutdownInLoop(Disconnecting(sent, "loop")) ELSE sent
    BY DEF ReadResult, b, a
  <1>. HIDE DEF sent
  <1>5. CASE ~(shut /\ sent.state = "kConnected")
    BY <1>3, <1>4, <1>5
  <1>6. CASE shut /\ sent.state = "kConnected"
    <2>. DEFINE d == Disconnecting(sent, "loop")
                s == ShutdownInLoop(d)
    <2>1. /\ Sound(d) /\ d.loop = r.loop /\ d.closed = r.closed
          /\ d.destroyed = r.destroyed /\ d.state = "kDisconnecting"
      BY <1>3, DisconnectingSound DEF Callers
    <2>. HIDE DEF d
    <2>2. /\ Sound(s) /\ s.loop = r.loop /\ s.closed = r.closed
          /\ s.destroyed = r.destroyed /\ s.state = "kDisconnecting"
      BY <2>1, ShutdownSound
    <2>. HIDE DEF s
    <2>3. LifeOK(r) /\ r.state # "kConnecting" => LifeOK(s)
      BY <1>3, <1>6, LoopShutdownLife DEF s, d
    <2>. QED
      BY <1>4, <1>6, <2>2, <2>3 DEF s, d
  <1>. QED
    BY <1>5, <1>6

(* ReadMessage, with its choices named.                                    *)
LEMMA ReadMessageFacts ==
  ASSUME NEW l \in Loops, ReadMessage(l)
  PROVE  \E sends, shut \in BOOLEAN, k \in 0..MsgLen, yes \in BOOLEAN :
           /\ sends => conn[handling[l].c].sends < MaxSend
           /\ conn' = [conn EXCEPT ![handling[l].c] =
                         ReadResult(conn[handling[l].c], peer[handling[l].c], sends, shut, k)]
           /\ queue' = Completed(queue, l, handling[l].c, yes)
  <1>. DEFINE c == handling[l].c
              r == conn[c]
  <1>1. PICK send \in BOOLEAN, shut \in BOOLEAN, k \in 0..MsgLen :
          LET sends == send /\ r.state = "kConnected"
              sent  == IF sends THEN [SendInLoop(r, peer[c], "loop", k) EXCEPT !.sends = @ + 1]
                       ELSE r
          IN  /\ sends => r.sends < MaxSend
              /\ conn' = [conn EXCEPT ![c] =
                   IF shut /\ sent.state = "kConnected"
                   THEN ShutdownInLoop(Disconnecting(sent, "loop")) ELSE sent]
              /\ queue' = Completed(queue, l, c,
                                    sends /\ WritesNow(r) /\ ~Broken(r, peer[c]) /\ k = MsgLen)
    BY DEF ReadMessage
  <1>. DEFINE sends == (send /\ r.state = "kConnected")
              yes == (sends /\ WritesNow(r) /\ ~Broken(r, peer[c]) /\ k = MsgLen)
  <1>2. /\ sends \in BOOLEAN /\ yes \in BOOLEAN
        /\ sends => conn[handling[l].c].sends < MaxSend
        /\ queue' = Completed(queue, l, handling[l].c, yes)
    BY <1>1
  <1>3. conn' = [conn EXCEPT ![handling[l].c] =
                   ReadResult(conn[handling[l].c], peer[handling[l].c], sends, shut, k)]
    BY <1>1 DEF ReadResult
  <1>. HIDE DEF sends, yes
  <1>. QED
    BY <1>2, <1>3

(* The callbacks of an event.                                              *)
LEMMA DispatchCommon == ASSUME CommonInv, NEW l \in Loops, Dispatch(l) PROVE CommonInv'
  <1>. DEFINE c == handling[l].c
              r == conn[c]
  <1>0. queue \in [Loops -> Seq(Functors)]
    BY DEF CommonInv, TypeOK
  <1>1. CASE HupEvent(l)
    <2>1. Dispatching(l, "hup") /\ Dispatched(l, "hup")
      BY <1>1 DEF HupEvent
    <2>2. CASE "in" \in handling[l].revents
      BY <1>1, <2>1, <2>2, HandledFacts, UnchangedKept, StepKeeps DEF HupEvent
    <2>3. CASE "in" \notin handling[l].revents
      <3>1. conn' = [conn EXCEPT ![c] = HandleClose(r)] /\ CloseCallback(l, c)
        BY <1>1, <2>3 DEF HupEvent
      <3>2. ConnKept
        BY <2>1, <3>1, HandledFacts, CloseSound, TouchKept
      <3>3. QueueKept /\ m_connections' \subseteq m_connections
        BY <2>1, <3>1, HandledFacts, CloseCallbackKept
      <3>. QED
        BY <1>1, <2>1, <3>2, <3>3, HandledFacts, UnchangedKept, StepKeeps DEF HupEvent
    <2>. QED
      BY <2>2, <2>3
  <1>2. CASE ErrEvent(l)
    <2>1. Dispatching(l, "err") /\ Dispatched(l, "err")
      BY <1>2 DEF ErrEvent
    <2>2. RestKept
      BY <1>2 DEF ErrEvent, RestKept, CommonInv, TypeOK
    <2>. QED
      BY <1>2, <2>1, <2>2, HandledFacts, UnchangedKept, StepKeeps DEF ErrEvent
  <1>3. CASE ReadEof(l)
    <2>1. /\ Dispatching(l, "in") /\ Dispatched(l, "in")
          /\ conn' = [conn EXCEPT ![c] = HandleClose(r)] /\ CloseCallback(l, c)
      BY <1>3 DEF ReadEof
    <2>2. ConnKept
      BY <2>1, HandledFacts, CloseSound, TouchKept
    <2>3. QueueKept /\ m_connections' \subseteq m_connections
      BY <2>1, HandledFacts, CloseCallbackKept
    <2>. QED
      BY <1>3, <2>1, <2>2, <2>3, HandledFacts, UnchangedKept, StepKeeps DEF ReadEof
  <1>4. CASE ReadError(l)
    <2>1. Dispatching(l, "in") /\ Dispatched(l, "in")
      BY <1>4 DEF ReadError
    <2>2. RestKept
      BY <1>4 DEF ReadError, RestKept, CommonInv, TypeOK
    <2>. QED
      BY <1>4, <2>1, <2>2, HandledFacts, UnchangedKept, StepKeeps DEF ReadError
  <1>5. CASE ReadMessage(l)
    <2>1. Dispatching(l, "in") /\ Dispatched(l, "in")
      BY <1>5 DEF ReadMessage
    <2>2. PICK sends \in BOOLEAN, shut \in BOOLEAN, k \in 0..MsgLen, yes \in BOOLEAN :
            /\ sends => r.sends < MaxSend
            /\ conn' = [conn EXCEPT ![c] = ReadResult(r, peer[c], sends, shut, k)]
            /\ queue' = Completed(queue, l, c, yes)
      BY <1>5, ReadMessageFacts
    <2>3. ConnKept
      <3>1. Sound(ReadResult(r, peer[c], sends, shut, k))
        BY <2>1, <2>2, HandledFacts, ReadResultSound
      <3>. QED
        BY <2>1, <2>2, <3>1, HandledFacts, TouchKept
    <2>4. QueueKept
      BY <1>0, <2>1, <2>2, HandledFacts, CompletedKept
    <2>. QED
      BY <1>5, <2>1, <2>3, <2>4, HandledFacts, UnchangedKept, StepKeeps DEF ReadMessage
  <1>6. CASE WriteEvent(l)
    <2>1. Dispatching(l, "out") /\ Dispatched(l, "out")
      BY <1>6 DEF WriteEvent
    <2>2. PICK k \in 0..Len(r.out) :
            /\ conn' = [conn EXCEPT ![c] = HandleWrite(r, peer[c], k)]
            /\ queue' = Completed(queue, l, c,
                                  IsWrite(r) /\ ~Broken(r, peer[c]) /\ k > 0 /\ k = Len(r.out))
      BY <1>6 DEF WriteEvent
    <2>3. ConnKept
      <3>1. Sound(HandleWrite(r, peer[c], k))
        BY <2>1, <2>2, HandledFacts, WriteSound
      <3>. QED
        BY <2>1, <2>2, <3>1, HandledFacts, TouchKept
    <2>4. QueueKept
      BY <1>0, <2>1, <2>2, HandledFacts, CompletedKept
    <2>. QED
      BY <1>6, <2>1, <2>3, <2>4, HandledFacts, UnchangedKept, StepKeeps DEF WriteEvent
  <1>. QED
    BY <1>1, <1>2, <1>3, <1>4, <1>5, <1>6 DEF Dispatch

(* An event reported by epoll.                                             *)
LEMMA PollCommon == ASSUME CommonInv, NEW c \in Conn, Poll(c) PROVE CommonInv'
  <1>1. PICK revents \in SUBSET conn[c].armed : TakeEvent(conn[c].loop, c, revents)
    BY DEF Poll
  <1>2. Created(c) /\ conn[c] \in Connection
    BY DEF Poll, CommonInv, Wired, Sound
  <1>3. conn[c].loop \in Loops /\ revents \in (SUBSET Revents) \ {{}}
    BY <1>1, <1>2 DEF Connection, TakeEvent
  <1>. DEFINE h == [c |-> c, revents |-> revents]
  <1>4. h \in Handling /\ h.c = c
    BY <1>3 DEF Handling
  <1>5. handling' = [handling EXCEPT ![conn[c].loop] = h]
    BY <1>1 DEF TakeEvent
  <1>. HIDE DEF h
  <1>6. HandlingKept
    <2>1. \A m \in Loops : handling[m] # Idle => handling[m].c \in Conn /\ Created(handling[m].c)
      BY HandlingType DEF CommonInv, Referenced
    <2>. QED
      BY <1>2, <1>3, <1>4, <1>5, <2>1 DEF HandlingKept, CommonInv, TypeOK, Handling
  <1>. QED
    BY <1>1, <1>6, UnchangedKept, StepKeeps DEF TakeEvent

(* One round of the loop of ~TcpServer.                                    *)
LEMMA DtorConnectionCommon == ASSUME CommonInv, NEW c \in Conn, DtorConnection(c) PROVE CommonInv'
  <1>1. Created(c) /\ Sound(conn[c]) /\ conn[c].loop \in Loops
    BY DEF DtorConnection, CommonInv, Referenced, Wired, Sound, Connection
  <1>2. CASE conn[c].loop = 0
    <2>1. ConnKept
      BY <1>1, <1>2, DestroyedSound, TouchKept DEF DtorConnection
    <2>. QED
      BY <1>2, <2>1, UnchangedKept, StepKeeps DEF DtorConnection
  <1>3. CASE conn[c].loop # 0
    <2>1. /\ Functor("connectDestroyed", c, "server") \in Functors
          /\ Functor("connectDestroyed", c, "server").c = c
      BY FunctorType DEF Callers
    <2>2. queue' = Post(queue, conn[c].loop, Functor("connectDestroyed", c, "server"))
      BY <1>3 DEF DtorConnection
    <2>3. QueueKept
      BY <1>1, <2>1, <2>2, PostKept DEF CommonInv, TypeOK
    <2>. QED
      BY <1>3, <2>3, UnchangedKept, StepKeeps DEF DtorConnection
  <1>. QED
    BY <1>2, <1>3

(* The connection a user thread has called.                                *)
LEMMA UserFacts ==
  ASSUME CommonInv, NEW u \in Users, user[u] # Idle
  PROVE  /\ user[u] \in [op : UserOps, c : Conn]
         /\ user[u].c \in Conn /\ Created(user[u].c) /\ Sound(conn[user[u].c])
         /\ conn[user[u].c].loop \in Loops
         /\ user' = [user EXCEPT ![u] = Idle] => UserKept
  <1>1. user[u] \in [op : UserOps, c : Conn]
    BY DEF CommonInv, TypeOK
  <1>2. user[u].c \in Conn /\ Created(user[u].c)
    BY <1>1 DEF CommonInv, Referenced
  <1>3. Sound(conn[user[u].c]) /\ conn[user[u].c].loop \in Loops
    BY <1>2 DEF CommonInv, Wired, Sound, Connection
  <1>4. \A v \in Users : user[v] # Idle => user[v].c \in Conn /\ Created(user[v].c)
    BY DEF CommonInv, Referenced, TypeOK
  <1>5. user' = [user EXCEPT ![u] = Idle] => UserKept
    BY <1>4 DEF UserKept, CommonInv, TypeOK
  <1>. QED
    BY <1>1, <1>2, <1>3, <1>5

(* A user thread's calls.                                                  *)
LEMMA UserCommon ==
  ASSUME CommonInv, NEW u \in Users,
         \/ UserSend(u) \/ UserShutdown(u)
         \/ \E c \in Conn, op \in UserOps : UserCall(u, c, op)
  PROVE  CommonInv'
  <1>0. queue \in [Loops -> Seq(Functors)] /\ u \in Callers
    BY DEF CommonInv, TypeOK, Callers
  <1>1. CASE UserSend(u)
    <2>1. /\ user[u] # Idle /\ user' = [user EXCEPT ![u] = Idle]
          /\ queue' = Post(queue, conn[user[u].c].loop, Functor("sendInLoop", user[u].c, u))
      BY <1>1 DEF UserSend
    <2>2. /\ Functor("sendInLoop", user[u].c, u) \in Functors
          /\ Functor("sendInLoop", user[u].c, u).c = user[u].c
      <3>1. user[u].c \in Conn
        BY <2>1, UserFacts
      <3>. QED
        BY <1>0, <3>1, FunctorType
    <2>3. QueueKept
      BY <1>0, <2>1, <2>2, UserFacts, PostKept
    <2>. QED
      BY <1>1, <2>1, <2>3, UserFacts, UnchangedKept, StepKeeps DEF UserSend
  <1>2. CASE UserShutdown(u)
    <2>1. /\ user[u] # Idle /\ user' = [user EXCEPT ![u] = Idle]
          /\ queue' = Post(queue, conn[user[u].c].loop, Functor("shutdownInLoop", user[u].c, u))
          /\ conn' = [conn EXCEPT ![user[u].c] = Disconnecting(conn[user[u].c], u)]
      BY <1>2 DEF UserShutdown
    <2>2. /\ Functor("shutdownInLoop", user[u].c, u) \in Functors
          /\ Functor("shutdownInLoop", user[u].c, u).c = user[u].c
      <3>1. user[u].c \in Conn
        BY <2>1, UserFacts
      <3>. QED
        BY <1>0, <3>1, FunctorType
    <2>3. QueueKept
      BY <1>0, <2>1, <2>2, UserFacts, PostKept
    <2>4. ConnKept
      BY <1>0, <2>1, UserFacts, DisconnectingSound, TouchKept
    <2>. QED
      BY <1>2, <2>1, <2>3, <2>4, UserFacts, UnchangedKept, StepKeeps DEF UserShutdown
  <1>3. ASSUME NEW c \in Conn, NEW op \in UserOps, UserCall(u, c, op)
        PROVE  CommonInv'
    <2>. DEFINE r == conn[c]
                n == IF op = "send" THEN r.sends + 1 ELSE r.sends
                s == [r EXCEPT !.sends = n]
    <2>1. Created(c) /\ Sound(r)
      BY <1>3 DEF UserCall, CommonInv, Wired
    <2>2. n \in 0..MaxSend
      BY <1>3, <2>1, ServerAssumption DEF UserCall, Sound, Connection, ServerAssumption
    <2>3. conn' = [conn EXCEPT ![c] = s]
      BY <1>3 DEF UserCall
    <2>4. s = [r EXCEPT !.sends = n]
      OBVIOUS
    <2>. HIDE DEF s, n
    <2>5. ConnKept
      BY <2>1, <2>2, <2>3, <2>4, CountedSound, TouchKept
    <2>6. UserKept
      <3>1. \A v \in Users : user[v] # Idle => user[v].c \in Conn /\ Created(user[v].c)
        BY DEF CommonInv, Referenced, TypeOK
      <3>2. user' = [user EXCEPT ![u] = [op |-> op, c |-> c]]
        BY <1>3 DEF UserCall
      <3>. QED
        BY <2>1, <3>1, <3>2 DEF UserKept, CommonInv, TypeOK
    <2>. QED
      BY <1>3, <2>5, <2>6, UnchangedKept, StepKeeps DEF UserCall
  <1>. QED
    BY <1>1, <1>2, <1>3

(* Every step keeps the invariant ...                                      *)
LEMMA CommonStep == CommonInv /\ [Next]_vars => CommonInv'
  <1>. SUFFICES ASSUME CommonInv, [Next]_vars
                PROVE  CommonInv'
    OBVIOUS
  <1>1. CASE ServerDtor
    <2>1. RestKept
      BY <1>1 DEF ServerDtor, RestKept, CommonInv, TypeOK
    <2>. QED
      BY <1>1, <2>1, UnchangedKept, StepKeeps DEF ServerDtor
  <1>2. CASE DtorDone
    <2>1. RestKept
      BY <1>2 DEF DtorDone, RestKept, CommonInv, TypeOK
    <2>. QED
      BY <1>2, <2>1, UnchangedKept, StepKeeps DEF DtorDone
  <1>3. ASSUME NEW c \in Conn, NEW what \in {"eof", "reset"}, PeerActs(c, what)
        PROVE  CommonInv'
    <2>1. RestKept
      BY <1>3 DEF PeerActs, RestKept, CommonInv, TypeOK
    <2>. QED
      BY <1>3, <2>1, UnchangedKept, StepKeeps DEF PeerActs
  <1>4. CASE UNCHANGED vars
    BY <1>4, UnchangedKept, StepKeeps DEF vars
  <1>. QED
    BY <1>1, <1>2, <1>3, <1>4, AcceptCommon, PollCommon, DtorConnectionCommon,
       RunFunctorCommon, DispatchCommon, UserCommon DEF Next

(* ... which holds at the start ...                                        *)
LEMMA CommonInit == Init => CommonInv
  <1>. SUFFICES ASSUME Init
                PROVE  CommonInv
    OBVIOUS
  <1>1. \A c \in Conn : ~Created(c)
    BY DEF Init, Created, NoConnection
  <1>2. TypeOK
    BY ServerAssumption, EmptySeq DEF Init, TypeOK, ServerAssumption
  <1>3. \A l \in Loops : \A f : ~InQueue(queue, l, f)
    BY DEF Init, InQueue
  <1>. QED
    BY <1>1, <1>2, <1>3 DEF CommonInv, Referenced, Wired, Init, Conn

(* ... and so always.                                                      *)
LEMMA CommonAlways == Spec => []CommonInv
  BY CommonInit, CommonStep, PTL DEF Spec

(* Type correctness of every state of TcpServer.                           *)
THEOREM ServerTypeCorrect == Spec => []TypeOK
  <1>1. CommonInv => TypeOK
    BY DEF CommonInv
  <1>. QED
    BY <1>1, CommonAlways, PTL

(* The poller never adds a descriptor twice nor modifies one it has        *)
(* removed, so updateChannel never aborts the process, however enable,     *)
(* disable and remove calls interleave.                                    *)
THEOREM UpdatesNeverFatal == Spec => []NoFatalUpdate
  <1>1. CommonInv => NoFatalUpdate
    BY DEF CommonInv, Wired, Sound, Registered, NoFatalUpdate
  <1>. QED
    BY <1>1, CommonAlways, PTL

(* While a connection is open, the loop waits for it to become writable    *)
(* exactly while output is waiting.                                        *)
THEOREM OutputNeverStranded == Spec => []WriteInterestMatchesOutput
  <1>1. CommonInv => WriteInterestMatchesOutput
    BY DEF CommonInv, Wired, Sound, WriteMatches, WriteInterestMatchesOutput
  <1>. QED
    BY <1>1, CommonAlways, PTL

-----------------------------------------------------------------------------
(* The teardown, when only the loops' own threads call shutdown().         *)
LoopsShutDown == UserOps \subseteq {"send"}

(* g is queued before f: no functor of a connection runs before its        *)
(* connectEstablished, and it is removed and destroyed by one functor each.*)
Apart(g, f) ==
  g.c = f.c =>
    /\ f.fn # "connectEstablished"
    /\ f.fn \in {"removeConnectionInLoop", "connectDestroyed"} => g.fn # f.fn

(* Every queue is so ordered.                                              *)
Ordered(q) == \A l \in Loops : \A i, j \in DOMAIN q[l] : j < i => Apart(q[l][j], q[l][i])

(* What a queued functor says about its connection.                        *)
ItemOK(l, f) ==
  LET r == conn[f.c]
  IN  /\ f.fn = "removeConnectionInLoop" =>
           l = 0 /\ r.closed = 1 /\ (server = "up" => f.c \in m_connections)
      /\ f.fn # "removeConnectionInLoop" => l = r.loop
      /\ f.fn = "connectEstablished" => l # 0 /\ r.state = "kConnecting" /\ r.destroyed = 0
      /\ f.fn \notin {"connectEstablished", "connectDestroyed"} => r.state # "kConnecting"
      /\ f.fn = "connectDestroyed" => r.destroyed = 0 /\ f.c \notin m_connections
      /\ f.fn = "sendInLoop" => f.by \in Users
      /\ f.fn # "shutdownInLoop"

(* It is true of every queued functor.                                     *)
ItemsOK == \A l \in Loops, f \in Functors : InQueue(queue, l, f) => ItemOK(l, f)

(* The functor that destroys connection c.                                 *)
Destroyer(c) == Functor("connectDestroyed", c, "server")

(* A connection is in the server's map, or on its way to connectDestroyed, *)
(* or destroyed.                                                           *)
OwnedOK ==
  \A c \in Conn : Created(c) =>
    /\ LifeOK(conn[c])
    /\ c \in m_connections => conn[c].destroyed = 0
    /\ c \notin m_connections /\ conn[c].destroyed = 0 =>
         InQueue(queue, conn[c].loop, Destroyer(c))
    /\ server = "up" /\ conn[c].closed = 0 => c \in m_connections

(* A loop dispatches events of its own connections, and none that closes   *)
(* one a second time.                                                      *)
HandlingOK ==
  /\ \A l \in Loops : handling[l] # Idle =>
       LET r == conn[handling[l].c]
       IN  /\ r.loop = l /\ r.destroyed = 0 /\ r.state # "kConnecting"
           /\ ("in" \in handling[l].revents \/ "hup" \in handling[l].revents) => r.closed = 0
  /\ server # "up" => handling[0] = Idle

(* A user thread is in a send() on a connection that has been up.          *)
UserOK ==
  \A u \in Users : user[u] # Idle =>
    user[u].op = "send" /\ conn[user[u].c].state # "kConnecting"

(* The invariant of the teardown.                                          *)
TeardownInv == ItemsOK /\ OwnedOK /\ Ordered(queue) /\ HandlingOK /\ UserOK

(* A functor that may follow all that is pending keeps the queue ordered.  *)
LEMMA PostOrdered ==
  ASSUME NEW q \in [Loops -> Seq(Functors)], NEW l \in Loops, NEW f \in Functors, Ordered(q),
         \A g \in Functors : InQueue(q, l, g) => Apart(g, f)
  PROVE  Ordered(Post(q, l, f))
  <1>. DEFINE p == Post(q, l, f)
  <1>1. /\ \A m \in Loops : m # l => p[m] = q[m]
        /\ p[l] = Append(q[l], f)
    BY PostQueue
  <1>2. /\ DOMAIN q[l] = 1..Len(q[l]) /\ Len(q[l]) \in Nat
        /\ DOMAIN p[l] = 1..(Len(q[l]) + 1)
        /\ \A i \in 1..Len(q[l]) : p[l][i] = q[l][i] /\ q[l][i] \in Functors
        /\ p[l][Len(q[l]) + 1] = f
    BY <1>1, AppendProperties, LenProperties, ElementOfSeq
  <1>. HIDE DEF p
  <1>3. ASSUME NEW i \in DOMAIN q[l]
        PROVE  Apart(q[l][i], f)
    <2>1. q[l][i] \in Functors /\ InQueue(q, l, q[l][i])
      BY <1>2 DEF InQueue
    <2>. QED
      BY <2>1
  <1>4. ASSUME NEW i \in DOMAIN p[l], NEW j \in DOMAIN p[l], j < i
        PROVE  Apart(p[l][j], p[l][i])
    <2>1. j \in DOMAIN q[l] /\ p[l][j] = q[l][j]
      BY <1>2, <1>4
    <2>2. CASE i \in DOMAIN q[l]
      <3>1. Apart(q[l][j], q[l][i])
        BY <1>4, <2>1, <2>2 DEF Ordered
      <3>. QED
        BY <1>2, <2>1, <2>2, <3>1
    <2>3. CASE i \notin DOMAIN q[l]
      <3>1. p[l][i] = f
        BY <1>2, <2>3
      <3>. QED
        BY <1>3, <2>1, <3>1
    <2>. QED
      BY <2>2, <2>3
  <1>5. Ordered(p)
    BY <1>1, <1>4 DEF Ordered
  <1>. QED
    BY <1>5 DEF p

(* Taking the first functor keeps it ordered, and leaves only functors     *)
(* that may follow it.                                                     *)
LEMMA RestOrdered ==
  ASSUME queue \in [Loops -> Seq(Functors)], NEW l \in Loops, queue[l] # <<>>, Ordered(queue)
  PROVE  /\ Ordered(Rest(l))
         /\ \A g : InQueue(Rest(l), l, g) => Apart(Head(queue[l]), g)
  <1>. DEFINE p == Rest(l)
              h == Head(queue[l])
  <1>1. /\ \A m \in Loops : m # l => p[m] = queue[m]
        /\ p[l] = Tail(queue[l])
    BY RestQueue
  <1>2. /\ DOMAIN queue[l] = 1..Len(queue[l]) /\ Len(queue[l]) \in Nat \ {0}
        /\ DOMAIN p[l] = 1..(Len(queue[l]) - 1)
        /\ \A i \in 1..(Len(queue[l]) - 1) : p[l][i] = queue[l][i + 1]
        /\ queue[l][1] = h
    BY <1>1, HeadTailProperties, LenProperties, EmptySeq
  <1>. HIDE DEF p, h
  <1>3. ASSUME NEW i \in DOMAIN p[l], NEW j \in DOMAIN p[l], j < i
        PROVE  Apart(p[l][j], p[l][i])
    <2>1. i + 1 \in DOMAIN queue[l] /\ j + 1 \in DOMAIN queue[l] /\ j + 1 < i + 1
      BY <1>2, <1>3
    <2>2. Apart(queue[l][j + 1], queue[l][i + 1])
      BY <2>1 DEF Ordered
    <2>. QED
      BY <1>2, <2>2
  <1>4. ASSUME NEW g, InQueue(p, l, g)
        PROVE  Apart(h, g)
    <2>1. PICK i \in DOMAIN p[l] : p[l][i] = g
      BY <1>4 DEF InQueue
    <2>2. 1 \in DOMAIN queue[l] /\ i + 1 \in DOMAIN queue[l] /\ 1 < i + 1
      BY <1>2
    <2>3. Apart(queue[l][1], queue[l][i + 1])
      BY <2>2 DEF Ordered
    <2>. QED
      BY <1>2, <2>1, <2>3
  <1>5. Ordered(p)
    BY <1>1, <1>3 DEF Ordered
  <1>. QED
    BY <1>4, <1>5 DEF p, h

-----------------------------------------------------------------------------
(* The steps that neither open, close nor destroy a connection.            *)
GentleConn ==
  \A c \in Conn :
    /\ Created(c)' <=> Created(c)
    /\ Created(c) =>
         /\ LifeOK(conn'[c]) /\ conn'[c].loop = conn[c].loop
         /\ conn'[c].closed = conn[c].closed /\ conn'[c].destroyed = conn[c].destroyed
         /\ conn'[c].state = "kConnecting" <=> conn[c].state = "kConnecting"

(* Such a step posts only sends and write completions, and loses no        *)
(* functor that destroys.                                                  *)
GentleQueue ==
  /\ Ordered(queue')
  /\ \A l \in Loops, f \in Functors : InQueue(queue', l, f) =>
       \/ InQueue(queue, l, f)
       \/ /\ f.fn \in {"sendInLoop", "writeComplete"} /\ l = conn[f.c].loop
          /\ conn[f.c].state # "kConnecting"
          /\ f.fn = "sendInLoop" => f.by \in Users
  /\ \A c \in Conn : Created(c) /\ InQueue(queue, conn[c].loop, Destroyer(c)) =>
       InQueue(queue', conn[c].loop, Destroyer(c))

(* Such steps keep the invariant of the teardown.                          *)
LEMMA GentleStep ==
  ASSUME CommonInv, CommonInv', TeardownInv, GentleConn, GentleQueue, HandlingOK', UserOK',
         m_connections' = m_connections, server' = "up" => server = "up"
  PROVE  TeardownInv'
  <1>1. ItemsOK'
    <2>. SUFFICES ASSUME NEW l \in Loops, NEW f \in Functors, InQueue(queue', l, f)
                  PROVE  ItemOK(l, f)'
      BY DEF ItemsOK
    <2>1. f.c \in Conn
      BY DEF Functors
    <2>2. Created(f.c)
      BY <2>1 DEF CommonInv, Referenced, GentleConn
    <2>3. /\ conn'[f.c].loop = conn[f.c].loop
          /\ conn'[f.c].closed = conn[f.c].closed /\ conn'[f.c].destroyed = conn[f.c].destroyed
          /\ conn'[f.c].state = "kConnecting" <=> conn[f.c].state = "kConnecting"
      BY <2>1, <2>2 DEF GentleConn
    <2>4. CASE InQueue(queue, l, f)
      BY <2>3, <2>4 DEF TeardownInv, ItemsOK, ItemOK
    <2>5. CASE ~InQueue(queue, l, f)
      BY <2>3, <2>5 DEF GentleQueue, ItemOK
    <2>. QED
      BY <2>4, <2>5
  <1>2. OwnedOK'
    <2>. SUFFICES ASSUME NEW c \in Conn, Created(c)'
                  PROVE  /\ LifeOK(conn'[c])
                         /\ c \in m_connections' => conn'[c].destroyed = 0
                         /\ c \notin m_connections' /\ conn'[c].destroyed = 0 =>
                              InQueue(queue', conn'[c].loop, Destroyer(c))
                         /\ server' = "up" /\ conn'[c].closed = 0 => c \in m_connections'
      BY DEF OwnedOK
    <2>1. /\ Created(c) /\ LifeOK(conn'[c]) /\ conn'[c].loop = conn[c].loop
          /\ conn'[c].closed = conn[c].closed /\ conn'[c].destroyed = conn[c].destroyed
      BY DEF GentleConn
    <2>. QED
      BY <2>1 DEF TeardownInv, OwnedOK, GentleQueue
  <1>. QED
    BY <1>1, <1>2 DEF TeardownInv, GentleQueue

(* Changing one connection within its phase is gentle.                     *)
LEMMA TouchGentle ==
  ASSUME CommonInv, OwnedOK, NEW c \in Conn, Created(c), NEW s, Sound(s), LifeOK(s),
         s.loop = conn[c].loop, s.closed = conn[c].closed, s.destroyed = conn[c].destroyed,
         s.state = "kConnecting" <=> conn[c].state = "kConnecting",
         conn' = [conn EXCEPT ![c] = s]
  PROVE  GentleConn
  <1>1. /\ \A d \in Conn : Created(d)' <=> Created(d)
        /\ conn'[c] = s
        /\ \A d \in Conn : d # c => conn'[d] = conn[d]
    BY TouchOne DEF CommonInv
  <1>. QED
    BY <1>1 DEF GentleConn, OwnedOK

(* Changing nothing is gentle.                                             *)
LEMMA UnchangedGentle ==
  ASSUME CommonInv, TeardownInv
  PROVE  /\ UNCHANGED conn => GentleConn
         /\ UNCHANGED queue => GentleQueue
  BY DEF GentleConn, GentleQueue, TeardownInv, OwnedOK, Created

(* Handling and user calls are untouched by a gentle step of others.       *)
LEMMA UnchangedInvolved ==
  ASSUME CommonInv, TeardownInv, GentleConn
  PROVE  /\ UNCHANGED <<handling, server>> => HandlingOK'
         /\ UNCHANGED user => UserOK'
  <1>1. \A l \in Loops : handling[l] # Idle => handling[l].c \in Conn /\ Created(handling[l].c)
    BY HandlingType DEF CommonInv, Referenced
  <1>2. \A u \in Users : user[u] # Idle => user[u].c \in Conn /\ Created(user[u].c)
    BY DEF CommonInv, Referenced, TypeOK
  <1>3. UNCHANGED <<handling, server>> => HandlingOK'
    BY <1>1 DEF TeardownInv, HandlingOK, GentleConn
  <1>4. UNCHANGED user => UserOK'
    BY <1>2 DEF TeardownInv, UserOK, GentleConn
  <1>. QED
    BY <1>3, <1>4

(* So does the end of a callback that closes nothing.                      *)
LEMMA DispatchedInvolved ==
  ASSUME CommonInv, TeardownInv, GentleConn, NEW l \in Loops, NEW e,
         Dispatching(l, e), Dispatched(l, e), UNCHANGED server
  PROVE  HandlingOK'
  <1>1. \A m \in Loops : handling[m] # Idle => handling[m].c \in Conn /\ Created(handling[m].c)
    BY HandlingType DEF CommonInv, Referenced
  <1>2. /\ \A m \in Loops : m # l => handling'[m] = handling[m]
        /\ handling'[l] # Idle =>
             /\ handling'[l].c = handling[l].c
             /\ handling'[l].revents = handling[l].revents \ {e}
        /\ handling[l] # Idle
    BY DispatchedType DEF CommonInv, Dispatching
  <1>3. ASSUME NEW m \in Loops, handling'[m] # Idle
        PROVE  /\ handling[m] # Idle /\ handling'[m].c = handling[m].c
               /\ handling'[m].revents \subseteq handling[m].revents
    BY <1>2, <1>3
  <1>4. ASSUME NEW m \in Loops, handling'[m] # Idle
        PROVE  /\ conn'[handling'[m].c].loop = m /\ conn'[handling'[m].c].destroyed = 0
               /\ conn'[handling'[m].c].state # "kConnecting"
               /\ ("in" \in handling'[m].revents \/ "hup" \in handling'[m].revents)
                    => conn'[handling'[m].c].closed = 0
    BY <1>1, <1>3, <1>4 DEF TeardownInv, HandlingOK, GentleConn
  <1>5. server' # "up" => handling'[0] = Idle
    <2>1. 0 \in Loops
      BY ServerAssumption DEF ServerAssumption, Loops
    <2>. QED
      BY <1>3, <2>1 DEF TeardownInv, HandlingOK
  <1>. QED
    BY <1>4, <1>5 DEF HandlingOK

-----------------------------------------------------------------------------
(* A queue that has lost at most functors that destroy nothing.            *)
Lesser(q) ==
  /\ q \in [Loops -> Seq(Functors)] /\ Ordered(q)
  /\ \A l \in Loops : \A f : InQueue(q, l, f) => InQueue(queue, l, f)
  /\ \A c \in Conn : Created(c) /\ InQueue(queue, conn[c].loop, Destroyer(c)) =>
       InQueue(q, conn[c].loop, Destroyer(c))

(* What is left after a functor that does not destroy.                     *)
LEMMA RestLesser ==
  ASSUME CommonInv, TeardownInv, NEW l \in Loops, NEW fn, Pending(l, fn), fn # "connectDestroyed"
  PROVE  Lesser(Rest(l))
  <1>1. queue[l] # <<>> /\ Head(queue[l]).fn = fn /\ queue \in [Loops -> Seq(Functors)]
    BY DEF Pending, CommonInv, TypeOK
  <1>2. \A c \in Conn : Head(queue[l]) # Destroyer(c)
    BY <1>1, FunctorType DEF Destroyer, Callers
  <1>3. \A c \in Conn : Created(c) => conn[c].loop \in Loops
    BY DEF CommonInv, Wired, Sound, Connection
  <1>. QED
    BY <1>1, <1>2, <1>3, RestQueue, RestOrdered DEF Lesser, TeardownInv

(* The queue itself.                                                       *)
LEMMA QueueLesser == ASSUME CommonInv, TeardownInv PROVE Lesser(queue)
  BY DEF Lesser, CommonInv, TypeOK, TeardownInv

(* Leaving no more than that is gentle.                                    *)
LEMMA LesserGentle == ASSUME NEW q, Lesser(q), queue' = q PROVE GentleQueue
  BY DEF Lesser, GentleQueue

(* Posting a send or a write completion is gentle.                         *)
LEMMA PostGentle ==
  ASSUME CommonInv, NEW q, Lesser(q), NEW f \in Functors, Created(f.c),
         f.fn \in {"sendInLoop", "writeComplete"}, conn[f.c].state # "kConnecting",
         f.fn = "sendInLoop" => f.by \in Users,
         queue' = Post(q, conn[f.c].loop, f)
  PROVE  GentleQueue
  <1>. DEFINE l == conn[f.c].loop
  <1>1. f.c \in Conn /\ l \in Loops
    <2>1. f.c \in Conn
      BY DEF Functors
    <2>. QED
      BY <2>1 DEF CommonInv, Wired, Sound, Connection
  <1>2. q \in [Loops -> Seq(Functors)] /\ Ordered(q)
    BY DEF Lesser
  <1>3. Ordered(queue')
    <2>1. \A g : Apart(g, f)
      BY DEF Apart
    <2>. QED
      BY <1>1, <1>2, <2>1, PostOrdered
  <1>4. \A m \in Loops : \A g : InQueue(queue', m, g) <=> InQueue(q, m, g) \/ (m = l /\ g = f)
    BY <1>1, <1>2, PostQueue
  <1>5. \A c \in Conn : Created(c) => conn[c].loop \in Loops
    BY DEF CommonInv, Wired, Sound, Connection
  <1>. QED
    BY <1>3, <1>4, <1>5 DEF GentleQueue, Lesser

(* And so is a finished write.                                             *)
LEMMA CompletedGentle ==
  ASSUME CommonInv, NEW q, Lesser(q), NEW c \in Conn, Created(c),
         conn[c].state # "kConnecting", NEW yes, queue' = Completed(q, conn[c].loop, c, yes)
  PROVE  GentleQueue
  <1>. DEFINE f == Functor("writeComplete", c, "loop")
  <1>1. f \in Functors /\ f.c = c /\ f.fn = "writeComplete"
    BY FunctorType DEF Callers
  <1>. HIDE DEF f
  <1>2. CASE queue' = q
    BY <1>2, LesserGentle
  <1>3. CASE queue' = Post(q, conn[c].loop, f)
    BY <1>1, <1>3, PostGentle
  <1>4. conn[c].loop \in Loops /\ q \in [Loops -> Seq(Functors)]
    BY DEF CommonInv, Wired, Sound, Connection, Lesser
  <1>. QED
    BY <1>2, <1>3, <1>4, CompletedQueue DEF f

(* A functor a loop is about to run, and its connection.                   *)
LEMMA HeadItem ==
  ASSUME CommonInv, TeardownInv, NEW l \in Loops, NEW fn, Pending(l, fn)
  PROVE  /\ ItemOK(l, Head(queue[l])) /\ Head(queue[l]).fn = fn /\ Head(queue[l]).c = Target(l)
         /\ LifeOK(conn[Target(l)])
         /\ handling[l] = Idle /\ (l = 0 => server = "up")
  <1>1. queue[l] # <<>> /\ queue \in [Loops -> Seq(Functors)]
    BY DEF Pending, CommonInv, TypeOK
  <1>2. Head(queue[l]) \in Functors /\ InQueue(queue, l, Head(queue[l]))
    BY <1>1, RestQueue
  <1>3. LifeOK(conn[Target(l)])
    BY HeadFacts DEF TeardownInv, OwnedOK
  <1>. QED
    BY <1>2, <1>3 DEF TeardownInv, ItemsOK, Pending, Running, Target

-----------------------------------------------------------------------------
(* The functors that neither open, close nor destroy.                      *)
LEMMA GentleFunctors ==
  ASSUME CommonInv, CommonInv', TeardownInv, NEW l \in Loops,
         RunSendInLoop(l) \/ RunShutdownInLoop(l) \/ RunWriteComplete(l)
  PROVE  TeardownInv'
  <1>. DEFINE c == Target(l)
              r == conn[c]
  <1>1. CASE RunSendInLoop(l)
    <2>1. Pending(l, "sendInLoop")
      BY <1>1 DEF RunSendInLoop
    <2>2. PICK k \in 0..MsgLen :
            /\ conn' = [conn EXCEPT ![c] = SendInLoop(r, peer[c], Head(queue[l]).by, k)]
            /\ queue' = Completed(Rest(l), l, c, WritesNow(r) /\ ~Broken(r, peer[c]) /\ k = MsgLen)
      BY <1>1 DEF RunSendInLoop
    <2>3. Head(queue[l]).by \in Callers
      BY <2>1, HeadFacts DEF Functors
    <2>4. c \in Conn /\ Created(c) /\ Sound(r) /\ LifeOK(r) /\ r.state # "kConnecting" /\ r.loop = l
      BY <2>1, HeadFacts, HeadItem DEF ItemOK
    <2>. DEFINE s == SendInLoop(r, peer[c], Head(queue[l]).by, k)
    <2>5. /\ Sound(s) /\ LifeOK(s)
          /\ s.loop = r.loop /\ s.closed = r.closed /\ s.destroyed = r.destroyed
          /\ s.state = r.state
      BY <2>3, <2>4, SendSound
    <2>. HIDE DEF s
    <2>6. GentleConn
      BY <2>2, <2>4, <2>5, TouchGentle DEF TeardownInv, s
    <2>7. GentleQueue
      BY <2>1, <2>2, <2>4, RestLesser, CompletedGentle
    <2>. QED
      BY <1>1, <2>6, <2>7, UnchangedInvolved, GentleStep DEF RunSendInLoop
  <1>2. CASE RunShutdownInLoop(l)
    BY <1>2, HeadItem DEF RunShutdownInLoop, ItemOK
  <1>3. CASE RunWriteComplete(l)
    <2>1. GentleQueue /\ GentleConn
      BY <1>3, RestLesser, LesserGentle, UnchangedGentle DEF RunWriteComplete
    <2>. QED
      BY <1>3, <2>1, UnchangedInvolved, GentleStep DEF RunWriteComplete
  <1>. QED
    BY <1>1, <1>2, <1>3

(* The connection of an event being dispatched.                            *)
LEMMA HandledItem ==
  ASSUME CommonInv, TeardownInv, NEW l \in Loops, NEW e, Dispatching(l, e), Dispatched(l, e)
  PROVE  LET c == handling[l].c
             r == conn[c]
         IN  /\ c \in Conn /\ Created(c) /\ Sound(r) /\ LifeOK(r)
             /\ r.loop = l /\ r.destroyed = 0 /\ r.state # "kConnecting"
             /\ e \in {"in", "hup"} => r.closed = 0
             /\ l = 0 => server = "up"
  BY HandledFacts DEF TeardownInv, HandlingOK, OwnedOK, Dispatching

(* The callbacks that do not close.                                        *)
LEMMA GentleDispatch ==
  ASSUME CommonInv, CommonInv', TeardownInv, NEW l \in Loops,
         \/ HupEvent(l) /\ "in" \in handling[l].revents
         \/ ErrEvent(l) \/ ReadError(l) \/ ReadMessage(l) \/ WriteEvent(l)
  PROVE  TeardownInv'
  <1>. DEFINE c == handling[l].c
              r == conn[c]
  <1>1. CASE HupEvent(l) /\ "in" \in handling[l].revents
    <2>1. /\ Dispatching(l, "hup") /\ Dispatched(l, "hup")
          /\ UNCHANGED <<conn, queue, m_connections, user, server>>
      BY <1>1 DEF HupEvent
    <2>2. GentleConn /\ GentleQueue
      BY <2>1, UnchangedGentle
    <2>3. HandlingOK' /\ UserOK'
      BY <2>1, <2>2, DispatchedInvolved, UnchangedInvolved
    <2>. QED
      BY <2>1, <2>2, <2>3, GentleStep
  <1>2. CASE ErrEvent(l)
    <2>1. /\ Dispatching(l, "err") /\ Dispatched(l, "err")
          /\ UNCHANGED <<conn, queue, m_connections, user, server>>
      BY <1>2 DEF ErrEvent
    <2>2. GentleConn /\ GentleQueue
      BY <2>1, UnchangedGentle
    <2>3. HandlingOK' /\ UserOK'
      BY <2>1, <2>2, DispatchedInvolved, UnchangedInvolved
    <2>. QED
      BY <2>1, <2>2, <2>3, GentleStep
  <1>3. CASE ReadError(l)
    <2>1. /\ Dispatching(l, "in") /\ Dispatched(l, "in")
          /\ UNCHANGED <<conn, queue, m_connections, user, server>>
      BY <1>3 DEF ReadError
    <2>2. GentleConn /\ GentleQueue
      BY <2>1, UnchangedGentle
    <2>3. HandlingOK' /\ UserOK'
      BY <2>1, <2>2, DispatchedInvolved, UnchangedInvolved
    <2>. QED
      BY <2>1, <2>2, <2>3, GentleStep
  <1>4. CASE ReadMessage(l)
    <2>1. Dispatching(l, "in") /\ Dispatched(l, "in") /\ UNCHANGED <<m_connections, user, server>>
      BY <1>4 DEF ReadMessage
    <2>2. PICK sends \in BOOLEAN, shut \in BOOLEAN, k \in 0..MsgLen, yes \in BOOLEAN :
            /\ sends => r.sends < MaxSend
            /\ conn' = [conn EXCEPT ![c] = ReadResult(r, peer[c], sends, shut, k)]
            /\ queue' = Completed(queue, l, c, yes)
      BY <1>4, ReadMessageFacts
    <2>3. c \in Conn /\ Created(c) /\ Sound(r) /\ LifeOK(r) /\ r.state # "kConnecting" /\ r.loop = l
      BY <2>1, HandledItem
    <2>. DEFINE s == ReadResult(r, peer[c], sends, shut, k)
    <2>4. /\ Sound(s) /\ LifeOK(s)
          /\ s.loop = r.loop /\ s.closed = r.closed /\ s.destroyed = r.destroyed
          /\ s.state # "kConnecting"
      BY <2>2, <2>3, ReadResultSound
    <2>. HIDE DEF s
    <2>5. GentleConn
      BY <2>2, <2>3, <2>4, TouchGentle DEF TeardownInv, s
    <2>6. GentleQueue
      BY <2>2, <2>3, QueueLesser, CompletedGentle
    <2>7. HandlingOK' /\ UserOK'
      BY <2>1, <2>5, DispatchedInvolved, UnchangedInvolved
    <2>. QED
      BY <2>1, <2>5, <2>6, <2>7, GentleStep
  <1>5. CASE WriteEvent(l)
    <2>1. Dispatching(l, "out") /\ Dispatched(l, "out") /\ UNCHANGED <<m_connections, user, server>>
      BY <1>5 DEF WriteEvent
    <2>2. PICK k \in 0..Len(r.out) :
            /\ conn' = [conn EXCEPT ![c] = HandleWrite(r, peer[c], k)]
            /\ queue' = Completed(queue, l, c,
                                  IsWrite(r) /\ ~Broken(r, peer[c]) /\ k > 0 /\ k = Len(r.out))
      BY <1>5 DEF WriteEvent
    <2>3. /\ c \in Conn /\ Created(c) /\ Sound(r) /\ LifeOK(r) /\ r.state # "kConnecting"
          /\ r.loop = l /\ r.destroyed = 0
      BY <2>1, HandledItem
    <2>. DEFINE s == HandleWrite(r, peer[c], k)
    <2>4. /\ Sound(s) /\ LifeOK(s)
          /\ s.loop = r.loop /\ s.closed = r.closed /\ s.destroyed = r.destroyed
          /\ s.state = r.state
      BY <2>3, WriteSound
    <2>. HIDE DEF s
    <2>5. GentleConn
      BY <2>2, <2>3, <2>4, TouchGentle DEF TeardownInv, s
    <2>6. GentleQueue
      BY <2>2, <2>3, QueueLesser, CompletedGentle
    <2>7. HandlingOK' /\ UserOK'
      BY <2>1, <2>5, DispatchedInvolved, UnchangedInvolved
    <2>. QED
      BY <2>1, <2>5, <2>6, <2>7, GentleStep
  <1>. QED
    BY <1>1, <1>2, <1>3, <1>4, <1>5

(* An event epoll reports concerns an armed descriptor, hence a connection *)
(* that is up.                                                             *)
LEMMA GentlePoll ==
  ASSUME CommonInv, CommonInv', TeardownInv, NEW c \in Conn, Poll(c)
  PROVE  TeardownInv'
  <1>1. PICK revents \in SUBSET conn[c].armed : TakeEvent(conn[c].loop, c, revents)
    BY DEF Poll
  <1>. DEFINE l == conn[c].loop
              h == [c |-> c, revents |-> revents]
  <1>2. /\ Created(c) /\ LifeOK(conn[c]) /\ Sound(conn[c])
        /\ UNCHANGED <<conn, queue, m_connections, user, server>>
        /\ handling' = [handling EXCEPT ![l] = h]
        /\ l = 0 => server = "up"
        /\ conn[c].armed # {}
    BY <1>1 DEF Poll, TakeEvent, TeardownInv, OwnedOK, CommonInv, Wired, Running
  <1>3. GentleConn /\ GentleQueue
    BY <1>2, UnchangedGentle
  <1>4. conn[c].destroyed = 0 /\ conn[c].closed = 0 /\ conn[c].state # "kConnecting" /\ l \in Loops
    BY <1>2 DEF LifeOK, Sound, Connection
  <1>5. h.c = c
    OBVIOUS
  <1>6. /\ handling'[l] = h
        /\ \A m \in Loops : m # l => handling'[m] = handling[m]
    BY <1>2, <1>4 DEF CommonInv, TypeOK
  <1>. HIDE DEF h
  <1>7. HandlingOK'
    <2>1. ASSUME NEW m \in Loops, handling'[m] # Idle
          PROVE  /\ conn'[handling'[m].c].loop = m /\ conn'[handling'[m].c].destroyed = 0
                 /\ conn'[handling'[m].c].state # "kConnecting"
                 /\ ("in" \in handling'[m].revents \/ "hup" \in handling'[m].revents)
                      => conn'[handling'[m].c].closed = 0
      BY <1>2, <1>4, <1>5, <1>6, <2>1 DEF TeardownInv, HandlingOK
    <2>2. server' # "up" => handling'[0] = Idle
      <3>1. 0 \in Loops
        BY ServerAssumption DEF ServerAssumption, Loops
      <3>. QED
        BY <1>2, <1>6, <3>1 DEF TeardownInv, HandlingOK
    <2>. QED
      BY <2>1, <2>2 DEF HandlingOK
  <1>8. UserOK'
    BY <1>2, <1>3, UnchangedInvolved
  <1>. QED
    BY <1>2, <1>3, <1>7, <1>8, GentleStep

-----------------------------------------------------------------------------
(* handleClose and the closeCallback that follows it.                      *)
LEMMA CloseStep ==
  ASSUME CommonInv, CommonInv', TeardownInv, NEW l \in Loops, NEW e \in {"in", "hup"},
         Dispatching(l, e), Dispatched(l, e),
         {"in", "hup"} \intersect handling[l].revents \subseteq {e},
         conn' = [conn EXCEPT ![handling[l].c] = HandleClose(conn[handling[l].c])],
         CloseCallback(l, handling[l].c), UNCHANGED <<user, server>>
  PROVE  TeardownInv'
  <1>. DEFINE c == handling[l].c
              r == conn[c]
              s == HandleClose(r)
  <1>1. /\ c \in Conn /\ Created(c) /\ Sound(r) /\ LifeOK(r)
        /\ r.loop = l /\ r.destroyed = 0 /\ r.state # "kConnecting" /\ r.closed = 0
        /\ l = 0 => server = "up"
    BY HandledItem
  <1>2. /\ Sound(s) /\ LifeOK(s) /\ s.loop = l /\ s.state = "kDisconnected"
        /\ s.closed = 1 /\ s.destroyed = 0
    BY <1>1, CloseSound
  <1>. HIDE DEF s
  <1>3. /\ \A d \in Conn : Created(d)' <=> Created(d)
        /\ conn'[c] = s
        /\ \A d \in Conn : d # c => conn'[d] = conn[d]
    BY <1>1, <1>2, TouchOne DEF CommonInv, s
  <1>4. 0 \in Loops /\ queue \in [Loops -> Seq(Functors)]
    BY ServerAssumption DEF ServerAssumption, Loops, CommonInv, TypeOK
  <1>. DEFINE F == IF l = 0 THEN Destroyer(c) ELSE Functor("removeConnectionInLoop", c, "server")
  <1>5. /\ F \in Functors /\ F.c = c
        /\ F.fn = IF l = 0 THEN "connectDestroyed" ELSE "removeConnectionInLoop"
    BY <1>1, FunctorType DEF Destroyer, Callers
  <1>6. /\ queue' = Post(queue, 0, F)
        /\ m_connections' = IF l = 0 THEN m_connections \ {c} ELSE m_connections
    BY <1>1 DEF CloseCallback, Destroyer
  <1>7. l = 0 => F = Destroyer(c)
    OBVIOUS
  <1>. HIDE DEF F
  <1>8. \A m \in Loops : \A g : InQueue(queue', m, g) <=> InQueue(queue, m, g) \/ (m = 0 /\ g = F)
    BY <1>4, <1>5, <1>6, PostQueue
  <1>9. server = "up" => c \in m_connections
    BY <1>1 DEF TeardownInv, OwnedOK
  <1>10. ASSUME NEW m \in Loops, NEW g \in Functors, InQueue(queue, m, g), g.c = c
         PROVE  /\ g.fn \notin {"removeConnectionInLoop", "connectEstablished"}
                /\ l = 0 => g.fn # "connectDestroyed"
                /\ ItemOK(m, g)
    BY <1>1, <1>9, <1>10 DEF TeardownInv, ItemsOK, ItemOK
  <1>11. Ordered(queue')
    <2>1. \A g \in Functors : InQueue(queue, 0, g) => Apart(g, F)
      BY <1>4, <1>5, <1>10 DEF Apart
    <2>. QED
      BY <1>4, <1>5, <1>6, <2>1, PostOrdered DEF TeardownInv
  <1>12. ItemsOK'
    <2>. SUFFICES ASSUME NEW m \in Loops, NEW g \in Functors, InQueue(queue', m, g)
                  PROVE  ItemOK(m, g)'
      BY DEF ItemsOK
    <2>1. CASE InQueue(queue, m, g) /\ g.c = c
      BY <1>1, <1>2, <1>3, <1>6, <1>10, <2>1 DEF ItemOK
    <2>2. CASE InQueue(queue, m, g) /\ g.c # c
      <3>1. g.c \in Conn
        BY DEF Functors
      <3>. QED
        BY <1>3, <1>6, <2>2, <3>1 DEF TeardownInv, ItemsOK, ItemOK
    <2>3. CASE m = 0 /\ g = F
      BY <1>1, <1>2, <1>3, <1>5, <1>6, <1>9, <2>3 DEF ItemOK
    <2>. QED
      BY <1>8, <2>1, <2>2, <2>3
  <1>13. OwnedOK'
    <2>. SUFFICES ASSUME NEW d \in Conn, Created(d)'
                  PROVE  /\ LifeOK(conn'[d])
                         /\ d \in m_connections' => conn'[d].destroyed = 0
                         /\ d \notin m_connections' /\ conn'[d].destroyed = 0 =>
                              InQueue(queue', conn'[d].loop, Destroyer(d))
                         /\ server' = "up" /\ conn'[d].closed = 0 => d \in m_connections'
      BY DEF OwnedOK
    <2>1. Created(d) /\ conn[d].loop \in Loops
      BY <1>3 DEF CommonInv, Wired, Sound, Connection
    <2>2. CASE d = c
      BY <1>1, <1>2, <1>3, <1>4, <1>6, <1>7, <1>8, <2>1, <2>2 DEF TeardownInv, OwnedOK
    <2>3. CASE d # c
      BY <1>3, <1>6, <1>8, <2>1, <2>3 DEF TeardownInv, OwnedOK
    <2>. QED
      BY <2>2, <2>3
  <1>14. HandlingOK'
    <2>1. /\ \A m \in Loops : m # l => handling'[m] = handling[m]
          /\ handling'[l] # Idle =>
               /\ handling'[l].c = c
               /\ handling'[l].revents = handling[l].revents \ {e}
      BY DispatchedType DEF CommonInv
    <2>2. ASSUME NEW m \in Loops, handling'[m] # Idle
          PROVE  /\ conn'[handling'[m].c].loop = m /\ conn'[handling'[m].c].destroyed = 0
                 /\ conn'[handling'[m].c].state # "kConnecting"
                 /\ ("in" \in handling'[m].revents \/ "hup" \in handling'[m].revents)
                      => conn'[handling'[m].c].closed = 0
      <3>1. CASE m = l
        BY <1>2, <1>3, <2>1, <2>2, <3>1
      <3>2. CASE m # l
        <4>1. /\ handling[m] # Idle /\ handling'[m] = handling[m] /\ handling[m].c \in Conn
              /\ conn[handling[m].c].loop = m
          BY <2>1, <2>2, <3>2, HandlingType DEF TeardownInv, HandlingOK, CommonInv
        <4>2. handling[m].c # c
          BY <1>1, <3>2, <4>1
        <4>. QED
          BY <1>3, <4>1, <4>2 DEF TeardownInv, HandlingOK
      <3>. QED
        BY <3>1, <3>2
    <2>3. server' # "up" => handling'[0] = Idle
      BY <1>1, <1>4, <2>1 DEF TeardownInv, HandlingOK
    <2>. QED
      BY <2>2, <2>3 DEF HandlingOK
  <1>15. UserOK'
    <2>1. \A u \in Users : user[u] # Idle => user[u].c \in Conn
      BY DEF CommonInv, TypeOK
    <2>. QED
      BY <1>2, <1>3, <2>1 DEF TeardownInv, UserOK
  <1>. QED
    BY <1>11, <1>12, <1>13, <1>14, <1>15 DEF TeardownInv

-----------------------------------------------------------------------------
(* A step that changes a connection no event is being dispatched for.      *)
LEMMA UnhandledTouch ==
  ASSUME CommonInv, TeardownInv, NEW c \in Conn, Created(c),
         \A d \in Conn : d # c => conn'[d] = conn[d],
         conn[c].state # "kConnecting" => conn'[c].state # "kConnecting",
         \A m \in Loops : handling[m] # Idle => handling[m].c # c,
         UNCHANGED <<handling, server, user>>
  PROVE  HandlingOK' /\ UserOK'
  <1>1. \A l \in Loops : handling[l] # Idle => handling[l].c \in Conn
    BY HandlingType DEF CommonInv
  <1>2. \A u \in Users : user[u] # Idle => user[u].c \in Conn
    BY DEF CommonInv, TypeOK
  <1>3. HandlingOK'
    BY <1>1 DEF TeardownInv, HandlingOK
  <1>4. UserOK'
    BY <1>2 DEF TeardownInv, UserOK
  <1>. QED
    BY <1>3, <1>4

(* connectEstablished runs before any other functor of its connection.     *)
LEMMA EstablishStep ==
  ASSUME CommonInv, CommonInv', TeardownInv, NEW l \in Loops, RunConnectEstablished(l)
  PROVE  TeardownInv'
  <1>. DEFINE c == Target(l)
              r == conn[c]
              s == ConnectEstablished(r)
  <1>1. /\ Pending(l, "connectEstablished") /\ queue' = Rest(l)
        /\ conn' = [conn EXCEPT ![c] = s]
        /\ UNCHANGED <<m_connections, handling, user, server>>
    BY DEF RunConnectEstablished
  <1>2. /\ c \in Conn /\ Created(c) /\ Sound(r) /\ LifeOK(r) /\ r.state = "kConnecting"
        /\ r.destroyed = 0 /\ r.loop = l
        /\ Head(queue[l]).c = c /\ queue[l] # <<>> /\ r.closed = 0
        /\ queue \in [Loops -> Seq(Functors)]
    <2>1. /\ r.state = "kConnecting" /\ r.destroyed = 0 /\ r.loop = l
          /\ Head(queue[l]).c = c /\ LifeOK(r)
      BY <1>1, HeadItem DEF ItemOK
    <2>. QED
      BY <1>1, <2>1, HeadFacts DEF LifeOK, CommonInv, TypeOK
  <1>3. /\ Sound(s) /\ LifeOK(s) /\ s.loop = l /\ s.state = "kConnected"
        /\ s.closed = 0 /\ s.destroyed = 0
    BY <1>2, EstablishedSound
  <1>. HIDE DEF s
  <1>4. /\ \A d \in Conn : Created(d)' <=> Created(d)
        /\ conn'[c] = s
        /\ \A d \in Conn : d # c => conn'[d] = conn[d]
    BY <1>1, <1>2, <1>3, TouchOne DEF CommonInv
  <1>5. Lesser(queue')
    BY <1>1, RestLesser
  <1>6. ItemsOK'
    <2>. SUFFICES ASSUME NEW m \in Loops, NEW g \in Functors, InQueue(queue', m, g)
                  PROVE  ItemOK(m, g)'
      BY DEF ItemsOK
    <2>1. ItemOK(m, g) /\ g.c \in Conn
      BY <1>5 DEF Lesser, TeardownInv, ItemsOK, Functors
    <2>2. CASE g.c = c
      <3>1. m = l
        BY <1>2, <2>1, <2>2 DEF ItemOK
      <3>2. g.fn # "connectEstablished"
        BY <1>1, <1>2, <2>2, <3>1, RestOrdered DEF Apart, TeardownInv
      <3>. QED
        BY <1>1, <1>2, <1>3, <1>4, <2>1, <2>2, <3>1, <3>2 DEF ItemOK
    <2>3. CASE g.c # c
      BY <1>1, <1>4, <2>1, <2>3 DEF ItemOK
    <2>. QED
      BY <2>2, <2>3
  <1>7. OwnedOK'
    <2>. SUFFICES ASSUME NEW d \in Conn, Created(d)'
                  PROVE  /\ LifeOK(conn'[d])
                         /\ d \in m_connections' => conn'[d].destroyed = 0
                         /\ d \notin m_connections' /\ conn'[d].destroyed = 0 =>
                              InQueue(queue', conn'[d].loop, Destroyer(d))
                         /\ server' = "up" /\ conn'[d].closed = 0 => d \in m_connections'
      BY DEF OwnedOK
    <2>1. CASE d = c
      BY <1>1, <1>2, <1>3, <1>4, <1>5, <2>1 DEF TeardownInv, OwnedOK, Lesser
    <2>2. CASE d # c
      BY <1>1, <1>4, <1>5, <2>2 DEF TeardownInv, OwnedOK, Lesser
    <2>. QED
      BY <2>1, <2>2
  <1>8. HandlingOK' /\ UserOK'
    <2>1. \A m \in Loops : handling[m] # Idle => handling[m].c # c
      BY <1>2 DEF TeardownInv, HandlingOK
    <2>. QED
      BY <1>1, <1>2, <1>4, <2>1, UnhandledTouch
  <1>. QED
    BY <1>5, <1>6, <1>7, <1>8 DEF TeardownInv, Lesser

(* connectDestroyed runs once: it is the only one queued.                  *)
LEMMA DestroyStep ==
  ASSUME CommonInv, CommonInv', TeardownInv, NEW l \in Loops, RunConnectDestroyed(l)
  PROVE  TeardownInv'
  <1>. DEFINE c == Target(l)
              r == conn[c]
              s == ConnectDestroyed(r)
  <1>1. /\ Pending(l, "connectDestroyed") /\ queue' = Rest(l)
        /\ conn' = [conn EXCEPT ![c] = s]
        /\ UNCHANGED <<m_connections, handling, user, server>>
    BY DEF RunConnectDestroyed
  <1>2. /\ c \in Conn /\ Created(c) /\ Sound(r) /\ LifeOK(r)
        /\ r.destroyed = 0 /\ r.loop = l /\ c \notin m_connections /\ handling[l] = Idle
        /\ Head(queue[l]).c = c /\ Head(queue[l]).fn = "connectDestroyed" /\ queue[l] # <<>>
        /\ queue \in [Loops -> Seq(Functors)]
    BY <1>1, HeadItem, HeadFacts DEF ItemOK, CommonInv, TypeOK
  <1>3. /\ Sound(s) /\ LifeOK(s) /\ s.loop = l /\ s.closed = r.closed /\ s.destroyed = 1
        /\ s.state = "kConnecting" <=> r.state = "kConnecting"
    BY <1>2, DestroyedSound
  <1>. HIDE DEF s
  <1>4. /\ \A d \in Conn : Created(d)' <=> Created(d)
        /\ conn'[c] = s
        /\ \A d \in Conn : d # c => conn'[d] = conn[d]
    BY <1>1, <1>2, <1>3, TouchOne DEF CommonInv
  <1>5. /\ Ordered(queue')
        /\ \A m \in Loops : \A g : InQueue(queue', m, g) => InQueue(queue, m, g)
        /\ \A g : InQueue(queue', l, g) => Apart(Head(queue[l]), g)
    BY <1>1, <1>2, RestQueue, RestOrdered DEF TeardownInv
  <1>6. ItemsOK'
    <2>. SUFFICES ASSUME NEW m \in Loops, NEW g \in Functors, InQueue(queue', m, g)
                  PROVE  ItemOK(m, g)'
      BY DEF ItemsOK
    <2>1. ItemOK(m, g) /\ g.c \in Conn
      BY <1>5 DEF TeardownInv, ItemsOK, Functors
    <2>2. CASE g.c = c
      <3>1. g.fn \notin {"connectEstablished", "connectDestroyed"}
        <4>1. g.fn # "removeConnectionInLoop" => m = l
          BY <1>2, <2>1, <2>2 DEF ItemOK
        <4>. QED
          BY <1>2, <1>5, <2>2, <4>1 DEF Apart
      <3>. QED
        BY <1>1, <1>2, <1>3, <1>4, <2>1, <2>2, <3>1 DEF ItemOK
    <2>3. CASE g.c # c
      BY <1>1, <1>4, <2>1, <2>3 DEF ItemOK
    <2>. QED
      BY <2>2, <2>3
  <1>7. OwnedOK'
    <2>. SUFFICES ASSUME NEW d \in Conn, Created(d)'
                  PROVE  /\ LifeOK(conn'[d])
                         /\ d \in m_connections' => conn'[d].destroyed = 0
                         /\ d \notin m_connections' /\ conn'[d].destroyed = 0 =>
                              InQueue(queue', conn'[d].loop, Destroyer(d))
                         /\ server' = "up" /\ conn'[d].closed = 0 => d \in m_connections'
      BY DEF OwnedOK
    <2>1. CASE d = c
      BY <1>1, <1>2, <1>3, <1>4, <2>1 DEF TeardownInv, OwnedOK
    <2>2. CASE d # c
      <3>1. Destroyer(d) # Head(queue[l])
        BY <1>2, <2>2, FunctorType DEF Destroyer, Callers
      <3>2. conn[d].loop \in Loops /\ Created(d)
        BY <1>4 DEF CommonInv, Wired, Sound, Connection
      <3>3. InQueue(queue, conn[d].loop, Destroyer(d))
              => InQueue(queue', conn[d].loop, Destroyer(d))
        BY <1>1, <1>2, <3>1, <3>2, RestQueue
      <3>. QED
        BY <1>1, <1>4, <2>2, <3>2, <3>3 DEF TeardownInv, OwnedOK
    <2>. QED
      BY <2>1, <2>2
  <1>8. HandlingOK' /\ UserOK'
    <2>1. \A m \in Loops : handling[m] # Idle => handling[m].c # c
      BY <1>2 DEF TeardownInv, HandlingOK
    <2>. QED
      BY <1>1, <1>2, <1>3, <1>4, <2>1, UnhandledTouch
  <1>. QED
    BY <1>5, <1>6, <1>7, <1>8 DEF TeardownInv

(* A connection leaves the server's map, with connectDestroyed queued: by  *)
(* removeConnectionInLoop or by ~TcpServer.                                *)
LEMMA EraseStep ==
  ASSUME CommonInv, CommonInv', TeardownInv, NEW c \in Conn, c \in m_connections,
         NEW q, q \in [Loops -> Seq(Functors)], Ordered(q),
         \A l \in Loops : \A f : InQueue(q, l, f) => InQueue(queue, l, f),
         \A d \in Conn : Created(d) /\ InQueue(queue, conn[d].loop, Destroyer(d)) =>
           InQueue(q, conn[d].loop, Destroyer(d)),
         \/ server # "up"
         \/ \A l \in Loops, f \in Functors :
              InQueue(q, l, f) /\ f.c = c => f.fn # "removeConnectionInLoop",
         server = "up" => conn[c].closed = 1,
         queue' = Post(q, conn[c].loop, Destroyer(c)),
         m_connections' = m_connections \ {c}, UNCHANGED <<conn, handling, user, server>>
  PROVE  TeardownInv'
  <1>1. Created(c) /\ conn[c].loop \in Loops /\ conn[c].destroyed = 0
    BY DEF CommonInv, Referenced, Wired, Sound, Connection, TeardownInv, OwnedOK
  <1>2. /\ Destroyer(c) \in Functors /\ Destroyer(c).c = c /\ Destroyer(c).fn = "connectDestroyed"
    BY FunctorType DEF Destroyer, Callers
  <1>3. \A m \in Loops : \A g : InQueue(queue', m, g) <=>
                              InQueue(q, m, g) \/ (m = conn[c].loop /\ g = Destroyer(c))
    BY <1>1, <1>2, PostQueue
  <1>4. ASSUME NEW m \in Loops, NEW g \in Functors, InQueue(q, m, g)
        PROVE  ItemOK(m, g) /\ (g.c = c => g.fn # "connectDestroyed")
    BY <1>4 DEF TeardownInv, ItemsOK, ItemOK
  <1>5. Ordered(queue')
    <2>1. \A g \in Functors : InQueue(q, conn[c].loop, g) => Apart(g, Destroyer(c))
      BY <1>1, <1>2, <1>4 DEF Apart
    <2>. QED
      BY <1>1, <1>2, <2>1, PostOrdered
  <1>6. ItemsOK'
    <2>. SUFFICES ASSUME NEW m \in Loops, NEW g \in Functors, InQueue(queue', m, g)
                  PROVE  ItemOK(m, g)'
      BY DEF ItemsOK
    <2>1. CASE InQueue(q, m, g)
      BY <1>4, <2>1 DEF ItemOK
    <2>2. CASE m = conn[c].loop /\ g = Destroyer(c)
      BY <1>1, <1>2, <2>2 DEF ItemOK
    <2>. QED
      BY <1>3, <2>1, <2>2
  <1>7. OwnedOK'
    <2>. SUFFICES ASSUME NEW d \in Conn, Created(d)'
                  PROVE  /\ LifeOK(conn'[d])
                         /\ d \in m_connections' => conn'[d].destroyed = 0
                         /\ d \notin m_connections' /\ conn'[d].destroyed = 0 =>
                              InQueue(queue', conn'[d].loop, Destroyer(d))
                         /\ server' = "up" /\ conn'[d].closed = 0 => d \in m_connections'
      BY DEF OwnedOK
    <2>1. Created(d) /\ conn[d].loop \in Loops
      BY DEF Created, CommonInv, Wired, Sound, Connection
    <2>2. CASE d = c
      BY <1>1, <1>3, <2>1, <2>2 DEF TeardownInv, OwnedOK
    <2>3. CASE d # c
      BY <1>3, <2>1, <2>3 DEF TeardownInv, OwnedOK
    <2>. QED
      BY <2>2, <2>3
  <1>8. HandlingOK' /\ UserOK'
    BY UnchangedGentle, UnchangedInvolved
  <1>. QED
    BY <1>5, <1>6, <1>7, <1>8 DEF TeardownInv

(* removeConnectionInLoop erases the connection and posts                  *)
(* connectDestroyed.                                                       *)
LEMMA RemoveStep ==
  ASSUME CommonInv, CommonInv', TeardownInv, NEW l \in Loops, RunRemoveConnection(l)
  PROVE  TeardownInv'
  <1>. DEFINE c == Target(l)
  <1>1. /\ Pending(l, "removeConnectionInLoop")
        /\ m_connections' = m_connections \ {c}
        /\ queue' = Post(Rest(l), conn[c].loop, Destroyer(c))
        /\ UNCHANGED <<conn, handling, user, server>>
    BY DEF RunRemoveConnection, Destroyer
  <1>2. /\ c \in Conn /\ l = 0 /\ c \in m_connections /\ conn[c].closed = 1
        /\ Head(queue[l]).c = c /\ Head(queue[l]).fn = "removeConnectionInLoop"
        /\ queue[l] # <<>> /\ queue \in [Loops -> Seq(Functors)]
    BY <1>1, HeadItem, HeadFacts DEF ItemOK, CommonInv, TypeOK
  <1>3. Lesser(Rest(l))
    BY <1>1, RestLesser
  <1>4. \A m \in Loops, f \in Functors :
          InQueue(Rest(l), m, f) /\ f.c = c => f.fn # "removeConnectionInLoop"
    <2>1. \A g : InQueue(Rest(l), l, g) => Apart(Head(queue[l]), g)
      BY <1>2, RestOrdered DEF TeardownInv
    <2>2. ASSUME NEW m \in Loops, NEW f \in Functors, InQueue(Rest(l), m, f),
                 f.fn = "removeConnectionInLoop"
          PROVE  m = l
      BY <1>2, <1>3, <2>2 DEF Lesser, TeardownInv, ItemsOK, ItemOK
    <2>. QED
      BY <1>2, <2>1, <2>2 DEF Apart
  <1>. QED
    BY <1>1, <1>2, <1>3, <1>4, EraseStep DEF Lesser

(* ~TcpServer erases the connection and posts connectDestroyed, which is   *)
(* then the only one.                                                      *)
LEMMA DtorStep ==
  ASSUME CommonInv, CommonInv', TeardownInv, NEW c \in Conn, DtorConnection(c)
  PROVE  TeardownInv'
  <1>1. /\ c \in m_connections /\ m_connections' = m_connections \ {c}
        /\ server = "dtor" /\ UNCHANGED <<handling, user, server>>
        /\ Created(c) /\ Sound(conn[c]) /\ LifeOK(conn[c]) /\ conn[c].destroyed = 0
    BY DEF DtorConnection, CommonInv, Referenced, Wired, TeardownInv, OwnedOK
  <1>2. CASE conn[c].loop # 0
    <2>1. queue' = Post(queue, conn[c].loop, Destroyer(c)) /\ UNCHANGED conn
      BY <1>2 DEF DtorConnection, Destroyer
    <2>2. queue \in [Loops -> Seq(Functors)] /\ Ordered(queue)
      BY DEF CommonInv, TypeOK, TeardownInv
    <2>. QED
      BY <1>1, <2>1, <2>2, EraseStep
  <1>3. CASE conn[c].loop = 0
    <2>. DEFINE s == ConnectDestroyed(conn[c])
    <2>1. conn' = [conn EXCEPT ![c] = s] /\ UNCHANGED queue
      BY <1>3 DEF DtorConnection
    <2>2. /\ Sound(s) /\ LifeOK(s) /\ s.loop = 0 /\ s.closed = conn[c].closed /\ s.destroyed = 1
          /\ s.state = "kConnecting" <=> conn[c].state = "kConnecting"
      BY <1>1, <1>3, DestroyedSound
    <2>. HIDE DEF s
    <2>3. /\ \A d \in Conn : Created(d)' <=> Created(d)
          /\ conn'[c] = s
          /\ \A d \in Conn : d # c => conn'[d] = conn[d]
      BY <1>1, <2>1, <2>2, TouchOne DEF CommonInv
    <2>4. ItemsOK'
      <3>. SUFFICES ASSUME NEW m \in Loops, NEW g \in Functors, InQueue(queue, m, g)
                    PROVE  ItemOK(m, g)'
        BY <2>1 DEF ItemsOK
      <3>1. ItemOK(m, g) /\ g.c \in Conn
        BY DEF TeardownInv, ItemsOK, Functors
      <3>2. CASE g.c = c
        BY <1>1, <1>3, <2>2, <2>3, <3>1, <3>2 DEF ItemOK
      <3>3. CASE g.c # c
        BY <1>1, <2>3, <3>1, <3>3 DEF ItemOK
      <3>. QED
        BY <3>2, <3>3
    <2>5. OwnedOK'
      <3>. SUFFICES ASSUME NEW d \in Conn, Created(d)'
                    PROVE  /\ LifeOK(conn'[d])
                           /\ d \in m_connections' => conn'[d].destroyed = 0
                           /\ d \notin m_connections' /\ conn'[d].destroyed = 0 =>
                                InQueue(queue', conn'[d].loop, Destroyer(d))
                           /\ server' = "up" /\ conn'[d].closed = 0 => d \in m_connections'
        BY DEF OwnedOK
      <3>1. CASE d = c
        BY <1>1, <2>2, <2>3, <3>1
      <3>2. CASE d # c
        BY <1>1, <2>1, <2>3, <3>2 DEF TeardownInv, OwnedOK
      <3>. QED
        BY <3>1, <3>2
    <2>6. HandlingOK' /\ UserOK'
      <3>1. \A m \in Loops : handling[m] # Idle => handling[m].c # c
        BY <1>1, <1>3 DEF TeardownInv, HandlingOK
      <3>. QED
        BY <1>1, <2>2, <2>3, <3>1, UnhandledTouch
    <2>. QED
      BY <2>1, <2>4, <2>5, <2>6 DEF TeardownInv
  <1>. QED
    BY <1>2, <1>3

(* A new connection starts its life with connectEstablished, run at once   *)
(* on the base loop and posted to any other.                               *)
LEMMA AcceptStep ==
  ASSUME CommonInv, CommonInv', TeardownInv, Accept
  PROVE  TeardownInv'
  <1>. DEFINE c == m_nextConnId
              r == NewConnection(NextLoop)
              s == IF NextLoop = 0 THEN ConnectEstablished(r) ELSE r
              F == Functor("connectEstablished", c, "server")
  <1>1. c \in Conn /\ ~Created(c)
    BY ServerAssumption DEF CommonInv, TypeOK, Referenced, Accept, Conn, ServerAssumption
  <1>2. /\ Sound(s) /\ LifeOK(s) /\ s.loop = NextLoop /\ s.closed = 0 /\ s.destroyed = 0
        /\ s.state = IF NextLoop = 0 THEN "kConnected" ELSE "kConnecting"
        /\ NextLoop \in Loops
    <2>1. NextLoop \in Loops
      BY NextLoopType DEF CommonInv
    <2>2. /\ Sound(r) /\ LifeOK(r) /\ r.loop = NextLoop /\ r.state = "kConnecting"
          /\ r.closed = 0 /\ r.destroyed = 0
      BY <2>1, NewConnectionSound
    <2>. QED
      BY <2>1, <2>2, EstablishedSound
  <1>3. /\ conn' = [conn EXCEPT ![c] = s]
        /\ queue' = IF NextLoop = 0 THEN queue ELSE Post(queue, NextLoop, F)
        /\ m_connections' = m_connections \union {c}
        /\ UNCHANGED <<handling, user, server>>
    BY DEF Accept
  <1>4. F \in Functors /\ F.c = c /\ F.fn = "connectEstablished"
    BY <1>1, FunctorType DEF Callers
  <1>. HIDE DEF s, F
  <1>5. /\ conn'[c] = s
        /\ \A d \in Conn : d # c => conn'[d] = conn[d]
    BY <1>1, <1>3 DEF CommonInv, TypeOK
  <1>6. queue \in [Loops -> Seq(Functors)]
    BY DEF CommonInv, TypeOK
  <1>7. \A m \in Loops, g \in Functors : InQueue(queue, m, g) => g.c # c /\ ItemOK(m, g)
    BY <1>1 DEF CommonInv, Referenced, TeardownInv, ItemsOK
  <1>8. /\ Ordered(queue')
        /\ \A m \in Loops : \A g :
             InQueue(queue', m, g)
               <=> InQueue(queue, m, g) \/ (NextLoop # 0 /\ m = NextLoop /\ g = F)
    <2>1. CASE NextLoop = 0
      BY <1>3, <2>1 DEF TeardownInv
    <2>2. CASE NextLoop # 0
      <3>1. \A g \in Functors : InQueue(queue, NextLoop, g) => Apart(g, F)
        BY <1>2, <1>4, <1>7 DEF Apart
      <3>2. queue' = Post(queue, NextLoop, F)
        BY <1>3, <2>2
      <3>. QED
        BY <1>2, <1>4, <1>6, <2>2, <3>1, <3>2, PostOrdered, PostQueue DEF TeardownInv
    <2>. QED
      BY <2>1, <2>2
  <1>9. ItemsOK'
    <2>. SUFFICES ASSUME NEW m \in Loops, NEW g \in Functors, InQueue(queue', m, g)
                  PROVE  ItemOK(m, g)'
      BY DEF ItemsOK
    <2>1. CASE InQueue(queue, m, g)
      <3>1. g.c \in Conn
        BY DEF Functors
      <3>. QED
        BY <1>3, <1>5, <1>7, <2>1, <3>1 DEF ItemOK
    <2>2. CASE NextLoop # 0 /\ m = NextLoop /\ g = F
      BY <1>2, <1>4, <1>5, <2>2 DEF ItemOK
    <2>. QED
      BY <1>8, <2>1, <2>2
  <1>10. OwnedOK'
    <2>. SUFFICES ASSUME NEW d \in Conn, Created(d)'
                  PROVE  /\ LifeOK(conn'[d])
                         /\ d \in m_connections' => conn'[d].destroyed = 0
                         /\ d \notin m_connections' /\ conn'[d].destroyed = 0 =>
                              InQueue(queue', conn'[d].loop, Destroyer(d))
                         /\ server' = "up" /\ conn'[d].closed = 0 => d \in m_connections'
      BY DEF OwnedOK
    <2>1. CASE d = c
      BY <1>2, <1>3, <1>5, <2>1
    <2>2. CASE d # c
      <3>1. Created(d) /\ conn[d].loop \in Loops
        BY <1>5, <2>2 DEF Created, CommonInv, Wired, Sound, Connection
      <3>. QED
        BY <1>3, <1>5, <1>8, <2>2, <3>1 DEF TeardownInv, OwnedOK
    <2>. QED
      BY <2>1, <2>2
  <1>11. HandlingOK' /\ UserOK'
    <2>1. \A l \in Loops : handling[l] # Idle => handling[l].c \in Conn /\ handling[l].c # c
      BY <1>1, HandlingType DEF CommonInv, Referenced
    <2>2. \A u \in Users : user[u] # Idle => user[u].c \in Conn /\ user[u].c # c
      BY <1>1 DEF CommonInv, Referenced, TypeOK
    <2>3. HandlingOK'
      BY <1>3, <1>5, <2>1 DEF TeardownInv, HandlingOK
    <2>4. UserOK'
      BY <1>3, <1>5, <2>2 DEF TeardownInv, UserOK
    <2>. QED
      BY <2>3, <2>4
  <1>. QED
    BY <1>8, <1>9, <1>10, <1>11 DEF TeardownInv

-----------------------------------------------------------------------------
(* The users only send.                                                    *)
LEMMA UserSteps ==
  ASSUME LoopsShutDown, CommonInv, CommonInv', TeardownInv, NEW u \in Users,
         \/ UserSend(u) \/ UserShutdown(u)
         \/ \E c \in Conn, op \in UserOps : UserCall(u, c, op)
  PROVE  TeardownInv'
  <1>1. CASE UserSend(u)
    <2>. DEFINE c == user[u].c
                f == Functor("sendInLoop", c, u)
    <2>1. /\ user[u] # Idle /\ user' = [user EXCEPT ![u] = Idle]
          /\ queue' = Post(queue, conn[c].loop, f)
          /\ UNCHANGED <<conn, m_connections, handling, server>>
      BY <1>1 DEF UserSend
    <2>2. c \in Conn /\ Created(c) /\ conn[c].state # "kConnecting"
      BY <2>1, UserFacts DEF TeardownInv, UserOK
    <2>3. f \in Functors /\ f.c = c /\ f.fn = "sendInLoop" /\ f.by = u
      BY <2>2, FunctorType DEF Callers
    <2>. HIDE DEF f
    <2>4. GentleQueue
      BY <2>1, <2>2, <2>3, QueueLesser, PostGentle
    <2>5. GentleConn /\ HandlingOK'
      BY <2>1, UnchangedGentle, UnchangedInvolved
    <2>6. UserOK'
      BY <2>1 DEF TeardownInv, UserOK, CommonInv, TypeOK
    <2>. QED
      BY <2>1, <2>4, <2>5, <2>6, GentleStep
  <1>2. CASE UserShutdown(u)
    <2>1. user[u] # Idle /\ user[u].op = "shutdown"
      BY <1>2 DEF UserShutdown
    <2>. QED
      BY <2>1 DEF TeardownInv, UserOK
  <1>3. ASSUME NEW c \in Conn, NEW op \in UserOps, UserCall(u, c, op)
        PROVE  TeardownInv'
    <2>. DEFINE r == conn[c]
                n == IF op = "send" THEN r.sends + 1 ELSE r.sends
                s == [r EXCEPT !.sends = n]
    <2>1. /\ Created(c) /\ Sound(r) /\ LifeOK(r) /\ r.state = "kConnected" /\ op = "send"
          /\ UNCHANGED <<queue, m_connections, handling, server>>
          /\ user' = [user EXCEPT ![u] = [op |-> op, c |-> c]]
      BY <1>3 DEF UserCall, CommonInv, Wired, TeardownInv, OwnedOK, LoopsShutDown
    <2>2. n \in 0..MaxSend
      BY <1>3, <2>1, ServerAssumption DEF UserCall, Sound, Connection, ServerAssumption
    <2>3. conn' = [conn EXCEPT ![c] = s]
      BY <1>3 DEF UserCall
    <2>4. s = [r EXCEPT !.sends = n]
      OBVIOUS
    <2>. HIDE DEF s, n
    <2>5. /\ Sound(s) /\ LifeOK(s) /\ s.loop = r.loop /\ s.closed = r.closed
          /\ s.destroyed = r.destroyed /\ s.state = r.state
      BY <2>1, <2>2, <2>4, CountedSound
    <2>6. GentleConn
      BY <2>1, <2>3, <2>5, TouchGentle DEF TeardownInv
    <2>7. GentleQueue /\ HandlingOK'
      BY <2>1, <2>6, UnchangedGentle, UnchangedInvolved
    <2>8. UserOK'
      <3>1. \A v \in Users : user[v] # Idle => user[v].c \in Conn /\ Created(user[v].c)
        BY DEF CommonInv, Referenced, TypeOK
      <3>2. \A v \in Users : user[v] # Idle =>
              user[v].op = "send" /\ conn'[user[v].c].state # "kConnecting"
        BY <2>6, <3>1 DEF TeardownInv, UserOK, GentleConn
      <3>3. conn'[c].state # "kConnecting"
        BY <2>1, <2>6 DEF GentleConn
      <3>4. \A v \in Users : v # u => user'[v] = user[v]
        BY <2>1 DEF CommonInv, TypeOK
      <3>5. user'[u].op = "send" /\ user'[u].c = c
        BY <2>1 DEF CommonInv, TypeOK
      <3>. QED
        BY <3>2, <3>3, <3>4, <3>5 DEF UserOK
    <2>. QED
      BY <2>1, <2>6, <2>7, <2>8, GentleStep
  <1>. QED
    BY <1>1, <1>2, <1>3

(* Every step keeps the invariant of the teardown ...                      *)
LEMMA TeardownStep ==
  ASSUME LoopsShutDown, CommonInv, CommonInv', TeardownInv, [Next]_vars
  PROVE  TeardownInv'
  <1>1. ASSUME UNCHANGED <<conn, queue, m_connections, user>>, HandlingOK',
               server' = "up" => server = "up"
        PROVE  TeardownInv'
    BY <1>1, UnchangedGentle, UnchangedInvolved, GentleStep
  <1>2. CASE ServerDtor
    <2>1. HandlingOK'
      BY <1>2 DEF ServerDtor, Running, TeardownInv, HandlingOK
    <2>. QED
      BY <1>1, <1>2, <2>1 DEF ServerDtor
  <1>3. CASE DtorDone
    <2>1. HandlingOK'
      BY <1>3 DEF DtorDone, TeardownInv, HandlingOK
    <2>. QED
      BY <1>1, <1>3, <2>1 DEF DtorDone
  <1>4. ASSUME NEW c \in Conn, NEW what \in {"eof", "reset"}, PeerActs(c, what)
        PROVE  TeardownInv'
    <2>1. HandlingOK'
      BY <1>4, UnchangedGentle, UnchangedInvolved DEF PeerActs
    <2>. QED
      BY <1>1, <1>4, <2>1 DEF PeerActs
  <1>5. CASE UNCHANGED vars
    <2>1. HandlingOK'
      BY <1>5, UnchangedGentle, UnchangedInvolved DEF vars
    <2>. QED
      BY <1>1, <1>5, <2>1 DEF vars
  <1>6. ASSUME NEW l \in Loops, RunFunctor(l)
        PROVE  TeardownInv'
    BY <1>6, EstablishStep, RemoveStep, DestroyStep, GentleFunctors DEF RunFunctor
  <1>7. ASSUME NEW l \in Loops, Dispatch(l)
        PROVE  TeardownInv'
    <2>1. CASE HupEvent(l) /\ "in" \notin handling[l].revents
      <3>1. {"in", "hup"} \intersect handling[l].revents \subseteq {"hup"}
        BY <2>1
      <3>2. "hup" \in {"in", "hup"}
        OBVIOUS
      <3>. QED
        BY <2>1, <3>1, <3>2, CloseStep DEF HupEvent
    <2>2. CASE ReadEof(l)
      <3>1. {"in", "hup"} \intersect handling[l].revents \subseteq {"in"}
        BY <2>2 DEF ReadEof, Dispatching, Before
      <3>2. "in" \in {"in", "hup"}
        OBVIOUS
      <3>. QED
        BY <2>2, <3>1, <3>2, CloseStep DEF ReadEof
    <2>. QED
      BY <1>7, <2>1, <2>2, GentleDispatch DEF Dispatch
  <1>. QED
    BY <1>2, <1>3, <1>4, <1>5, <1>6, <1>7, AcceptStep, GentlePoll, DtorStep,
       UserSteps DEF Next

(* ... which holds at the start.                                           *)
LEMMA TeardownInit == Init => TeardownInv
  <1>. SUFFICES ASSUME Init
                PROVE  TeardownInv
    OBVIOUS
  <1>1. \A c \in Conn : ~Created(c)
    BY DEF Init, Created, NoConnection
  <1>2. \A l \in Loops : \A f : ~InQueue(queue, l, f)
    BY DEF Init, InQueue
  <1>3. Ordered(queue)
    BY DEF Init, Ordered
  <1>4. 0 \in Loops
    BY ServerAssumption DEF ServerAssumption, Loops
  <1>. QED
    BY <1>1, <1>2, <1>3, <1>4 DEF Init, TeardownInv, ItemsOK, OwnedOK, HandlingOK, UserOK

(* The teardown invariant holds throughout, however close events,          *)
(* removeConnection, ~TcpServer and the users' sends interleave.           *)
THEOREM TeardownAlways ==
  ASSUME LoopsShutDown
  PROVE  Spec => [](CommonInv /\ TeardownInv)
  <1>1. Init => CommonInv /\ TeardownInv
    BY CommonInit, TeardownInit
  <1>2. CommonInv /\ TeardownInv /\ [Next]_vars => (CommonInv /\ TeardownInv)'
    BY CommonStep, TeardownStep
  <1>. QED
    BY <1>1, <1>2, PTL DEF Spec

(* Provided that only the loops' threads call shutdown(), a connection is  *)
(* closed at most once and destroyed at most once, and never destroyed     *)
(* while TcpServer's map still holds it.                                   *)
THEOREM TornDownExactlyOnce ==
  ASSUME LoopsShutDown
  PROVE  Spec => []TornDownOnce
  <1>1. CommonInv /\ TeardownInv => TornDownOnce
    BY DEF TeardownInv, OwnedOK, LifeOK, TornDownOnce
  <1>. QED
    BY <1>1, TeardownAlways, PTL

(* The same for the user's connectionCallback: up once, then down at most  *)
(* once, whichever of handleClose and connectDestroyed comes first.        *)
THEOREM CallbacksComeInPairs ==
  ASSUME LoopsShutDown
  PROVE  Spec => []CallbacksPaired
  <1>1. CommonInv /\ TeardownInv => CallbacksPaired
    <2>. SUFFICES ASSUME CommonInv, TeardownInv, NEW c \in Conn, Created(c)
                  PROVE  IsPrefix(conn[c].reports, <<"up", "down">>)
      BY DEF CallbacksPaired
    <2>1. conn[c].reports \in {<<>>, Up, UpDown}
      BY DEF TeardownInv, OwnedOK, LifeOK, CommonInv, Wired, Sound, Connection
    <2>2. IsPrefix(<<>>, <<"up", "down">>)
      BY DEF IsPrefix
    <2>3. IsPrefix(Up, <<"up", "down">>)
      BY DEF IsPrefix, Up
    <2>4. IsPrefix(UpDown, <<"up", "down">>)
      BY DEF IsPrefix, UpDown
    <2>. QED
      BY <2>1, <2>2, <2>3, <2>4
  <1>. QED
    BY <1>1, TeardownAlways, PTL

(* And for the registration: a connection nothing refers to any more is in *)
(* neither the kernel's interest list nor the poller's map, because it has *)
(* been through connectDestroyed.                                          *)
THEOREM NothingDangles ==
  ASSUME LoopsShutDown
  PROVE  Spec => []NoDanglingRegistration
  <1>1. CommonInv /\ TeardownInv => NoDanglingRegistration
    <2>. SUFFICES ASSUME CommonInv, TeardownInv, NEW c \in Conn, Released(c)
                  PROVE  conn[c].armed = {} /\ ~conn[c].mapped
      BY DEF NoDanglingRegistration
    <2>1. Created(c) /\ c \notin m_connections /\ conn[c].loop \in Loops /\ LifeOK(conn[c])
      BY DEF Released, CommonInv, Wired, Sound, Connection, TeardownInv, OwnedOK
    <2>2. ~InQueue(queue, conn[c].loop, Destroyer(c))
      <3>1. Destroyer(c).c = c
        BY FunctorType DEF Destroyer, Callers
      <3>. QED
        BY <2>1, <3>1 DEF Released, InQueue
    <2>3. conn[c].destroyed # 0
      BY <2>1, <2>2 DEF TeardownInv, OwnedOK
    <2>. QED
      BY <2>1, <2>3 DEF LifeOK
  <1>. QED
    BY <1>1, TeardownAlways, PTL

(* And for the FIN: what the thread that shuts a connection down has sent  *)
(* before is written before it.                                            *)
THEOREM FinComesLast ==
  ASSUME LoopsShutDown
  PROVE  Spec => []FinAfterOwnData
  <1>1. CommonInv /\ TeardownInv => FinAfterOwnData
    <2>. SUFFICES ASSUME CommonInv, TeardownInv, NEW c \in Conn, Created(c), conn[c].fin
                  PROVE  /\ conn[c].closer \notin ToSet(conn[c].out)
                         /\ \A l \in Loops : \A i \in DOMAIN queue[l] :
                              ~(/\ queue[l][i].fn = "sendInLoop" /\ queue[l][i].c = c
                                /\ queue[l][i].by = conn[c].closer)
      BY DEF FinAfterOwnData
    <2>1. conn[c].out = <<>> /\ conn[c].closer \in {"none", "loop"}
      BY DEF TeardownInv, OwnedOK, LifeOK
    <2>2. conn[c].closer \notin ToSet(conn[c].out)
      BY <2>1 DEF ToSet
    <2>3. ASSUME NEW l \in Loops, NEW i \in DOMAIN queue[l], queue[l][i].fn = "sendInLoop"
          PROVE  queue[l][i].by \in Users
      <3>1. queue[l][i] \in Functors
        BY ElementOfSeq, LenProperties DEF CommonInv, TypeOK
      <3>2. InQueue(queue, l, queue[l][i])
        BY DEF InQueue
      <3>. QED
        BY <2>3, <3>1, <3>2 DEF TeardownInv, ItemsOK, ItemOK
    <2>. QED
      BY <2>1, <2>2, <2>3, ServerAssumption DEF ServerAssumption
  <1>. QED
    BY <1>1, TeardownAlways, PTL
=============================================================================
