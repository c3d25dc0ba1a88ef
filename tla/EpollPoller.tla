----------------------------- MODULE EpollPoller -----------------------------
(***************************************************************************)
(* A Channel and the part of EpollPoller that registers it with the kernel *)
(* (common/epoll_poller.cpp, include/channel.h), as operators on a record  *)
(* that has at least the fields                                            *)
(*    events  m_events, a subset of {"in", "out"}                          *)
(*    index   m_index: kNew, kAdded or kDeleted                            *)
(*    mapped  the channel is in the poller's m_channels                    *)
(*    armed   the kernel's interest list: {} when the descriptor is not in *)
(*            it, else its events and those epoll always reports           *)
(*    fatal   an ADD or a MOD failed: LOG_FATAL, the process aborts        *)
(***************************************************************************)

kNew     == "kNew"
kAdded   == "kAdded"
kDeleted == "kDeleted"

AlwaysReported == {"hup", "err"}

(* epoll_ctl and what update() does with its errors: adding what is there  *)
(* or modifying what is not is fatal, deleting what is not is only logged. *)
Update(op, ch) ==
  CASE op = "add" -> [ch EXCEPT !.armed = ch.events \union AlwaysReported,
                                !.fatal = @ \/ ch.armed # {}]
    [] op = "mod" -> [ch EXCEPT !.armed = ch.events \union AlwaysReported,
                                !.fatal = @ \/ ch.armed = {}]
    [] op = "del" -> [ch EXCEPT !.armed = {}]

(* Mutant: the channel is added without being marked as added.             *)
UpdateForgetsIndex(ch) ==
  IF ch.index # kAdded
  THEN Update("add", [ch EXCEPT !.mapped = @ \/ ch.index = kNew])
  ELSE IF ch.events = {}
       THEN Update("del", [ch EXCEPT !.index = kDeleted])
       ELSE Update("mod", ch)

(* A channel that is new or was deleted is added, whatever its events; one *)
(* that is added is deleted when it has lost its last event.               *)
UpdateChannel(ch) ==
  IF ch.index # kAdded
  THEN Update("add", [ch EXCEPT !.index = kAdded,
                                !.mapped = @ \/ ch.index = kNew])
  ELSE IF ch.events = {}
       THEN Update("del", [ch EXCEPT !.index = kDeleted])
       ELSE Update("mod", ch)

RemoveChannel(ch) ==
  LET gone == IF ch.index = kAdded THEN Update("del", ch) ELSE ch
  IN  [gone EXCEPT !.index = kNew, !.mapped = FALSE]

EnableRead(ch)   == UpdateChannel([ch EXCEPT !.events = @ \union {"in"}])
EnableWrite(ch)  == UpdateChannel([ch EXCEPT !.events = @ \union {"out"}])
DisableWrite(ch) == UpdateChannel([ch EXCEPT !.events = @ \ {"out"}])
DisableAll(ch)   == UpdateChannel([ch EXCEPT !.events = {}])

IsWrite(ch) == "out" \in ch.events
=============================================================================
