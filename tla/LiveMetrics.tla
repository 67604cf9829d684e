----------------------------- MODULE LiveMetrics -----------------------------
(***************************************************************************)
(* The live counters of one event log.  Each websocket has a handler; an     *)
(* event it receives is counted in Redis, or in memory if Redis fails, and   *)
(* the counters are sent to the sockets of the list one after the other.     *)
(* The handlers share the list: it changes while one of them awaits a send.  *)
(* A message that only asks for the counters, or for the events in memory,   *)
(* changes nothing and is left out.                                         *)
(***************************************************************************)
EXTENDS Service, Sequences

CONSTANTS
  MaxSockets,  \* bound of the websockets opened
  MaxEvents    \* bound of the events received

ASSUME LiveAssumption == MaxSockets \in Nat /\ MaxEvents \in Nat

VARIABLES
  subscribers,  \* the list
  socket,       \* per socket: whether it is open, its handler, the last total it got
  counters,     \* the totals in Redis and in memory
  received,     \* events received so far
  audience,     \* who was listening at the last event, and still is
  entangled     \* handlers met in a broadcast, or one ended before its own

\* Numbered in the order in which they connect.
Sockets == 1..MaxSockets

liveVars == <<subscribers, socket, counters, received, audience, entangled>>

\* "next" is the index of the loop over the list, "dead" the sends that failed.
NewSocket == [pc |-> "closed", open |-> FALSE, total |-> 0, next |-> 1, dead |-> <<>>, seen |-> 0]

LiveTypeOK ==
  /\ subscribers \in Seq(Sockets)
  /\ socket \in [Sockets -> [pc : {"closed", "receiving", "counted", "sending", "over"},
                             open : BOOLEAN, total : Nat, next : Nat \ {0},
                             dead : Seq(Sockets), seen : Nat]]
  /\ counters \in [redis : Nat, memory : Nat]
  /\ received \in 0..MaxEvents /\ audience \subseteq Sockets /\ entangled \in BOOLEAN

LiveInit ==
  /\ subscribers = <<>>
  /\ socket = [s \in Sockets |-> NewSocket]
  /\ counters = [redis |-> 0, memory |-> 0]
  /\ received = 0 /\ audience = {} /\ entangled = FALSE

Living == On("live") /\ NoFault

Listed(s) == \E i \in DOMAIN subscribers : subscribers[i] = s

Handler(s, pc) == socket[s].pc = pc

Sending == {s \in Sockets : socket[s].pc = "sending"}

\* Mutant: the closed sockets are dropped from the list by their index.
RemainingShifted(dead) ==
  SubSeq(subscribers, Len(dead) + 1, Len(subscribers))

\* remove, one after the other: what stays keeps its order.
Remaining(dead) ==
  LET kept == InOrder({i \in DOMAIN subscribers : \A k \in DOMAIN dead : dead[k] # subscribers[i]})
  IN  [j \in DOMAIN kept |-> subscribers[kept[j]]]

----------------------------------------------------------------------------

Connect(s) ==
  /\ Living /\ Handler(s, "closed")
  /\ \A t \in 1..(s - 1) : ~Handler(t, "closed")
  /\ socket' = [socket EXCEPT ![s].pc = "receiving", ![s].open = TRUE]
  /\ subscribers' = Append(subscribers, s)
  /\ UNCHANGED <<counters, received, audience, entangled>>

\* The peer closes, or the network does.
Close(s) ==
  /\ Living /\ socket[s].open
  /\ socket' = [socket EXCEPT ![s].open = FALSE, ![s].seen = 0]
  /\ audience' = audience \ {s}
  /\ UNCHANGED <<subscribers, counters, received, entangled>>

\* WebSocketDisconnect, where the handler waits for a message or acknowledges
\* one: unsubscribe.
HandlerEnds(s) ==
  /\ Living /\ ~socket[s].open /\ socket[s].pc \in {"receiving", "counted"}
  /\ socket' = [socket EXCEPT ![s].pc = "over"]
  /\ subscribers' = Remaining(<<s>>)
  /\ entangled' = (entangled \/ Sending # {} \/ Handler(s, "counted"))
  /\ UNCHANGED <<counters, received, audience>>

\* add_event: a pipeline that fails may have been executed.
CountEvent(s) ==
  /\ Handler(s, "receiving") /\ socket[s].open /\ received < MaxEvents
  /\ \/ Living /\ counters' = [counters EXCEPT !.redis = @ + 1]
     \/ /\ On("live") /\ Fault
        /\ \E n \in {0, 1} : counters' = [redis |-> counters.redis + n,
                                          memory |-> counters.memory + 1]
  /\ received' = received + 1
  /\ audience' = {t \in Sockets : socket[t].open /\ Listed(t)}
  /\ socket' = [socket EXCEPT ![s].pc = "counted"]
  /\ entangled' = (entangled \/ \E t \in Sockets : socket[t].pc \in {"counted", "sending"})
  /\ UNCHANGED subscribers

\* get_kpis, the acknowledgement, and the start of the broadcast.
ReadKpis(s) ==
  /\ Handler(s, "counted") /\ socket[s].open
  /\ \E total \in {counters.redis, counters.memory} :
       /\ \/ Living /\ total = counters.redis
          \/ On("live") /\ Fault /\ total = counters.memory
       /\ socket' = [socket EXCEPT ![s] = [@ EXCEPT !.pc = "sending", !.total = total,
                                                    !.next = 1, !.dead = <<>>, !.seen = total]]
  /\ UNCHANGED <<subscribers, counters, received, audience, entangled>>

\* Mutant: a send that fails ends the loop.
BroadcastToFailing(s) ==
  /\ Living /\ Handler(s, "sending") /\ socket[s].next <= Len(subscribers)
  /\ LET t == subscribers[socket[s].next]
     IN  socket' = IF socket[t].open
                   THEN [socket EXCEPT ![s].next = @ + 1, ![t].seen = socket[s].total]
                   ELSE [socket EXCEPT ![s].next = Len(subscribers) + 1,
                                       ![s].dead = Append(@, t)]
  /\ UNCHANGED <<subscribers, counters, received, audience, entangled>>

\* The next send of the loop; a closed socket is noted.
BroadcastTo(s) ==
  /\ Living /\ Handler(s, "sending") /\ socket[s].next <= Len(subscribers)
  /\ LET t == subscribers[socket[s].next]
         on == [socket EXCEPT ![s].next = @ + 1]
     IN  socket' = IF socket[t].open
                   THEN [on EXCEPT ![t].seen = socket[s].total]
                   ELSE [on EXCEPT ![s].dead = Append(@, t)]
  /\ UNCHANGED <<subscribers, counters, received, audience, entangled>>

\* The dead are removed; one that is gone already raises ValueError, which
\* ends the handler without an unsubscribe, and its socket with it.
BroadcastEnds(s) ==
  /\ Living /\ Handler(s, "sending") /\ socket[s].next > Len(subscribers)
  /\ LET dead == socket[s].dead
         gone == {i \in DOMAIN dead : ~Listed(dead[i])}
         upTo == IF gone = {} THEN Len(dead) ELSE (CHOOSE i \in gone : \A j \in gone : i <= j) - 1
     IN  /\ subscribers' = Remaining(SubSeq(dead, 1, upTo))
         /\ socket' = [socket EXCEPT ![s] =
                         IF gone = {}
                         THEN [@ EXCEPT !.pc = "receiving", !.total = 0, !.next = 1, !.dead = <<>>]
                         ELSE [NewSocket EXCEPT !.pc = "over"]]
         /\ entangled' = (entangled \/ (dead # <<>> /\ Sending # {s}))
  /\ audience' = {t \in audience : socket'[t].open}
  /\ UNCHANGED <<counters, received>>

----------------------------------------------------------------------------

LiveNext ==
  \E s \in Sockets :
    \/ Connect(s) \/ Close(s) \/ HandlerEnds(s)
    \/ CountEvent(s) \/ ReadKpis(s)
    \/ BroadcastTo(s) \/ BroadcastEnds(s)

----------------------------------------------------------------------------
(* What must hold                                                           *)

\* Every open socket whose handler runs is in the list, once: only what is
\* closed is taken out of it (LiveMetrics.broadcast, unsubscribe).
ListenersKept ==
  \A s \in Sockets :
    socket[s].open => \E i \in DOMAIN subscribers :
                        \A j \in DOMAIN subscribers : subscribers[j] = s <=> j = i

\* When no event is being handled, who was listening at the last one has the
\* total of all, and no handler has died of an exception, unless Redis failed,
\* a broadcast met another or a change of the list, or the sender of an event
\* was gone before it was acknowledged (LiveMetrics.broadcast).
UpdatesReach ==
  faults = 0 /\ ~entangled =>
    /\ (\A s \in Sockets : socket[s].pc \in {"closed", "receiving", "over"})
         => \A s \in audience : socket[s].seen = received
    /\ \A s \in Sockets : socket[s].pc = "over" => ~Listed(s)

----------------------------------------------------------------------------
(***************************************************************************)
(* The collaboration channel of one dashboard: who joins or leaves is        *)
(* announced to all with the list of viewers, a message is passed on to the  *)
(* others.  A broadcast goes over a copy of the list and awaits every send,  *)
(* so broadcasts of several handlers overlap.                               *)
(***************************************************************************)

CONSTANT MaxViewers  \* bound of the viewers that join

ASSUME HubAssumption == MaxViewers \in Nat

VARIABLES
  viewer,    \* per websocket: its handler and whether it is open
  present,   \* the hub's list
  outgoing,  \* per handler: the broadcast it is in
  shown,     \* the viewers each client shows
  mingled    \* two announcements have overlapped

hubVars == <<viewer, present, outgoing, shown, mingled>>

\* Numbered in the order in which they join.
Viewers == 1..MaxViewers

NoBroadcast == [kind |-> "none", todo |-> {}, viewers |-> {}]

HubTypeOK ==
  /\ viewer \in [Viewers -> [pc : {"away", "receiving", "sending", "left"}, open : BOOLEAN]]
  /\ present \subseteq Viewers
  /\ outgoing \in [Viewers -> [kind : {"none", "presence", "edit"},
                               todo : SUBSET Viewers, viewers : SUBSET Viewers]]
  /\ shown \in [Viewers -> SUBSET Viewers]
  /\ mingled \in BOOLEAN

HubInit ==
  /\ viewer = [v \in Viewers |-> [pc |-> "away", open |-> FALSE]]
  /\ present = {}
  /\ outgoing = [v \in Viewers |-> NoBroadcast]
  /\ shown = [v \in Viewers |-> {}]
  /\ mingled = FALSE

Sharing == On("hub") /\ NoFault

\* Mutant: only the others are told.
RecipientsOthers(v, list) == list \ {v}

Recipients(v, list) == list

\* _broadcast_presence.
Announce(v, list) ==
  /\ present' = list
  /\ outgoing' = [outgoing EXCEPT ![v] = [kind |-> "presence", todo |-> Recipients(v, list),
                                          viewers |-> list]]
  /\ mingled' = (mingled \/ \E w \in Viewers : outgoing[w].kind = "presence")
  /\ UNCHANGED shown

JoinDashboard(v) ==
  /\ Sharing /\ viewer[v].pc = "away" /\ \A w \in 1..(v - 1) : viewer[w].pc # "away"
  /\ viewer' = [viewer EXCEPT ![v] = [pc |-> "sending", open |-> TRUE]]
  /\ Announce(v, present \cup {v})

CloseViewer(v) ==
  /\ Sharing /\ viewer[v].open
  /\ viewer' = [viewer EXCEPT ![v].open = FALSE]
  /\ shown' = [shown EXCEPT ![v] = {}]
  /\ UNCHANGED <<present, outgoing, mingled>>

\* The handler notices when it receives next, whatever the exception.
LeaveDashboard(v) ==
  /\ Sharing /\ viewer[v].pc = "receiving" /\ ~viewer[v].open
  /\ viewer' = [viewer EXCEPT ![v].pc = "left"]
  /\ Announce(v, present \ {v})

PassEdit(v) ==
  /\ Sharing /\ viewer[v].pc = "receiving" /\ viewer[v].open
  /\ viewer' = [viewer EXCEPT ![v].pc = "sending"]
  /\ outgoing' = [outgoing EXCEPT ![v] = [NoBroadcast EXCEPT !.kind = "edit", !.todo = present \ {v}]]
  /\ UNCHANGED <<present, shown, mingled>>

\* One send of a broadcast; to a closed socket it fails unnoticed.
SendTo(v, w) ==
  /\ Sharing /\ w \in outgoing[v].todo
  /\ outgoing' = [outgoing EXCEPT ![v].todo = @ \ {w}]
  /\ shown' = IF viewer[w].open /\ outgoing[v].kind = "presence"
              THEN [shown EXCEPT ![w] = outgoing[v].viewers] ELSE shown
  /\ UNCHANGED <<viewer, present, mingled>>

\* The broadcast is through: back to receiving, or the handler is done.
EndBroadcast(v) ==
  /\ Sharing /\ outgoing[v].kind # "none" /\ outgoing[v].todo = {}
  /\ outgoing' = [outgoing EXCEPT ![v] = NoBroadcast]
  /\ viewer' = [viewer EXCEPT ![v].pc = IF @ = "sending" THEN "receiving" ELSE @]
  /\ UNCHANGED <<present, shown, mingled>>

HubNext ==
  \E v \in Viewers :
    \/ JoinDashboard(v) \/ CloseViewer(v) \/ LeaveDashboard(v) \/ PassEdit(v) \/ EndBroadcast(v)
    \/ \E w \in Viewers : SendTo(v, w)

----------------------------------------------------------------------------
(* What must hold                                                           *)

\* When no announcement is under way, every open client shows who is there,
\* unless announcements overlapped (streaming.py _broadcast_presence).
PresenceFits ==
  ~mingled /\ (\A v \in Viewers : outgoing[v].kind # "presence")
    => \A v \in present : viewer[v].open => shown[v] = present

=============================================================================
