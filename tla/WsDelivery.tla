----------------------------- MODULE WsDelivery -----------------------------
(***************************************************************************)
(* The WebSocket side of one API instance: the one-time tickets in Redis,  *)
(* WsController.Connect with its read loop and ping goroutine, the Hub and *)
(* its connections, and the single subscriber goroutine that pushes what   *)
(* Redis Pub/Sub delivers (apps/api/controllers/ws_controller.go, ws/).    *)
(*                                                                         *)
(* A peer that stops reading without closing (a phone that went to sleep)  *)
(* makes every write to it block once the socket buffer is full, and the   *)
(* writer holds the connection's lock meanwhile: no write deadline is set. *)
(* Only the read deadline, which a pong extends, ends such a connection.   *)
(***************************************************************************)
EXTENDS Naturals, Sequences, SequencesExt

CONSTANTS Users,         \* users with WebSocket connections (model values)
          Conns,         \* connection attempts; each is one run of Connect
          Tickets,       \* the random strings tickets are made of
          MaxPublished   \* bound: payloads published in a behaviour

ASSUME MaxPublishedAssumption == MaxPublished \in Nat

VARIABLES tickets,    \* Redis: ticket -> user; "fresh" or "gone" without one
          conn,       \* Connect's progress, its user and the ticket it used
          peer,       \* the browser's end: "alive", "stuck" or "gone"
          hub,        \* Hub.conns: user -> list of registered connections
          lock,       \* SafeConn.mu: "free", or who holds it
          pinger,     \* the ping goroutine of each connection
          channel,    \* payloads on their way through Redis Pub/Sub
          published,  \* how many payloads have been published
          sub,        \* the subscriber goroutine: payload and targets left
          wire,       \* what each browser has received, in order
          due         \* history: the payload last taken and Hub.Get's answer

connection == <<conn, peer, hub, pinger>>
vars == <<tickets, connection, lock, channel, published, sub, wire, due>>

NoUser == "nobody"
NoTicket == "none"

\* The run of Connect: the deferred calls run in the order Remove, Close.
States == {"new", "refused", "verified", "upgraded", "open", "ended",
           "removed", "closed"}
Payload == [to : Users, n : 1..MaxPublished]
NoPayload == [to |-> NoUser, n |-> 0]

Init ==
    /\ tickets = [t \in Tickets |-> "fresh"]
    /\ conn = [c \in Conns |->
                 [state |-> "new", user |-> NoUser, ticket |-> NoTicket]]
    /\ peer = [c \in Conns |-> "alive"]
    /\ hub = [u \in Users |-> <<>>]
    /\ lock = [c \in Conns |-> "free"]
    /\ pinger = [c \in Conns |-> "none"]
    /\ channel = <<>> /\ published = 0
    /\ sub = [state |-> "idle", payload |-> NoPayload, targets |-> <<>>]
    /\ wire = [c \in Conns |-> <<>>]
    /\ due = [payload |-> NoPayload, conns |-> {}]

SetState(c, state) == conn' = [conn EXCEPT ![c].state = state]

-----------------------------------------------------------------------------
(* Tickets                                                                 *)

\* POST /ws/ticket: SET ticket user EX 30.
IssueTicket(t, u) ==
    /\ tickets[t] = "fresh"
    /\ tickets' = [tickets EXCEPT ![t] = u]
    /\ UNCHANGED <<connection, lock, channel, published, sub, wire, due>>

\* The 30 seconds of ticketTTL are over.
ExpireTicket(t) ==
    /\ tickets[t] \in Users
    /\ tickets' = [tickets EXCEPT ![t] = "gone"]
    /\ UNCHANGED <<connection, lock, channel, published, sub, wire, due>>

Verified(c, t) == conn' = [conn EXCEPT ![c] =
    [state |-> "verified", user |-> tickets[t], ticket |-> t]]

\* Mutant: the error of VerifyTicket is not looked at.
ConnectUnverified(c, t) ==
    /\ conn[c].state = "new"
    /\ Verified(c, t)
    /\ tickets' = [tickets EXCEPT ![t] = "gone"]
    /\ UNCHANGED <<peer, hub, pinger, lock, channel, published, sub, wire, due>>

\* GET /ws?ticket=t: VerifyTicket reads and deletes the ticket in one command.
Connect(c, t) ==
    /\ conn[c].state = "new"
    /\ IF tickets[t] \in Users
       THEN Verified(c, t) /\ tickets' = [tickets EXCEPT ![t] = "gone"]
       ELSE SetState(c, "refused") /\ UNCHANGED tickets
    /\ UNCHANGED <<peer, hub, pinger, lock, channel, published, sub, wire, due>>

-----------------------------------------------------------------------------
(* One run of Connect                                                      *)

\* The upgrade to WebSocket succeeds, or fails and has spent the ticket.
Upgrade(c) ==
    /\ conn[c].state = "verified"
    /\ \/ SetState(c, "upgraded")
       \/ SetState(c, "refused")
    /\ UNCHANGED <<tickets, peer, hub, pinger, lock, channel, published, sub, wire, due>>

\* Mutant: the connection is registered a second time.
RegisterTwice(c) ==
    /\ conn[c].state = "upgraded"
    /\ SetState(c, "open")
    /\ hub' = [hub EXCEPT ![conn[c].user] = @ \o <<c, c>>]
    /\ pinger' = [pinger EXCEPT ![c] = "waiting"]
    /\ UNCHANGED <<tickets, peer, lock, channel, published, sub, wire, due>>

\* Hub.Add, the read deadline and the ping goroutine; the run ends before that goroutine
\* starts if the deadline cannot be set.
Register(c) ==
    /\ conn[c].state = "upgraded"
    /\ hub' = [hub EXCEPT ![conn[c].user] = Append(@, c)]
    /\ \/ SetState(c, "open") /\ pinger' = [pinger EXCEPT ![c] = "waiting"]
       \/ SetState(c, "ended") /\ UNCHANGED pinger
    /\ UNCHANGED <<tickets, peer, lock, channel, published, sub, wire, due>>

\* The browser stops reading and answering pings, or closes the connection.
PeerFails(c) ==
    /\ conn[c].state \in {"upgraded", "open"}
    /\ \/ peer[c] = "alive" /\ peer' = [peer EXCEPT ![c] = "stuck"]
       \/ peer[c] # "gone" /\ peer' = [peer EXCEPT ![c] = "gone"]
    /\ UNCHANGED <<tickets, conn, hub, pinger, lock, channel, published, sub, wire, due>>

\* Mutant: no read deadline is set.
ReadErrorWithoutDeadline(c) ==
    /\ conn[c].state = "open"
    /\ peer[c] = "gone"
    /\ SetState(c, "ended")
    /\ UNCHANGED <<tickets, peer, hub, pinger, lock, channel, published, sub, wire, due>>

\* ReadMessage fails: the peer has closed, or it has let the deadline pass.
ReadError(c) ==
    /\ conn[c].state = "open"
    /\ peer[c] \in {"stuck", "gone"}
    /\ SetState(c, "ended")
    /\ UNCHANGED <<tickets, peer, hub, pinger, lock, channel, published, sub, wire, due>>

\* Mutant: the list is truncated where it should be spliced.
RemoveTruncating(c) ==
    /\ conn[c].state = "ended"
    /\ SetState(c, "removed")
    /\ hub' = [hub EXCEPT ![conn[c].user] = Front(@)]
    /\ UNCHANGED <<tickets, peer, pinger, lock, channel, published, sub, wire, due>>

\* The deferred Hub.Remove: the first entry of the connection is spliced out.
HubRemove(c) ==
    /\ conn[c].state = "ended"
    /\ SetState(c, "removed")
    /\ hub' = [hub EXCEPT ![conn[c].user] = RemoveFirst(@, c)]
    /\ UNCHANGED <<tickets, peer, pinger, lock, channel, published, sub, wire, due>>

\* The deferred conn.Close: from here on writes fail, blocked ones too.
Close(c) ==
    /\ conn[c].state = "removed"
    /\ SetState(c, "closed")
    /\ UNCHANGED <<tickets, peer, hub, pinger, lock, channel, published, sub, wire, due>>

-----------------------------------------------------------------------------
(* Writing to a connection                                                 *)

\* Mutant: closing a connection does not release a write that is blocked.
WriteFailsOnPeerOnly(c) == peer[c] = "gone"

\* A write fails on a closed connection and blocks on a peer that is stuck.
WriteFails(c) == conn[c].state = "closed" \/ peer[c] = "gone"
WriteReturns(c) == WriteFails(c) \/ peer[c] = "alive"

\* The ticker fires and WriteMessage takes the lock.
PingLock(c) ==
    /\ pinger[c] = "waiting"
    /\ lock[c] = "free"
    /\ lock' = [lock EXCEPT ![c] = "pinger"]
    /\ pinger' = [pinger EXCEPT ![c] = "writing"]
    /\ UNCHANGED <<tickets, conn, peer, hub, channel, published, sub, wire, due>>

\* The ping is written, or the goroutine returns with the error.
PingWrite(c) ==
    /\ pinger[c] = "writing"
    /\ WriteReturns(c)
    /\ lock' = [lock EXCEPT ![c] = "free"]
    /\ pinger' = [pinger EXCEPT ![c] = IF WriteFails(c) THEN "stopped" ELSE "waiting"]
    /\ UNCHANGED <<tickets, conn, peer, hub, channel, published, sub, wire, due>>

\* The deferred close(done), which runs first, stops the goroutine.
PingStop(c) ==
    /\ pinger[c] = "waiting"
    /\ conn[c].state \in {"ended", "removed", "closed"}
    /\ pinger' = [pinger EXCEPT ![c] = "stopped"]
    /\ UNCHANGED <<tickets, conn, peer, hub, lock, channel, published, sub, wire, due>>

-----------------------------------------------------------------------------
(* Redis Pub/Sub and the subscriber                                        *)

\* Some SendMessage publishes a payload for u.
Publish(u) ==
    /\ published < MaxPublished
    /\ published' = published + 1
    /\ channel' = Append(channel, [to |-> u, n |-> published + 1])
    /\ UNCHANGED <<tickets, connection, lock, sub, wire, due>>

\* The subscription is interrupted: Pub/Sub keeps nothing for later.
LosePayloads ==
    /\ channel # <<>>
    /\ channel' = <<>>
    /\ UNCHANGED <<tickets, connection, lock, published, sub, wire, due>>

\* A payload arrives; Hub.Get answers with a copy of the recipient's list.
SubTake ==
    /\ sub.state = "idle" /\ channel # <<>>
    /\ LET p == Head(channel) IN
         /\ sub' = [state |-> "push", payload |-> p, targets |-> hub[p.to]]
         /\ due' = [payload |-> p, conns |-> ToSet(hub[p.to])]
    /\ channel' = Tail(channel)
    /\ UNCHANGED <<tickets, connection, lock, published, wire>>

\* Mutant: the subscriber writes without waiting for the lock.
SubLockAtOnce ==
    /\ sub.state = "push" /\ sub.targets # <<>>
    /\ lock' = [lock EXCEPT ![Head(sub.targets)] = "subscriber"]
    /\ sub' = [sub EXCEPT !.state = "write"]
    /\ UNCHANGED <<tickets, connection, channel, published, wire, due>>

\* The subscriber's WriteMessage takes the lock of the next target.
SubLock ==
    /\ sub.state = "push" /\ sub.targets # <<>>
    /\ LET c == Head(sub.targets) IN
         lock[c] = "free" /\ lock' = [lock EXCEPT ![c] = "subscriber"]
    /\ sub' = [sub EXCEPT !.state = "write"]
    /\ UNCHANGED <<tickets, connection, channel, published, wire, due>>

\* Mutant: Hub.Get hands out its own list, which Hub.Remove shifts under the
\* subscriber that walks it.
SubWriteAliased ==
    /\ sub.state = "write"
    /\ LET c == Head(sub.targets)
           live == hub[sub.payload.to] IN
         /\ WriteReturns(c)
         /\ wire' = IF WriteFails(c) THEN wire
                    ELSE [wire EXCEPT ![c] = Append(@, sub.payload)]
         /\ lock' = [lock EXCEPT ![c] = "free"]
         /\ sub' = [sub EXCEPT !.state = "push", !.targets =
                      SubSeq(live, Cardinality(due.conns) - Len(@) + 2, Len(live))]
    /\ UNCHANGED <<tickets, connection, channel, published, due>>

\* WriteMessage to the next target; an error is logged and the loop goes on.
SubWrite ==
    /\ sub.state = "write"
    /\ LET c == Head(sub.targets) IN
         /\ WriteReturns(c)
         /\ wire' = IF WriteFails(c) THEN wire
                    ELSE [wire EXCEPT ![c] = Append(@, sub.payload)]
         /\ lock' = [lock EXCEPT ![c] = "free"]
    /\ sub' = [sub EXCEPT !.state = "push", !.targets = Tail(@)]
    /\ UNCHANGED <<tickets, connection, channel, published, due>>

SubDone ==
    /\ sub.state = "push" /\ sub.targets = <<>>
    /\ sub' = [sub EXCEPT !.state = "idle"]
    /\ UNCHANGED <<tickets, connection, lock, channel, published, wire, due>>

Subscriber == SubTake \/ SubLock \/ SubWrite \/ SubDone

Next ==
    \/ \E t \in Tickets :
         \/ \E u \in Users : IssueTicket(t, u)
         \/ ExpireTicket(t)
         \/ \E c \in Conns : Connect(c, t)
    \/ \E c \in Conns :
         \/ Upgrade(c) \/ Register(c)
         \/ PeerFails(c) \/ ReadError(c)
         \/ HubRemove(c) \/ Close(c)
         \/ PingLock(c) \/ PingWrite(c) \/ PingStop(c)
    \/ \E u \in Users : Publish(u)
    \/ LosePayloads
    \/ Subscriber

Spec == Init /\ [][Next]_vars

\* Each goroutine runs on.  SafeConn.mu is handed over fairly (a Go mutex puts
\* a waiter first once it has waited for a millisecond), so a goroutine that
\* wants it again and again gets it.  The read deadline is a timer: it fires.
Fairness ==
    /\ WF_vars(SubTake) /\ SF_vars(SubLock) /\ WF_vars(SubWrite) /\ WF_vars(SubDone)
    /\ \A c \in Conns :
         /\ WF_vars(Upgrade(c)) /\ WF_vars(Register(c))
         /\ WF_vars(ReadError(c)) /\ WF_vars(HubRemove(c)) /\ WF_vars(Close(c))
         /\ WF_vars(PingLock(c)) /\ WF_vars(PingWrite(c)) /\ WF_vars(PingStop(c))

FairSpec == Spec /\ Fairness

-----------------------------------------------------------------------------
(* Properties                                                              *)

\* The types of the state.
TypeOK ==
    /\ tickets \in [Tickets -> Users \union {"fresh", "gone"}]
    /\ conn \in [Conns -> [state : States, user : Users \union {NoUser},
                           ticket : Tickets \union {NoTicket}]]
    /\ peer \in [Conns -> {"alive", "stuck", "gone"}]
    /\ hub \in [Users -> Seq(Conns)]
    /\ lock \in [Conns -> {"free", "pinger", "subscriber"}]
    /\ pinger \in [Conns -> {"none", "waiting", "writing", "stopped"}]
    /\ channel \in Seq(Payload) /\ published \in 0..MaxPublished
    /\ sub \in [state : {"idle", "push", "write"},
                payload : Payload \union {NoPayload}, targets : Seq(Conns)]
    /\ due \in [payload : Payload \union {NoPayload}, conns : SUBSET Conns]
    /\ wire \in [Conns -> Seq(Payload)]

\* The hub lists a connection exactly while its handler is between Hub.Add and
\* Hub.Remove, once, under the user of its ticket: no leak, and no connection
\* unregistered by the end of another tab's.
HubListsOpenConnections ==
    \A u \in Users :
        /\ ToSet(hub[u]) =
              {c \in Conns : conn[c].user = u /\ conn[c].state \in {"open", "ended"}}
        /\ IsInjective(hub[u])

\* A browser receives what is published for its user in that order and at most
\* once, whatever connections come and go during a push.
InOrderAndOnce ==
    \A c \in Conns : \A i, j \in DOMAIN wire[c] : i < j => wire[c][i].n < wire[c][j].n

\* A connection that was registered when a payload came in and is still open
\* when the push is over has received it, also if others have been removed
\* from the list during the push.
NobodyIsSkipped ==
    sub.state = "idle" =>
        \A c \in due.conns : conn[c].state = "open" /\ peer[c] = "alive"
                            => due.payload \in ToSet(wire[c])

\* gorilla/websocket allows one writer at a time: no ping is being written to a
\* connection while a payload is, whoever waits for the lock, gets an error or is
\* cut off by the end of the connection.
OneWriterAtATime ==
    \A c \in Conns :
        ~(pinger[c] = "writing" /\ sub.state = "write" /\ Head(sub.targets) = c)

\* The one subscriber serves all users: a peer that stops reading holds it up
\* only until its read deadline, which frees the blocked write.
SubscriberReturns == []<>(sub.state = "idle")

\* The handler, the hub entry and the ping goroutine of a connection whose peer
\* is lost all go away, whatever lock they wait for.
LostPeerIsCleanedUp ==
    \A c \in Conns : peer[c] # "alive" ~>
        conn[c].state = "closed" /\ pinger[c] \in {"none", "stopped"} /\ lock[c] = "free"
=============================================================================
