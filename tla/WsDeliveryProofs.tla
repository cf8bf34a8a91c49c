-------------------------- MODULE WsDeliveryProofs --------------------------
(***************************************************************************)
(* Proofs about WsDelivery, for any number of users, connections, tickets  *)
(* and payloads.                                                           *)
(*                                                                         *)
(* The order in which a browser receives payloads rests on the whole path: *)
(* the channel is in order, the payload being pushed is older than what is *)
(* on its way, and who is still a target has not received it, which is     *)
(* true only since the hub lists nobody twice (Numbered).  That a push     *)
(* skips nobody is the sum of its steps (Served).                          *)
(***************************************************************************)
EXTENDS WsDelivery, SequenceTheorems, TLAPS

USE MaxPublishedAssumption

-----------------------------------------------------------------------------
(* Lists of connections and of payloads                                    *)

\* A list is as long as its domain says, and its elements are what ToSet collects.
LEMMA Lists == ASSUME NEW S, NEW s \in Seq(S)
  PROVE  /\ Len(s) \in Nat /\ DOMAIN s = 1..Len(s)
         /\ \A i \in DOMAIN s : s[i] \in S /\ s[i] \in ToSet(s)
         /\ \A x \in ToSet(s) : \E i \in DOMAIN s : s[i] = x
         /\ ToSet(s) \subseteq S
  BY LenProperties, ElementOfSeq DEF ToSet

LEMMA EmptyList == ToSet(<<>>) = {} /\ IsInjective(<<>>)
  BY DEF ToSet, IsInjective

LEMMA AppendList == ASSUME NEW S, NEW s \in Seq(S), NEW x \in S
  PROVE  /\ Append(s, x) \in Seq(S) /\ ToSet(Append(s, x)) = ToSet(s) \union {x}
         /\ IsInjective(s) /\ x \notin ToSet(s) => IsInjective(Append(s, x))
  <1>1. /\ Append(s, x) \in Seq(S) /\ Len(s) \in Nat
        /\ DOMAIN s = 1..Len(s) /\ DOMAIN Append(s, x) = 1..(Len(s) + 1)
        /\ \A i \in 1..Len(s) : Append(s, x)[i] = s[i]
        /\ Append(s, x)[Len(s) + 1] = x
    BY AppendProperties, LenProperties
  <1>2. ToSet(Append(s, x)) = ToSet(s) \union {x}
    <2>1. \A i \in 1..(Len(s) + 1) : i \in 1..Len(s) \/ i = Len(s) + 1
      BY <1>1
    <2>2. \A i \in 1..Len(s) : i \in 1..(Len(s) + 1)
      BY <1>1
    <2>3. Len(s) + 1 \in 1..(Len(s) + 1)
      BY <1>1
    <2> QED BY <1>1, <2>1, <2>2, <2>3 DEF ToSet
  <1>3. ASSUME IsInjective(s), x \notin ToSet(s) PROVE IsInjective(Append(s, x))
    <2>1. \A i \in 1..(Len(s) + 1) : i \in 1..Len(s) \/ i = Len(s) + 1
      BY <1>1
    <2>2. \A i \in 1..Len(s) : s[i] # x
      BY <1>1, <1>3 DEF ToSet
    <2> QED BY <1>1, <1>3, <2>1, <2>2 DEF IsInjective
  <1> QED BY <1>1, <1>2, <1>3

LEMMA TailList == ASSUME NEW S, NEW s \in Seq(S), s # <<>>
  PROVE  /\ Head(s) \in S /\ Tail(s) \in Seq(S)
         /\ Len(s) \in Nat \ {0} /\ Head(s) = s[1] /\ Len(Tail(s)) = Len(s) - 1
         /\ \A i \in 1..Len(Tail(s)) : Tail(s)[i] = s[i + 1]
         /\ ToSet(s) = {Head(s)} \union ToSet(Tail(s))
         /\ IsInjective(s) => IsInjective(Tail(s)) /\ Head(s) \notin ToSet(Tail(s))
  <1>1. /\ Head(s) \in S /\ Tail(s) \in Seq(S) /\ Len(s) \in Nat \ {0}
        /\ Head(s) = s[1] /\ DOMAIN s = 1..Len(s)
        /\ Len(Tail(s)) = Len(s) - 1 /\ DOMAIN Tail(s) = 1..(Len(s) - 1)
        /\ \A i \in 1..(Len(s) - 1) : Tail(s)[i] = s[i + 1]
    BY HeadTailProperties, LenProperties, EmptySeq
  <1>2. /\ \A i \in 1..(Len(s) - 1) : i + 1 \in 1..Len(s) /\ i + 1 # 1
        /\ \A i \in 1..Len(s) : i = 1 \/ \E j \in 1..(Len(s) - 1) : i = j + 1
        /\ 1 \in 1..Len(s)
    <2>1. \A i \in 1..Len(s) : i = 1 \/ (i - 1 \in 1..(Len(s) - 1) /\ i = (i - 1) + 1)
      BY <1>1
    <2> QED BY <1>1, <2>1
  <1>3. ToSet(s) = {Head(s)} \union ToSet(Tail(s))
    <2>1. ASSUME NEW i \in 1..Len(s) PROVE s[i] = Head(s) \/ s[i] \in ToSet(Tail(s))
      <3>1. CASE i = 1
        BY <1>1, <3>1
      <3>2. ASSUME NEW j \in 1..(Len(s) - 1), i = j + 1 PROVE s[i] \in ToSet(Tail(s))
        BY <1>1, <3>2 DEF ToSet
      <3> QED BY <1>2, <2>1, <3>1, <3>2
    <2>2. Head(s) \in ToSet(s)
      BY <1>1, <1>2 DEF ToSet
    <2>3. \A j \in 1..(Len(s) - 1) : Tail(s)[j] \in ToSet(s)
      BY <1>1, <1>2 DEF ToSet
    <2> QED BY <1>1, <2>1, <2>2, <2>3 DEF ToSet
  <1>4. ASSUME IsInjective(s) PROVE IsInjective(Tail(s)) /\ Head(s) \notin ToSet(Tail(s))
    <2>1. \A i, j \in 1..(Len(s) - 1) : i + 1 = j + 1 => i = j
      BY <1>1
    <2>2. IsInjective(Tail(s))
      BY <1>1, <1>2, <1>4, <2>1 DEF IsInjective
    <2>3. Head(s) \notin ToSet(Tail(s))
      BY <1>1, <1>2, <1>4 DEF IsInjective, ToSet
    <2> QED BY <2>2, <2>3
  <1> QED BY <1>1, <1>3, <1>4

\* Splicing an entry out of a list without duplicates takes out just this one.
LEMMA RemoveFromList == ASSUME NEW S, NEW s \in Seq(S), NEW x \in ToSet(s), IsInjective(s)
  PROVE  /\ RemoveFirst(s, x) \in Seq(S) /\ IsInjective(RemoveFirst(s, x))
         /\ ToSet(RemoveFirst(s, x)) = ToSet(s) \ {x}
  <1>1. PICK k \in 1..Len(s) : s[k] = x
    BY Lists
  <1>2. Len(s) \in Nat /\ DOMAIN s = 1..Len(s) /\ k \in Nat \ {0} /\ k <= Len(s)
        /\ \A i \in 1..Len(s) : s[i] \in S
    BY <1>1, Lists
  <1>3. \A i \in 1..Len(s) : s[i] = x => i = k
    BY <1>1, <1>2 DEF IsInjective
  <1>4. SelectInSeq(s, LAMBDA v : v = x) = k
    <2>1. {i \in 1..Len(s) : s[i] = x} = {k}
      BY <1>1, <1>3
    <2>2. Min({k}) = k
      BY <1>2 DEF Min
    <2> QED BY <2>1, <2>2 DEF SelectInSeq
  <1> DEFINE before == SubSeq(s, 1, k - 1)
             after == SubSeq(s, k + 1, Len(s))
             t == RemoveFirst(s, x)
  <1>5. t = before \o after
    BY <1>1, <1>4 DEF RemoveFirst, RemoveAt
  <1>6. /\ before \in Seq(S) /\ Len(before) = k - 1
        /\ \A i \in 1..(k - 1) : before[i] = s[i]
    <2>1. \A i \in 1..(k - 1) : s[i] \in S
      BY <1>2
    <2> QED BY <1>2, <2>1, SubSeqProperties
  <1>7. /\ after \in Seq(S) /\ Len(after) = Len(s) - k
        /\ \A i \in 1..(Len(s) - k) : after[i] = s[i + k]
    <2>1. \A i \in (k + 1)..Len(s) : s[i] \in S
      BY <1>2
    <2>2. k + 1 \in Int /\ Len(s) \in Int
      BY <1>2
    <2>3. /\ SubSeq(s, k + 1, Len(s)) \in Seq(S)
          /\ Len(SubSeq(s, k + 1, Len(s))) =
               IF k + 1 <= Len(s) THEN Len(s) - (k + 1) + 1 ELSE 0
          /\ \A i \in 1..(Len(s) - (k + 1) + 1) :
               SubSeq(s, k + 1, Len(s))[i] = s[(k + 1) + i - 1]
      BY <2>1, <2>2, SubSeqProperties
    <2>4. \A n \in Nat, m \in Nat : m <= n =>
            n - (m + 1) + 1 = n - m /\ (~(m + 1 <= n) => n - m = 0)
      OBVIOUS
    <2>5. \A i \in 1..(Len(s) - k) : (k + 1) + i - 1 = i + k
      BY <1>2
    <2> QED BY <1>2, <2>3, <2>4, <2>5
  <1> HIDE DEF before, after, t
  <1>8. /\ t \in Seq(S) /\ Len(t) = Len(s) - 1 /\ DOMAIN t = 1..(Len(s) - 1)
        /\ \A i \in 1..(Len(s) - 1) : t[i] = IF i < k THEN s[i] ELSE s[i + 1]
    <2>1. /\ t \in Seq(S) /\ Len(t) = (k - 1) + (Len(s) - k)
          /\ \A i \in 1..((k - 1) + (Len(s) - k)) :
               t[i] = IF i <= k - 1 THEN before[i] ELSE after[i - (k - 1)]
      BY <1>5, <1>6, <1>7, ConcatProperties
    <2>2. Len(t) = Len(s) - 1 /\ (k - 1) + (Len(s) - k) = Len(s) - 1
      BY <1>2, <2>1
    <2>3. ASSUME NEW i \in 1..(Len(s) - 1) PROVE t[i] = IF i < k THEN s[i] ELSE s[i + 1]
      <3>1. CASE i < k
        BY <1>2, <1>6, <2>1, <2>2, <2>3, <3>1
      <3>2. CASE ~(i < k)
        <4>1. i - (k - 1) \in 1..(Len(s) - k) /\ (i - (k - 1)) + k = i + 1 /\ ~(i <= k - 1)
          BY <1>2, <2>3, <3>2
        <4> QED BY <1>7, <2>1, <2>2, <2>3, <3>2, <4>1
      <3> QED BY <3>1, <3>2
    <2> QED BY <2>1, <2>2, <2>3, LenProperties
  <1>9. IsInjective(t)
    <2>1. SUFFICES ASSUME NEW i \in 1..(Len(s) - 1), NEW j \in 1..(Len(s) - 1), t[i] = t[j]
                   PROVE  i = j
      BY <1>8 DEF IsInjective
    <2> DEFINE at(n) == IF n < k THEN n ELSE n + 1
    <2>2. /\ at(i) \in 1..Len(s) /\ at(j) \in 1..Len(s)
          /\ s[at(i)] = t[i] /\ s[at(j)] = t[j] /\ (at(i) = at(j) => i = j)
      BY <1>2, <1>8
    <2> HIDE DEF at
    <2> QED BY <1>2, <2>1, <2>2 DEF IsInjective
  <1>10. ToSet(t) = ToSet(s) \ {x}
    <2>1. ASSUME NEW i \in 1..(Len(s) - 1) PROVE t[i] \in ToSet(s) /\ t[i] # x
      <3>1. CASE i < k
        <4>1. i \in 1..Len(s) /\ i # k /\ t[i] = s[i]
          BY <1>2, <1>8, <3>1
        <4> QED BY <1>2, <1>3, <4>1 DEF ToSet
      <3>2. CASE ~(i < k)
        <4>1. i + 1 \in 1..Len(s) /\ i + 1 # k /\ t[i] = s[i + 1]
          BY <1>2, <1>8, <3>2
        <4> QED BY <1>2, <1>3, <4>1 DEF ToSet
      <3> QED BY <3>1, <3>2
    <2>2. ASSUME NEW i \in 1..Len(s), i # k PROVE s[i] \in ToSet(t)
      <3>1. CASE i < k
        <4>1. i \in 1..(Len(s) - 1) /\ t[i] = s[i]
          BY <1>2, <1>8, <3>1
        <4> QED BY <1>8, <4>1 DEF ToSet
      <3>2. CASE ~(i < k)
        <4>1. i - 1 \in 1..(Len(s) - 1) /\ t[i - 1] = s[i]
          BY <1>2, <1>8, <2>2, <3>2
        <4> QED BY <1>8, <4>1 DEF ToSet
      <3> QED BY <3>1, <3>2
    <2> QED BY <1>1, <1>2, <1>8, <2>1, <2>2 DEF ToSet
  <1> QED BY <1>8, <1>9, <1>10 DEF t

-----------------------------------------------------------------------------
(* The invariant                                                           *)

\* The subscriber has targets left exactly as far as its progress says.
Pushing ==
    /\ sub.state = "idle" => sub.targets = <<>>
    /\ sub.state = "write" => sub.targets # <<>>
    /\ sub.state # "idle" => sub.payload \in Payload

\* Payloads are numbered upwards: those received, the one being pushed, those
\* on their way.  Who is still a target has not received the one being pushed.
Numbered ==
    /\ \A i, j \in DOMAIN channel : i < j => channel[i].n < channel[j].n
    /\ \A i \in DOMAIN channel :
         sub.payload.n < channel[i].n /\ channel[i].n <= published
    /\ sub.payload.n <= published
    /\ IsInjective(sub.targets)
    /\ \A c \in Conns : \A i \in DOMAIN wire[c] :
         /\ wire[c][i].n <= sub.payload.n
         /\ c \in ToSet(sub.targets) => wire[c][i].n < sub.payload.n

\* Who was registered when the payload came in is still a target, or has it, or is
\* beyond reach.
Served ==
    /\ due.payload = sub.payload
    /\ \A c \in due.conns :
         c \in ToSet(sub.targets) \/ sub.payload \in ToSet(wire[c]) \/ WriteFails(c)

\* A lock is held by who is writing.
Locks == \A c \in Conns :
    /\ lock[c] = "pinger" <=> pinger[c] = "writing"
    /\ lock[c] = "subscriber" <=> sub.state = "write" /\ Head(sub.targets) = c
    /\ conn[c].state \in {"new", "refused", "verified", "upgraded"} => pinger[c] = "none"

IInv ==
    /\ TypeOK /\ HubListsOpenConnections /\ Pushing /\ Numbered /\ InOrderAndOnce
    /\ Served /\ Locks

-----------------------------------------------------------------------------
(* Types                                                                   *)

ConnSet == [state : States, user : Users \union {NoUser}, ticket : Tickets \union {NoTicket}]
SubSet == [state : {"idle", "push", "write"},
           payload : Payload \union {NoPayload}, targets : Seq(Conns)]

LEMMA TypesInit == Init => TypeOK
  <1> SUFFICES ASSUME Init PROVE TypeOK
    OBVIOUS
  <1>1. \A S : <<>> \in Seq(S)
    BY EmptySeq
  <1>2. 0 \in 0..MaxPublished
    OBVIOUS
  <1> QED BY <1>1, <1>2 DEF Init, TypeOK, States, NoPayload

\* A step of Connect's run that only changes its state.
LEMMA StateTypes == ASSUME TypeOK, NEW c \in Conns, NEW state \in States, SetState(c, state)
  PROVE  /\ conn' \in [Conns -> ConnSet]
         /\ conn'[c].state = state /\ conn'[c].user = conn[c].user
         /\ conn'[c].ticket = conn[c].ticket
         /\ \A d \in Conns \ {c} : conn'[d] = conn[d]
  <1>1. conn \in [Conns -> ConnSet] /\ conn' = [conn EXCEPT ![c].state = state]
    BY DEF TypeOK, SetState, ConnSet
  <1>2. conn' \in [Conns -> ConnSet]
    BY <1>1 DEF ConnSet
  <1> QED BY <1>1, <1>2 DEF ConnSet

LEMMA TypesStep == ASSUME IInv, [Next]_vars PROVE TypeOK'
  <1>0. TypeOK /\ HubListsOpenConnections /\ Pushing
    BY DEF IInv
  <1> USE <1>0 DEF TypeOK
  <1>1. CASE UNCHANGED vars
    BY <1>1 DEF vars, connection
  <1>2. ASSUME NEW t \in Tickets, NEW u \in Users, IssueTicket(t, u) PROVE TypeOK'
    BY <1>2 DEF IssueTicket, connection
  <1>3. ASSUME NEW t \in Tickets, ExpireTicket(t) PROVE TypeOK'
    BY <1>3 DEF ExpireTicket, connection
  <1>4. ASSUME NEW t \in Tickets, NEW c \in Conns, Connect(c, t) PROVE TypeOK'
    <2>1. CASE tickets[t] \in Users
      <3>1. [state |-> "verified", user |-> tickets[t], ticket |-> t] \in ConnSet
        BY <2>1 DEF ConnSet, States
      <3>2. conn' \in [Conns -> ConnSet]
        BY <1>4, <2>1, <3>1 DEF Connect, Verified, ConnSet
      <3> QED BY <1>4, <2>1, <3>2 DEF Connect, ConnSet
    <2>2. CASE tickets[t] \notin Users
      <3>1. conn' \in [Conns -> ConnSet]
        BY <1>4, <2>2, StateTypes DEF Connect, States
      <3> QED BY <1>4, <2>2, <3>1 DEF Connect, ConnSet
    <2> QED BY <2>1, <2>2
  <1>5. ASSUME NEW c \in Conns, Upgrade(c) PROVE TypeOK'
    <2>1. conn' \in [Conns -> ConnSet]
      BY <1>5, StateTypes DEF Upgrade, States
    <2> QED BY <1>5, <2>1 DEF Upgrade, ConnSet
  <1>6. ASSUME NEW c \in Conns, Register(c) PROVE TypeOK'
    <2>1. conn' \in [Conns -> ConnSet] /\ pinger' \in [Conns -> {"none", "waiting", "writing", "stopped"}]
      BY <1>6, StateTypes DEF Register, States
    <2>2. \A u \in Users : Append(hub[u], c) \in Seq(Conns)
      BY AppendProperties
    <2>3. hub' \in [Users -> Seq(Conns)]
      BY <1>6, <2>2 DEF Register
    <2> QED BY <1>6, <2>1, <2>3 DEF Register, ConnSet
  <1>7. ASSUME NEW c \in Conns, PeerFails(c) PROVE TypeOK'
    BY <1>7 DEF PeerFails
  <1>8. ASSUME NEW c \in Conns, ReadError(c) PROVE TypeOK'
    <2>1. conn' \in [Conns -> ConnSet]
      BY <1>8, StateTypes DEF ReadError, States
    <2> QED BY <1>8, <2>1 DEF ReadError, ConnSet
  <1>9. ASSUME NEW c \in Conns, HubRemove(c) PROVE TypeOK'
    <2>1. conn' \in [Conns -> ConnSet]
      BY <1>9, StateTypes DEF HubRemove, States
    <2>2. CASE conn[c].user \in Users
      <3>1. RemoveFirst(hub[conn[c].user], c) \in Seq(Conns)
        BY <1>9, <2>2, RemoveFromList DEF HubRemove, HubListsOpenConnections
      <3>2. hub' \in [Users -> Seq(Conns)]
        BY <1>9, <3>1 DEF HubRemove
      <3> QED BY <1>9, <2>1, <3>2 DEF HubRemove, ConnSet
    <2>3. CASE conn[c].user \notin Users
      <3>1. hub' = hub
        BY <1>9, <2>3 DEF HubRemove
      <3> QED BY <1>9, <2>1, <3>1 DEF HubRemove, ConnSet
    <2> QED BY <2>2, <2>3
  <1>10. ASSUME NEW c \in Conns, Close(c) PROVE TypeOK'
    <2>1. conn' \in [Conns -> ConnSet]
      BY <1>10, StateTypes DEF Close, States
    <2> QED BY <1>10, <2>1 DEF Close, ConnSet
  <1>11. ASSUME NEW c \in Conns, PingLock(c) \/ PingWrite(c) \/ PingStop(c) PROVE TypeOK'
    BY <1>11 DEF PingLock, PingWrite, PingStop
  <1>12. ASSUME NEW u \in Users, Publish(u) PROVE TypeOK'
    <2>1. published' \in 0..MaxPublished /\ published + 1 \in 1..MaxPublished
      BY <1>12 DEF Publish
    <2>2. [to |-> u, n |-> published + 1] \in Payload
      BY <2>1 DEF Payload
    <2>3. channel' \in Seq(Payload)
      BY <1>12, <2>2, AppendProperties DEF Publish
    <2> QED BY <1>12, <2>1, <2>3 DEF Publish, connection
  <1>13. CASE LosePayloads
    BY <1>13, EmptySeq DEF LosePayloads, connection
  <1>14. CASE SubTake
    <2>1. Head(channel) \in Payload /\ Tail(channel) \in Seq(Payload)
      BY <1>14, HeadTailProperties DEF SubTake
    <2>2. hub[Head(channel).to] \in Seq(Conns)
      BY <2>1 DEF Payload
    <2>3. ToSet(hub[Head(channel).to]) \subseteq Conns
      BY <2>2, Lists
    <2> QED BY <1>14, <2>1, <2>2, <2>3 DEF SubTake, connection
  <1>15. CASE SubLock
    BY <1>15 DEF SubLock, connection
  <1>16. CASE SubWrite
    <2>1. /\ Head(sub.targets) \in Conns /\ Tail(sub.targets) \in Seq(Conns)
          /\ sub.payload \in Payload
      BY <1>16, HeadTailProperties DEF SubWrite, Pushing
    <2>2. wire' \in [Conns -> Seq(Payload)]
      <3>1. CASE WriteFails(Head(sub.targets))
        BY <1>16, <3>1 DEF SubWrite
      <3>2. CASE ~WriteFails(Head(sub.targets))
        <4>1. Append(wire[Head(sub.targets)], sub.payload) \in Seq(Payload)
          BY <2>1, AppendProperties
        <4> QED BY <1>16, <2>1, <3>2, <4>1 DEF SubWrite
      <3> QED BY <3>1, <3>2
    <2>3. /\ sub'.state = "push" /\ sub'.targets \in Seq(Conns) /\ sub'.payload = sub.payload
      BY <1>16, <2>1 DEF SubWrite
    <2> QED BY <1>16, <2>1, <2>2, <2>3 DEF SubWrite, connection
  <1>17. CASE SubDone
    BY <1>17 DEF SubDone, connection
  <1> HIDE <1>0 DEF TypeOK
  <1> QED BY <1>1, <1>2, <1>3, <1>4, <1>5, <1>6, <1>7, <1>8, <1>9, <1>10, <1>11, <1>12,
             <1>13, <1>14, <1>15, <1>16, <1>17 DEF Next, Subscriber

-----------------------------------------------------------------------------
(* The hub                                                                 *)

\* Steps in which every handler stays on its side of Hub.Add and Hub.Remove.
LEMMA SameSide ==
    ASSUME IInv, hub' = hub,
           \A c \in Conns :
             /\ conn'[c].state \in {"open", "ended"} <=> conn[c].state \in {"open", "ended"}
             /\ conn[c].state \in {"open", "ended"} => conn'[c].user = conn[c].user
    PROVE  HubListsOpenConnections'
  BY DEF IInv, HubListsOpenConnections

LEMMA HubStep == ASSUME IInv, [Next]_vars PROVE HubListsOpenConnections'
  <1>1. TypeOK /\ HubListsOpenConnections /\ \A u \in Users : hub[u] \in Seq(Conns)
    BY DEF IInv, TypeOK
  <1>2. ASSUME UNCHANGED <<conn, hub>> PROVE HubListsOpenConnections'
    BY <1>1, <1>2 DEF HubListsOpenConnections
  <1>3. ASSUME NEW t \in Tickets, NEW c \in Conns, Connect(c, t) PROVE HubListsOpenConnections'
    <2>1. CASE tickets[t] \in Users
      <3>1. /\ conn'[c].state = "verified" /\ conn[c].state = "new" /\ hub' = hub
            /\ \A d \in Conns \ {c} : conn'[d] = conn[d]
        BY <1>1, <1>3, <2>1 DEF Connect, Verified, TypeOK
      <3> QED BY <1>1, <3>1, SameSide
    <2>2. CASE tickets[t] \notin Users
      BY <1>1, <1>3, <2>2, SameSide, StateTypes DEF Connect, States
    <2> QED BY <2>1, <2>2
  <1>4. ASSUME NEW c \in Conns, Upgrade(c) PROVE HubListsOpenConnections'
    BY <1>1, <1>4, SameSide, StateTypes DEF Upgrade, States
  <1>5. ASSUME NEW c \in Conns, ReadError(c) PROVE HubListsOpenConnections'
    BY <1>1, <1>5, SameSide, StateTypes DEF ReadError, States
  <1>6. ASSUME NEW c \in Conns, Close(c) PROVE HubListsOpenConnections'
    BY <1>1, <1>6, SameSide, StateTypes DEF Close, States
  <1>7. ASSUME NEW c \in Conns, Register(c) PROVE HubListsOpenConnections'
    <2>1. /\ conn'[c].state \in {"open", "ended"} /\ conn'[c].user = conn[c].user
          /\ \A d \in Conns \ {c} : conn'[d] = conn[d]
          /\ conn[c].state = "upgraded"
      BY <1>1, <1>7, StateTypes DEF Register, States
    <2>2. ASSUME NEW u \in Users, u = conn[c].user
          PROVE  /\ ToSet(hub'[u]) = ToSet(hub[u]) \union {c} /\ IsInjective(hub'[u])
      <3>1. c \notin ToSet(hub[u]) /\ IsInjective(hub[u])
        BY <1>1, <2>1 DEF HubListsOpenConnections
      <3>2. hub'[u] = Append(hub[u], c)
        BY <1>1, <1>7, <2>2 DEF Register, TypeOK
      <3> QED BY <1>1, <3>1, <3>2, AppendList
    <2>3. \A u \in Users : u # conn[c].user => hub'[u] = hub[u]
      BY <1>1, <1>7 DEF Register, TypeOK
    <2> QED BY <1>1, <2>1, <2>2, <2>3 DEF HubListsOpenConnections
  <1>8. ASSUME NEW c \in Conns, HubRemove(c) PROVE HubListsOpenConnections'
    <2>1. /\ conn'[c].state = "removed" /\ conn'[c].user = conn[c].user
          /\ \A d \in Conns \ {c} : conn'[d] = conn[d]
          /\ conn[c].state = "ended"
      BY <1>1, <1>8, StateTypes DEF HubRemove, States
    <2>2. ASSUME NEW u \in Users, u = conn[c].user
          PROVE  /\ ToSet(hub'[u]) = ToSet(hub[u]) \ {c} /\ IsInjective(hub'[u])
      <3>1. c \in ToSet(hub[u]) /\ IsInjective(hub[u])
        BY <1>1, <2>1, <2>2 DEF HubListsOpenConnections
      <3>2. hub'[u] = RemoveFirst(hub[u], c)
        BY <1>1, <1>8, <2>2 DEF HubRemove, TypeOK
      <3> QED BY <1>1, <3>1, <3>2, RemoveFromList
    <2>3. \A u \in Users : u # conn[c].user => hub'[u] = hub[u]
      BY <1>1, <1>8 DEF HubRemove, TypeOK
    <2> QED BY <1>1, <2>1, <2>2, <2>3 DEF HubListsOpenConnections
  <1> QED BY <1>2, <1>3, <1>4, <1>5, <1>6, <1>7, <1>8
          DEF Next, vars, connection, IssueTicket, ExpireTicket, PeerFails, PingLock, PingWrite,
              PingStop, Publish, LosePayloads, Subscriber, SubTake, SubLock, SubWrite, SubDone

-----------------------------------------------------------------------------
(* The subscriber                                                          *)

LEMMA PushingStep == ASSUME IInv, [Next]_vars PROVE Pushing'
  <1>1. TypeOK /\ Pushing
    BY DEF IInv
  <1>2. ASSUME sub' = sub PROVE Pushing'
    BY <1>1, <1>2 DEF Pushing
  <1>3. CASE SubTake
    BY <1>1, <1>3, HeadTailProperties DEF SubTake, Pushing, TypeOK
  <1>4. CASE SubLock \/ SubWrite \/ SubDone
    BY <1>1, <1>4 DEF SubLock, SubWrite, SubDone, Pushing, TypeOK
  <1> QED BY <1>2, <1>3, <1>4
          DEF Next, vars, connection, IssueTicket, ExpireTicket, Connect, Upgrade, Register,
              PeerFails, ReadError, HubRemove, Close, PingLock, PingWrite, PingStop, Publish,
              LosePayloads, Subscriber

\* What the subscriber leaves when it has written to its next target.
LEMMA Written ==
    ASSUME IInv, SubWrite, NEW c \in Conns, c = Head(sub.targets)
    PROVE  /\ sub'.state = "push" /\ sub'.payload = sub.payload /\ sub'.targets = Tail(sub.targets)
           /\ sub.payload \in Payload /\ c \in ToSet(sub.targets)
           /\ ToSet(sub.targets) = {c} \union ToSet(sub'.targets)
           /\ IsInjective(sub'.targets) /\ c \notin ToSet(sub'.targets)
           /\ \A d \in Conns \ {c} : wire'[d] = wire[d]
           /\ WriteFails(c) => wire'[c] = wire[c]
           /\ ~WriteFails(c) => wire'[c] = Append(wire[c], sub.payload)
           /\ UNCHANGED <<tickets, connection, channel, published, due>>
  <1>1. /\ sub.targets \in Seq(Conns) /\ sub.targets # <<>> /\ IsInjective(sub.targets)
        /\ sub.payload \in Payload /\ wire \in [Conns -> Seq(Payload)]
    BY DEF IInv, TypeOK, Pushing, Numbered, SubWrite
  <1>2. /\ sub'.state = "push" /\ sub'.payload = sub.payload /\ sub'.targets = Tail(sub.targets)
        /\ UNCHANGED <<tickets, connection, channel, published, due>>
    BY DEF SubWrite, IInv, TypeOK
  <1>3. /\ \A d \in Conns \ {c} : wire'[d] = wire[d]
        /\ WriteFails(c) => wire'[c] = wire[c]
        /\ ~WriteFails(c) => wire'[c] = Append(wire[c], sub.payload)
    BY <1>1 DEF SubWrite
  <1> QED BY <1>1, <1>2, <1>3, TailList

LEMMA NumberedStep == ASSUME IInv, [Next]_vars PROVE Numbered'
  <1>1. /\ TypeOK /\ Numbered /\ published \in Nat /\ channel \in Seq(Payload)
        /\ sub.payload.n \in Nat
        /\ \A p \in Payload : p.n \in Nat
        /\ \A c \in Conns : wire[c] \in Seq(Payload)
    <2>1. /\ TypeOK /\ Numbered /\ published \in Nat /\ channel \in Seq(Payload)
          /\ \A c \in Conns : wire[c] \in Seq(Payload)
      BY DEF IInv, TypeOK
    <2>2. /\ \A p \in Payload : p.n \in Nat
          /\ NoPayload.n \in Nat
      BY DEF Payload, NoPayload
    <2>3. sub.payload \in Payload \union {NoPayload}
      BY <2>1 DEF TypeOK
    <2> QED BY <2>1, <2>2, <2>3
  <1>2. ASSUME channel' = channel, published' = published, sub'.targets = sub.targets,
               sub'.payload = sub.payload, wire' = wire
        PROVE  Numbered'
    BY <1>1, <1>2 DEF Numbered
  <1>3. ASSUME NEW u \in Users, Publish(u) PROVE Numbered'
    <2> DEFINE p == [to |-> u, n |-> published + 1]
    <2>1. p \in Payload /\ p.n = published + 1 /\ p.n > published
      BY <1>1, <1>3 DEF Publish, Payload, TypeOK
    <2>2. /\ channel' = Append(channel, p) /\ published' = published + 1
          /\ UNCHANGED <<sub, wire>>
      BY <1>3 DEF Publish
    <2> HIDE DEF p
    <2>3. /\ Len(channel) \in Nat /\ DOMAIN channel = 1..Len(channel)
          /\ DOMAIN channel' = 1..(Len(channel) + 1)
          /\ \A i \in 1..Len(channel) : channel'[i] = channel[i]
          /\ channel'[Len(channel) + 1] = p
      BY <1>1, <2>1, <2>2, AppendProperties, LenProperties
    <2>4. \A i \in 1..(Len(channel) + 1) : i \in 1..Len(channel) \/ i = Len(channel) + 1
      BY <2>3
    <2>5. \A i \in 1..Len(channel) : channel[i].n \in Nat
      BY <1>1, ElementOfSeq
    <2>6. \A i, j \in DOMAIN channel' : i < j => channel'[i].n < channel'[j].n
      <3>1. SUFFICES ASSUME NEW i \in 1..(Len(channel) + 1), NEW j \in 1..(Len(channel) + 1), i < j
                     PROVE  channel'[i].n < channel'[j].n
        BY <2>3
      <3>2. i \in 1..Len(channel)
        BY <2>3, <3>1
      <3>3. CASE j \in 1..Len(channel)
        BY <1>1, <2>3, <3>1, <3>2, <3>3 DEF Numbered
      <3>4. CASE j = Len(channel) + 1
        <4>1. channel[i].n <= published /\ channel'[i] = channel[i] /\ channel'[j] = p
          BY <1>1, <2>3, <3>2, <3>4 DEF Numbered
        <4> QED BY <1>1, <2>1, <2>5, <3>2, <4>1
      <3> QED BY <2>4, <3>3, <3>4
    <2>7. \A i \in DOMAIN channel' :
            sub'.payload.n < channel'[i].n /\ channel'[i].n <= published'
      <3>1. SUFFICES ASSUME NEW i \in 1..(Len(channel) + 1)
                     PROVE  sub.payload.n < channel'[i].n /\ channel'[i].n <= published + 1
        BY <2>2, <2>3
      <3>2. CASE i \in 1..Len(channel)
        BY <1>1, <2>3, <2>5, <3>2 DEF Numbered
      <3>3. CASE i = Len(channel) + 1
        BY <1>1, <2>1, <2>3, <3>3 DEF Numbered
      <3> QED BY <2>4, <3>2, <3>3
    <2>8. sub'.payload.n <= published'
      BY <1>1, <2>2 DEF Numbered
    <2> QED BY <1>1, <2>2, <2>6, <2>7, <2>8 DEF Numbered
  <1>4. CASE LosePayloads
    <2>1. channel' = <<>> /\ UNCHANGED <<published, sub, wire>>
      BY <1>4 DEF LosePayloads
    <2> QED BY <1>1, <2>1 DEF Numbered
  <1>5. CASE SubTake
    <2>1. /\ channel # <<>> /\ sub'.payload = Head(channel) /\ channel' = Tail(channel)
          /\ sub'.targets = hub[Head(channel).to] /\ UNCHANGED <<published, wire>>
      BY <1>5 DEF SubTake
    <2>2. /\ Head(channel) \in Payload /\ Tail(channel) \in Seq(Payload)
          /\ Len(channel) \in Nat \ {0} /\ Head(channel) = channel[1]
          /\ DOMAIN channel = 1..Len(channel) /\ DOMAIN Tail(channel) = 1..(Len(channel) - 1)
          /\ \A i \in 1..(Len(channel) - 1) : Tail(channel)[i] = channel[i + 1]
      BY <1>1, <2>1, TailList, LenProperties
    <2>3. /\ \A i \in 1..(Len(channel) - 1) : i + 1 \in 1..Len(channel) /\ 1 < i + 1
          /\ \A i, j \in 1..(Len(channel) - 1) : i < j => i + 1 < j + 1
          /\ 1 \in 1..Len(channel)
      BY <2>2
    <2>4. \A i, j \in DOMAIN channel' : i < j => channel'[i].n < channel'[j].n
      BY <1>1, <2>1, <2>2, <2>3 DEF Numbered
    <2>5. \A i \in DOMAIN channel' :
            sub'.payload.n < channel'[i].n /\ channel'[i].n <= published'
      BY <1>1, <2>1, <2>2, <2>3 DEF Numbered
    <2>6. sub'.payload.n <= published' /\ sub.payload.n < sub'.payload.n
      BY <1>1, <2>1, <2>2, <2>3 DEF Numbered
    <2>7. IsInjective(sub'.targets)
      BY <2>1, <2>2 DEF IInv, HubListsOpenConnections, Payload
    <2>8. ASSUME NEW c \in Conns, NEW i \in DOMAIN wire[c]
          PROVE  wire[c][i].n < sub'.payload.n /\ wire[c][i].n <= sub'.payload.n
      <3>1. wire[c][i].n <= sub.payload.n /\ wire[c][i].n \in Nat /\ sub'.payload.n \in Nat
        BY <1>1, <2>1, <2>2, <2>8, Lists DEF Numbered
      <3> QED BY <1>1, <2>6, <3>1
    <2> QED BY <2>1, <2>4, <2>5, <2>6, <2>7, <2>8 DEF Numbered
  <1>6. CASE SubWrite
    <2>1. PICK c \in Conns : c = Head(sub.targets)
      BY <1>1, <1>6, HeadTailProperties DEF SubWrite, IInv, Pushing, TypeOK
    <2>2. ASSUME NEW d \in Conns, NEW i \in DOMAIN wire'[d]
          PROVE  /\ wire'[d][i].n <= sub.payload.n
                 /\ d \in ToSet(sub'.targets) => wire'[d][i].n < sub.payload.n
      <3>1. CASE wire'[d] = wire[d]
        BY <1>1, <1>6, <2>1, <2>2, <3>1, Written DEF Numbered
      <3>2. CASE d = c /\ wire'[c] = Append(wire[c], sub.payload)
        <4>1. i \in 1..(Len(wire[c]) + 1) /\ Len(wire[c]) \in Nat
              /\ DOMAIN wire[c] = 1..Len(wire[c])
              /\ \A j \in 1..Len(wire[c]) : wire'[c][j] = wire[c][j]
              /\ wire'[c][Len(wire[c]) + 1] = sub.payload
          BY <1>1, <1>6, <2>1, <2>2, <3>2, Written, AppendProperties, LenProperties
        <4>2. c \notin ToSet(sub'.targets)
          BY <1>6, <2>1, Written
        <4>3. CASE i \in 1..Len(wire[c])
          BY <1>1, <3>2, <4>1, <4>2, <4>3 DEF Numbered
        <4>4. CASE i = Len(wire[c]) + 1
          BY <1>1, <3>2, <4>1, <4>2, <4>4
        <4> QED BY <4>1, <4>3, <4>4
      <3> QED BY <1>6, <2>1, <3>1, <3>2, Written
    <2> QED BY <1>1, <1>6, <2>1, <2>2, Written DEF Numbered
  <1>7. CASE SubLock \/ SubDone
    BY <1>1, <1>2, <1>7 DEF SubLock, SubDone, TypeOK
  <1> QED BY <1>1, <1>2, <1>3, <1>4, <1>5, <1>6, <1>7
          DEF Next, vars, connection, IssueTicket, ExpireTicket, Connect, Upgrade, Register,
              PeerFails, ReadError, HubRemove, Close, PingLock, PingWrite, PingStop, Subscriber

LEMMA OrderStep == ASSUME IInv, [Next]_vars PROVE InOrderAndOnce'
  <1>1. TypeOK /\ InOrderAndOnce /\ \A c \in Conns : wire[c] \in Seq(Payload)
    BY DEF IInv, TypeOK
  <1>2. ASSUME wire' = wire PROVE InOrderAndOnce'
    BY <1>1, <1>2 DEF InOrderAndOnce
  <1>3. CASE SubWrite
    <2>1. PICK c \in Conns : c = Head(sub.targets)
      BY <1>1, <1>3, HeadTailProperties DEF SubWrite, IInv, Pushing, TypeOK
    <2>2. ASSUME NEW d \in Conns, NEW i \in DOMAIN wire'[d], NEW j \in DOMAIN wire'[d], i < j
          PROVE  wire'[d][i].n < wire'[d][j].n
      <3>1. CASE wire'[d] = wire[d]
        BY <1>1, <2>2, <3>1 DEF InOrderAndOnce
      <3>2. CASE d = c /\ wire'[c] = Append(wire[c], sub.payload)
        <4>1. /\ Len(wire[c]) \in Nat /\ DOMAIN wire[c] = 1..Len(wire[c])
              /\ DOMAIN wire'[c] = 1..(Len(wire[c]) + 1)
              /\ \A k \in 1..Len(wire[c]) : wire'[c][k] = wire[c][k]
              /\ wire'[c][Len(wire[c]) + 1] = sub.payload
          BY <1>1, <1>3, <2>1, <3>2, Written, AppendProperties, LenProperties
        <4>2. i \in 1..Len(wire[c]) /\ (j \in 1..Len(wire[c]) \/ j = Len(wire[c]) + 1)
          BY <2>2, <3>2, <4>1
        <4>3. c \in ToSet(sub.targets)
          BY <1>3, <2>1, Written
        <4>4. CASE j \in 1..Len(wire[c])
          BY <1>1, <2>2, <3>2, <4>1, <4>2, <4>4 DEF InOrderAndOnce
        <4>5. CASE j = Len(wire[c]) + 1
          BY <3>2, <4>1, <4>2, <4>3, <4>5 DEF IInv, Numbered
        <4> QED BY <4>2, <4>4, <4>5
      <3> QED BY <1>3, <2>1, <3>1, <3>2, Written
    <2> QED BY <2>2 DEF InOrderAndOnce
  <1> QED BY <1>2, <1>3
          DEF Next, vars, connection, IssueTicket, ExpireTicket, Connect, Upgrade, Register,
              PeerFails, ReadError, HubRemove, Close, PingLock, PingWrite, PingStop, Publish,
              LosePayloads, Subscriber, SubTake, SubLock, SubDone

\* What a write fails on, it fails on for good.
LEMMA FailsForGood == ASSUME IInv, [Next]_vars, NEW c \in Conns, WriteFails(c)
  PROVE  WriteFails(c)'
  <1>1. TypeOK
    BY DEF IInv
  <1>2. CASE UNCHANGED <<conn, peer>>
    BY <1>2 DEF WriteFails
  <1>3. ASSUME NEW d \in Conns, PeerFails(d) PROVE WriteFails(c)'
    BY <1>1, <1>3 DEF PeerFails, WriteFails, TypeOK
  <1>4. ASSUME NEW d \in Conns, NEW t \in Tickets, Connect(d, t) PROVE WriteFails(c)'
    <2>1. conn[d].state = "new" /\ \A e \in Conns \ {d} : conn'[e] = conn[e]
      BY <1>1, <1>4, StateTypes DEF Connect, Verified, TypeOK, States
    <2> QED BY <1>4, <2>1 DEF Connect, WriteFails
  <1>5. ASSUME NEW d \in Conns,
               Upgrade(d) \/ Register(d) \/ ReadError(d) \/ HubRemove(d) \/ Close(d)
        PROVE  WriteFails(c)'
    <2>1. PICK state \in States : SetState(d, state)
      BY <1>5 DEF Upgrade, Register, ReadError, HubRemove, Close, States
    <2>2. /\ \A e \in Conns \ {d} : conn'[e] = conn[e]
          /\ peer' = peer /\ conn[d].state # "closed"
      BY <1>1, <1>5, <2>1, StateTypes DEF Upgrade, Register, ReadError, HubRemove, Close
    <2> QED BY <2>2 DEF WriteFails
  <1> QED BY <1>2, <1>3, <1>4, <1>5
          DEF Next, vars, connection, IssueTicket, ExpireTicket, PingLock, PingWrite, PingStop,
              Publish, LosePayloads, Subscriber, SubTake, SubLock, SubWrite, SubDone

LEMMA ServedStep == ASSUME IInv, [Next]_vars PROVE Served'
  <1>1. TypeOK /\ Served /\ Pushing /\ due.conns \subseteq Conns
    BY DEF IInv, TypeOK
  <1>2. ASSUME UNCHANGED <<due, wire>>, sub'.targets = sub.targets, sub'.payload = sub.payload
        PROVE  Served'
    BY <1>1, <1>2, FailsForGood DEF Served
  <1>3. CASE SubTake
    BY <1>3 DEF SubTake, Served
  <1>4. CASE SubWrite
    <2>1. PICK c \in Conns : c = Head(sub.targets)
      BY <1>1, <1>4, HeadTailProperties DEF SubWrite, Pushing, TypeOK
    <2>2. /\ sub'.payload = sub.payload /\ due' = due
          /\ ToSet(sub.targets) = {c} \union ToSet(sub'.targets)
      BY <1>4, <2>1, Written
    <2>3. ToSet(Append(wire[c], sub.payload)) = ToSet(wire[c]) \union {sub.payload}
      <3>1. wire[c] \in Seq(Payload) /\ sub.payload \in Payload
        BY <1>1, <1>4, <2>1, Written DEF TypeOK
      <3> QED BY <3>1, AppendList
    <2>4. ASSUME NEW d \in Conns, sub.payload \in ToSet(wire[d])
          PROVE  sub.payload \in ToSet(wire'[d])
      BY <1>4, <2>1, <2>3, <2>4, Written
    <2>5. sub.payload \in ToSet(wire'[c]) \/ WriteFails(c)
      BY <1>4, <2>1, <2>3, Written
    <2> QED BY <1>1, <2>2, <2>4, <2>5, FailsForGood DEF Served
  <1>5. CASE SubLock \/ SubDone
    BY <1>1, <1>2, <1>5 DEF SubLock, SubDone, TypeOK
  <1> QED BY <1>2, <1>3, <1>4, <1>5
          DEF Next, vars, connection, IssueTicket, ExpireTicket, Connect, Upgrade, Register,
              PeerFails, ReadError, HubRemove, Close, PingLock, PingWrite, PingStop, Publish,
              LosePayloads, Subscriber

-----------------------------------------------------------------------------
(* The locks                                                               *)

LEMMA LocksStep == ASSUME IInv, [Next]_vars PROVE Locks'
  <1>1. TypeOK /\ Locks /\ Pushing
    BY DEF IInv
  <1> DEFINE Early == {"new", "refused", "verified", "upgraded"}
  <1>2. ASSUME UNCHANGED <<lock, pinger, sub>>,
               \A c \in Conns : conn'[c].state \in Early => conn[c].state \in Early
        PROVE  Locks'
    BY <1>1, <1>2 DEF Locks
  <1>3. ASSUME NEW c \in Conns, NEW t \in Tickets, Connect(c, t) PROVE Locks'
    <2>1. conn[c].state = "new" /\ \A d \in Conns \ {c} : conn'[d] = conn[d]
      BY <1>1, <1>3, StateTypes DEF Connect, Verified, TypeOK, States
    <2> QED BY <1>2, <1>3, <2>1 DEF Connect
  <1>4. ASSUME NEW c \in Conns, Upgrade(c) PROVE Locks'
    <2>1. conn[c].state = "verified" /\ \A d \in Conns \ {c} : conn'[d] = conn[d]
      BY <1>1, <1>4, StateTypes DEF Upgrade, States
    <2> QED BY <1>2, <1>4, <2>1 DEF Upgrade
  <1>5. ASSUME NEW c \in Conns, ReadError(c) \/ HubRemove(c) \/ Close(c) PROVE Locks'
    <2>1. conn'[c].state \notin Early /\ \A d \in Conns \ {c} : conn'[d] = conn[d]
      BY <1>1, <1>5, StateTypes DEF ReadError, HubRemove, Close, States
    <2> QED BY <1>2, <1>5, <2>1 DEF ReadError, HubRemove, Close
  <1>6. ASSUME NEW c \in Conns, Register(c) PROVE Locks'
    <2>1. /\ conn'[c].state \notin Early /\ \A d \in Conns \ {c} : conn'[d] = conn[d]
          /\ conn[c].state = "upgraded" /\ UNCHANGED <<lock, sub>>
          /\ pinger[c] = "none"
      BY <1>1, <1>6, StateTypes DEF Register, States, Locks
    <2>2. CASE pinger' = [pinger EXCEPT ![c] = "waiting"]
      BY <1>1, <2>1, <2>2 DEF Locks, TypeOK
    <2>3. CASE pinger' = pinger
      BY <1>1, <2>1, <2>3 DEF Locks
    <2> QED BY <1>6, <2>2, <2>3 DEF Register
  <1>7. ASSUME NEW c \in Conns, PingLock(c) \/ PingWrite(c) \/ PingStop(c) PROVE Locks'
    BY <1>1, <1>7 DEF PingLock, PingWrite, PingStop, Locks, TypeOK
  <1>8. CASE SubTake
    BY <1>1, <1>8 DEF SubTake, Locks, connection
  <1>9. CASE SubDone
    BY <1>1, <1>9 DEF SubDone, Locks, connection, TypeOK
  <1>10. CASE SubLock
    <2>1. /\ Head(sub.targets) \in Conns /\ sub'.targets = sub.targets /\ sub'.state = "write"
          /\ UNCHANGED <<conn, pinger>> /\ sub.state = "push"
          /\ lock[Head(sub.targets)] = "free"
          /\ lock' = [lock EXCEPT ![Head(sub.targets)] = "subscriber"]
      BY <1>1, <1>10, HeadTailProperties DEF SubLock, TypeOK, connection
    <2> QED BY <1>1, <2>1 DEF Locks, TypeOK
  <1>11. CASE SubWrite
    <2>1. /\ Head(sub.targets) \in Conns /\ sub'.state = "push"
          /\ UNCHANGED <<conn, pinger>> /\ sub.state = "write"
          /\ lock' = [lock EXCEPT ![Head(sub.targets)] = "free"]
      BY <1>1, <1>11, HeadTailProperties DEF SubWrite, Pushing, TypeOK, connection
    <2> QED BY <1>1, <2>1 DEF Locks, TypeOK
  <1> QED BY <1>2, <1>3, <1>4, <1>5, <1>6, <1>7, <1>8, <1>9, <1>10, <1>11
          DEF Next, vars, connection, IssueTicket, ExpireTicket, PeerFails, Publish,
              LosePayloads, Subscriber

-----------------------------------------------------------------------------
(* The theorems                                                            *)

\* The invariant holds: what the other theorems rest on.
THEOREM InvHolds == Spec => []IInv
  <1>1. Init => IInv
    <2>1. SUFFICES ASSUME Init PROVE IInv
      OBVIOUS
    <2>2. TypeOK
      BY <2>1, TypesInit
    <2>3. HubListsOpenConnections
      BY <2>1, EmptyList DEF Init, HubListsOpenConnections
    <2>4. Pushing /\ Served /\ Locks
      BY <2>1 DEF Init, Pushing, Served, Locks
    <2>5. Numbered /\ InOrderAndOnce
      BY <2>1, EmptyList DEF Init, Numbered, InOrderAndOnce, NoPayload
    <2> QED BY <2>2, <2>3, <2>4, <2>5 DEF IInv
  <1>2. IInv /\ [Next]_vars => IInv'
    BY TypesStep, HubStep, PushingStep, NumberedStep, OrderStep, ServedStep, LocksStep DEF IInv
  <1> QED BY <1>1, <1>2, PTL DEF Spec

\* TypeOK: tickets, connections, locks, payloads and the subscriber keep their types.
THEOREM WsTypes == Spec => []TypeOK
  <1>1. IInv => TypeOK
    BY DEF IInv
  <1> QED BY <1>1, InvHolds, PTL

\* HubListsOpenConnections: Hub.Add and Hub.Remove of any number of tabs leave every
\* connection registered exactly once, and exactly while its handler runs.
THEOREM HubIsExact == Spec => []HubListsOpenConnections
  <1>1. IInv => HubListsOpenConnections
    BY DEF IInv
  <1> QED BY <1>1, InvHolds, PTL

\* InOrderAndOnce: no browser gets a payload twice or out of order.
THEOREM PushesInOrder == Spec => []InOrderAndOnce
  <1>1. IInv => InOrderAndOnce
    BY DEF IInv
  <1> QED BY <1>1, InvHolds, PTL

\* NobodyIsSkipped: a finished push has reached everyone it could reach.
THEOREM PushReachesAll == Spec => []NobodyIsSkipped
  <1>1. IInv => NobodyIsSkipped
    <2>1. SUFFICES ASSUME IInv, sub.state = "idle", NEW c \in due.conns,
                          conn[c].state = "open", peer[c] = "alive"
                   PROVE  due.payload \in ToSet(wire[c])
      BY DEF NobodyIsSkipped
    <2> QED BY <2>1, EmptyList DEF IInv, Pushing, Served, WriteFails
  <1> QED BY <1>1, InvHolds, PTL

\* OneWriterAtATime: SafeConn's lock keeps pings and payloads apart.
THEOREM WritersExclude == Spec => []OneWriterAtATime
  <1>1. IInv => OneWriterAtATime
    BY DEF IInv, Locks, OneWriterAtATime
  <1> QED BY <1>1, InvHolds, PTL
=============================================================================
