----------------------------- MODULE FeedsProofs -----------------------------
(***************************************************************************)
(* Theorems about Feeds, for every number of clients, every bound of the   *)
(* outboxes, of the ring buffer and of the audit log, every page size and  *)
(* every histogram request.                                                *)
(***************************************************************************)
EXTENDS Feeds, SequenceTheorems, FiniteSetTheorems, TLAPS

-----------------------------------------------------------------------------
(* Sequences of numbers *)

LEMMA AppendedLine ==
    ASSUME NEW a \in Seq(Nat), NEW b \in Seq(Nat), NEW n \in Nat
    PROVE a \o Append(b, n) = Append(a \o b, n)
<1>1. Append(b, n) = b \o <<n>> /\ <<n>> \in Seq(Nat) /\ a \o b \in Seq(Nat)
    BY AppendIsConcat, ConcatProperties
<1>2. Append(a \o b, n) = (a \o b) \o <<n>>
    BY <1>1, AppendIsConcat
<1> QED
    BY <1>1, <1>2, ConcatAssociative

LEMMA ShiftedLine ==
    ASSUME NEW a \in Seq(Nat), NEW b \in Seq(Nat), b # <<>>
    PROVE Append(a, Head(b)) \o Tail(b) = a \o b
<1> DEFINE t == Tail(b)
           h == Head(b)
           c == Append(a, h)
<1>1. h \in Nat /\ h = b[1] /\ t \in Seq(Nat) /\ Len(t) = Len(b) - 1
    BY HeadTailProperties
<1>2. \A i \in 1..Len(t) : t[i] = b[i + 1]
    BY HeadTailProperties
<1>3. Len(b) \in Nat /\ Len(b) # 0 /\ Len(t) \in Nat /\ Len(a) \in Nat
    BY <1>1
<1> HIDE DEF t, h
<1>4. /\ c \in Seq(Nat) /\ Len(c) = Len(a) + 1 /\ c[Len(a) + 1] = h
      /\ \A i \in 1..Len(a) : c[i] = a[i]
    BY <1>1, AppendProperties
<1> HIDE DEF c
<1>5. /\ c \o t \in Seq(Nat) /\ Len(c \o t) = Len(c) + Len(t)
      /\ \A i \in 1..(Len(c) + Len(t)) : (c \o t)[i] = IF i <= Len(c) THEN c[i] ELSE t[i - Len(c)]
    BY <1>1, <1>4, ConcatProperties
<1>6. /\ a \o b \in Seq(Nat) /\ Len(a \o b) = Len(a) + Len(b)
      /\ \A i \in 1..(Len(a) + Len(b)) : (a \o b)[i] = IF i <= Len(a) THEN a[i] ELSE b[i - Len(a)]
    BY ConcatProperties
<1>7. Len(c \o t) = Len(a \o b)
    BY <1>1, <1>3, <1>4, <1>5, <1>6
<1>8. ASSUME NEW i \in 1..(Len(a) + Len(b)) PROVE (c \o t)[i] = (a \o b)[i]
    <2>0. i \in Int /\ i \in 1..(Len(c) + Len(t)) /\ (i <= Len(a) \/ i = Len(a) + 1 \/ i > Len(a) + 1)
        <3> HIDE DEF c
        <3>1. Len(c) + Len(t) = Len(a) + Len(b)
            BY <1>1, <1>3, <1>4
        <3>2. i \in Int
            BY <1>3
        <3> QED
            BY <1>3, <3>1, <3>2
    <2>1. (c \o t)[i] = IF i <= Len(a) + 1 THEN c[i] ELSE t[i - (Len(a) + 1)]
        BY <1>4, <1>5, <2>0
    <2>2. (a \o b)[i] = IF i <= Len(a) THEN a[i] ELSE b[i - Len(a)]
        BY <1>6
    <2>3. CASE i <= Len(a)
        BY <1>3, <1>4, <2>1, <2>2, <2>3
    <2>4. CASE i = Len(a) + 1
        <3>1. i - Len(a) = 1 /\ ~(i <= Len(a))
            BY <1>3, <2>4
        <3> QED
            BY <1>1, <1>4, <2>1, <2>2, <2>4, <3>1
    <2>5. CASE i > Len(a) + 1
        <3>1. i - (Len(a) + 1) \in 1..Len(t) /\ (i - (Len(a) + 1)) + 1 = i - Len(a)
            BY <1>1, <1>3, <2>5
        <3>2. t[i - (Len(a) + 1)] = b[i - Len(a)]
            BY <1>2, <3>1
        <3> QED
            BY <1>3, <2>1, <2>2, <2>5, <3>2
    <2> QED
        BY <2>0, <2>3, <2>4, <2>5
<1>9. c \o t = a \o b
    BY <1>5, <1>6, <1>7, <1>8, SeqEqual
<1> QED
    BY <1>9 DEF c, t, h

LEMMA AppendedSet ==
    ASSUME NEW S, NEW s \in Seq(S), NEW x \in S
    PROVE ToSet(Append(s, x)) = ToSet(s) \cup {x}
<1> DEFINE t == Append(s, x)
<1>1. /\ t \in Seq(S) /\ Len(t) = Len(s) + 1 /\ t[Len(s) + 1] = x
      /\ \A i \in 1..Len(s) : t[i] = s[i]
    BY AppendProperties
<1>2. Len(s) \in Nat /\ DOMAIN s = 1..Len(s) /\ DOMAIN t = 1..(Len(s) + 1)
    BY <1>1
<1> HIDE DEF t
<1>3. \A y : y \in ToSet(t) <=> \E i \in 1..(Len(s) + 1) : y = t[i]
    BY <1>2 DEF ToSet
<1>4. \A y : y \in ToSet(s) <=> \E i \in 1..Len(s) : y = s[i]
    BY <1>2 DEF ToSet
<1>5. ASSUME NEW y PROVE y \in ToSet(t) <=> y \in ToSet(s) \cup {x}
    <2>1. ASSUME y \in ToSet(t) PROVE y \in ToSet(s) \cup {x}
        <3>1. PICK i \in 1..(Len(s) + 1) : y = t[i]
            BY <1>3, <2>1
        <3>2. CASE i = Len(s) + 1
            BY <1>1, <3>1, <3>2
        <3>3. CASE i \in 1..Len(s)
            BY <1>1, <1>4, <3>1, <3>3
        <3> QED
            BY <1>2, <3>2, <3>3
    <2>2. ASSUME y \in ToSet(s) PROVE y \in ToSet(t)
        <3>1. PICK i \in 1..Len(s) : y = s[i]
            BY <1>4, <2>2
        <3>2. i \in 1..(Len(s) + 1) /\ t[i] = y
            BY <1>1, <1>2, <3>1
        <3> QED
            BY <1>3, <3>2
    <2>3. x \in ToSet(t)
        <3>1. Len(s) + 1 \in 1..(Len(s) + 1)
            BY <1>2
        <3> QED
            BY <1>1, <1>3, <3>1
    <2> QED
        BY <2>1, <2>2, <2>3
<1>6. ToSet(t) = ToSet(s) \cup {x}
    BY <1>5
<1> QED
    BY <1>6 DEF t

\* A sequence that increases up to n, and what may come next.
Rising(s, n) == Increasing(s) /\ \A i \in DOMAIN s : s[i] <= n

LEMMA AppendedRises ==
    ASSUME NEW n \in Nat, NEW s \in Seq(Nat), Rising(s, n)
    PROVE Rising(Append(s, n + 1), n + 1)
<1> DEFINE t == Append(s, n + 1)
<1>1. /\ t \in Seq(Nat) /\ Len(t) = Len(s) + 1 /\ t[Len(s) + 1] = n + 1
      /\ \A i \in 1..Len(s) : t[i] = s[i]
    BY AppendProperties
<1>2. Len(s) \in Nat /\ DOMAIN s = 1..Len(s) /\ DOMAIN t = 1..(Len(s) + 1) /\ \A i \in 1..Len(s) : s[i] \in Nat
    BY <1>1
<1> HIDE DEF t
<1>3. \A i \in DOMAIN t : t[i] <= n + 1
    BY <1>1, <1>2 DEF Rising
<1>4. ASSUME NEW i \in DOMAIN t, NEW j \in DOMAIN t, i < j PROVE t[i] < t[j]
    <2>1. i \in 1..Len(s)
        BY <1>2, <1>4
    <2>2. CASE j = Len(s) + 1
        BY <1>1, <1>2, <2>1, <2>2 DEF Rising
    <2>3. CASE j \in 1..Len(s)
        BY <1>1, <1>2, <1>4, <2>1, <2>3 DEF Rising, Increasing
    <2> QED
        BY <1>2, <2>2, <2>3
<1> QED
    BY <1>3, <1>4 DEF Rising, Increasing, t

-----------------------------------------------------------------------------
(* Events reach their audience *)

Published == [n : Nat, audience : Audiences, protected : BOOLEAN]
EventSocket == [st : {"off", "open", "broken"}, principal : Principals, outbox : Seq(Nat)]
Hearing == [since : Nat, full : SUBSET Nat]

\* The numbers of the events a client is told of: those for it, published since
\* it connected, that found room.
Due(socket, hearing, all) ==
    {e.n : e \in {f \in ToSet(all) :
        /\ f.n > hearing.since /\ f.n \notin hearing.full
        /\ Hears(socket.principal, f)}}

\* What an event socket is told: what it was sent and what waits for it is, in
\* order, what was for it; nothing on record is from the future.
SocketTold(socket, sent, hearing, all, n) ==
    socket.st = "open" =>
        /\ hearing.since <= n /\ \A k \in hearing.full : k <= n
        /\ Len(socket.outbox) <= MAX_PENDING_EVENTS
        /\ Rising(sent \o socket.outbox, n)
        /\ ToSet(sent \o socket.outbox) = {0} \cup Due(socket, hearing, all)

EventsInv ==
    /\ now \in Nat /\ protected \in BOOLEAN
    /\ esock \in [EventSockets -> EventSocket]
    /\ got \in [EventSockets -> Seq(Nat)]
    /\ heard \in [EventSockets -> Hearing]
    /\ events \in Seq(Published)
    /\ \A e \in ToSet(events) : e.n <= now
    /\ \A s \in EventSockets : SocketTold(esock[s], got[s], heard[s], events, now)

LEMMA EventsInvGives ==
    EventsInv => EventsReachAudience
BY DEF EventsInv, EventsReachAudience, SocketTold, Due, Rising

LEMMA EventsInit ==
    Init => EventsInv
<1> SUFFICES ASSUME Init PROVE EventsInv
    OBVIOUS
<1>1. now = 0 /\ protected \in BOOLEAN /\ events = <<>>
    BY DEF Init
<1>2. /\ esock = [s \in EventSockets |-> Closed] /\ got = [s \in EventSockets |-> <<>>]
      /\ heard = [s \in EventSockets |-> [since |-> 0, full |-> {}]]
    BY DEF Init
<1>3. Closed \in EventSocket /\ Closed.st # "open" /\ [since |-> 0, full |-> {}] \in Hearing
    BY DEF Closed, EventSocket, Hearing, Principals
<1>4. events \in Seq(Published) /\ \A e \in ToSet(events) : e.n <= now
    BY <1>1 DEF ToSet
<1>5. esock \in [EventSockets -> EventSocket] /\ got \in [EventSockets -> Seq(Nat)]
    BY <1>2, <1>3
<1>6. heard \in [EventSockets -> Hearing]
    BY <1>2, <1>3
<1>7. \A s \in EventSockets : SocketTold(esock[s], got[s], heard[s], events, now)
    BY <1>2, <1>3 DEF SocketTold
<1> QED
    BY <1>1, <1>4, <1>5, <1>6, <1>7 DEF EventsInv

\* Time passes.
LEMMA ToldKept ==
    ASSUME NEW socket \in EventSocket, NEW sent \in Seq(Nat), NEW hearing \in Hearing, NEW all,
           NEW n \in Nat, NEW m \in Nat, n <= m, SocketTold(socket, sent, hearing, all, n)
    PROVE SocketTold(socket, sent, hearing, all, m)
<1> SUFFICES ASSUME socket.st = "open" PROVE SocketTold(socket, sent, hearing, all, m)
    BY DEF SocketTold
<1> DEFINE line == sent \o socket.outbox
<1>1. socket.outbox \in Seq(Nat) /\ hearing.since \in Nat /\ hearing.full \in SUBSET Nat
    BY DEF EventSocket, Hearing
<1>2. line \in Seq(Nat)
    BY <1>1, ConcatProperties
<1>3. \A i \in DOMAIN line : line[i] \in Nat
    BY <1>2
<1>4. Rising(line, n)
    BY DEF SocketTold
<1> HIDE DEF line
<1>5. Rising(line, m)
    BY <1>3, <1>4 DEF Rising
<1>6. hearing.since <= m /\ \A k \in hearing.full : k <= m
    BY <1>1 DEF SocketTold
<1> QED
    BY <1>5, <1>6 DEF SocketTold, line

\* A client connects: it waits for the hello message, and nothing published so
\* far is for it.
LEMMA ToldConnect ==
    ASSUME NEW p \in Principals, NEW n \in Nat, NEW all, \A e \in ToSet(all) : e.n \in Nat /\ e.n <= n
    PROVE SocketTold([st |-> "open", principal |-> p, outbox |-> <<0>>], <<>>,
                     [since |-> n, full |-> {}], all, n)
<1> DEFINE socket == [st |-> "open", principal |-> p, outbox |-> <<0>>]
           hearing == [since |-> n, full |-> {}]
<1>1. Due(socket, hearing, all) = {}
    BY DEF Due
<1>2. <<>> \o <<0>> = <<0>>
    OBVIOUS
<1>3. ToSet(<<0>>) = {0} /\ Rising(<<0>>, n)
    BY DEF ToSet, Rising, Increasing
<1>4. Len(<<0>>) <= MAX_PENDING_EVENTS
    BY FeedsAssumption
<1> QED
    BY <1>1, <1>2, <1>3, <1>4 DEF SocketTold

\* The oldest message is sent.
LEMMA ToldSend ==
    ASSUME NEW socket \in EventSocket, NEW sent \in Seq(Nat), NEW hearing \in Hearing, NEW all,
           NEW n \in Nat, SocketTold(socket, sent, hearing, all, n), socket.outbox # <<>>
    PROVE SocketTold([socket EXCEPT !.outbox = Tail(@)], Append(sent, Head(socket.outbox)), hearing, all, n)
<1> DEFINE next == [socket EXCEPT !.outbox = Tail(@)]
           more == Append(sent, Head(socket.outbox))
<1>1. socket.outbox \in Seq(Nat)
    BY DEF EventSocket
<1>2. /\ next.outbox = Tail(socket.outbox) /\ next.st = socket.st
      /\ next.principal = socket.principal
    BY DEF EventSocket
<1>3. more \o next.outbox = sent \o socket.outbox
    BY <1>1, <1>2, ShiftedLine
<1>4. Len(Tail(socket.outbox)) = Len(socket.outbox) - 1 /\ Len(socket.outbox) \in Nat
    BY <1>1, HeadTailProperties
<1> HIDE DEF next, more
<1>5. Due(next, hearing, all) = Due(socket, hearing, all)
    BY <1>2 DEF Due
<1>6. MAX_PENDING_EVENTS \in Nat
    BY FeedsAssumption
<1>7. socket.st = "open" => Len(next.outbox) <= MAX_PENDING_EVENTS
    <2>1. socket.st = "open" => Len(socket.outbox) <= MAX_PENDING_EVENTS
        BY DEF SocketTold
    <2> QED
        BY <1>2, <1>4, <1>6, <2>1
<1>8. SocketTold(next, more, hearing, all, n)
    BY <1>2, <1>3, <1>5, <1>7 DEF SocketTold
<1> QED
    BY <1>8 DEF next, more

\* Receives, asked when an event is published, is Hears, asked of the event with
\* the protection it was published under.
LEMMA HearsReceives ==
    ASSUME NEW p \in Principals, NEW audience \in Audiences, NEW n, protected \in BOOLEAN
    PROVE Receives(p, audience) <=> Hears(p, [n |-> n, audience |-> audience, protected |-> protected])
BY DEF Receives, Hears, Can, Principals, Audiences

\* An event is published: a client of the audience has it queued or, with a full
\* outbox, is too slow for it.
LEMMA ToldPublish ==
    ASSUME NEW socket \in EventSocket, NEW sent \in Seq(Nat), NEW hearing \in Hearing,
           NEW all \in Seq(Published), NEW n \in Nat, \A e \in ToSet(all) : e.n <= n,
           SocketTold(socket, sent, hearing, all, n),
           NEW event \in Published, event.n = n + 1
    PROVE SocketTold(
        IF Hears(socket.principal, event) THEN [socket EXCEPT !.outbox = Enqueue(@, n + 1)] ELSE socket,
        sent,
        IF Hears(socket.principal, event) /\ Len(socket.outbox) = MAX_PENDING_EVENTS
        THEN [hearing EXCEPT !.full = @ \cup {n + 1}] ELSE hearing,
        Append(all, event), n + 1)
<1> SUFFICES ASSUME socket.st = "open"
             PROVE SocketTold(
        IF Hears(socket.principal, event) THEN [socket EXCEPT !.outbox = Enqueue(@, n + 1)] ELSE socket,
        sent,
        IF Hears(socket.principal, event) /\ Len(socket.outbox) = MAX_PENDING_EVENTS
        THEN [hearing EXCEPT !.full = @ \cup {n + 1}] ELSE hearing,
        Append(all, event), n + 1)
    BY DEF SocketTold, EventSocket
<1>1. /\ socket.outbox \in Seq(Nat) /\ Len(socket.outbox) \in Nat
      /\ hearing.since \in Nat /\ hearing.full \in SUBSET Nat
    BY DEF EventSocket, Hearing
<1>2. MAX_PENDING_EVENTS \in Nat
    BY FeedsAssumption
<1>3. ToSet(Append(all, event)) = ToSet(all) \cup {event}
    BY AppendedSet
<1>4. \A e \in ToSet(all) : e.n \in Nat /\ e.n # n + 1
    <2>1. \A e \in ToSet(all) : e \in Published
        BY DEF ToSet
    <2>2. \A e \in ToSet(all) : e.n \in Nat
        BY <2>1 DEF Published
    <2> QED
        BY <2>2
<1>5. /\ hearing.since <= n /\ \A k \in hearing.full : k <= n
      /\ Len(socket.outbox) <= MAX_PENDING_EVENTS
      /\ Rising(sent \o socket.outbox, n)
      /\ ToSet(sent \o socket.outbox) = {0} \cup Due(socket, hearing, all)
    BY DEF SocketTold
<1>6. n + 1 > hearing.since /\ n + 1 \notin hearing.full
    BY <1>1, <1>5
<1>7. n + 1 \in Nat /\ sent \o socket.outbox \in Seq(Nat)
    BY <1>1, ConcatProperties
<1>8. hearing.since <= n + 1 /\ \A k \in hearing.full : k <= n + 1
    BY <1>1, <1>5
<1>9. Rising(sent \o socket.outbox, n + 1)
    <2> DEFINE line == sent \o socket.outbox
    <2>0. line \in Seq(Nat)
        BY <1>7
    <2>1. \A i \in DOMAIN line : line[i] \in Nat
        <3> HIDE DEF line
        <3> QED
            BY <2>0
    <2>2. Rising(line, n)
        BY <1>5
    <2> HIDE DEF line
    <2>3. Rising(line, n + 1)
        BY <2>1, <2>2 DEF Rising
    <2> QED
        BY <2>3 DEF line
<1>10. CASE ~Hears(socket.principal, event)
    <2>1. Due(socket, hearing, Append(all, event)) = Due(socket, hearing, all)
        BY <1>3, <1>10 DEF Due
    <2>2. SocketTold(socket, sent, hearing, Append(all, event), n + 1)
        BY <1>5, <1>8, <1>9, <2>1 DEF SocketTold
    <2> QED
        BY <1>10, <2>2
<1>11. CASE Hears(socket.principal, event) /\ Len(socket.outbox) = MAX_PENDING_EVENTS
    <2> DEFINE slow == [hearing EXCEPT !.full = @ \cup {n + 1}]
               next == [socket EXCEPT !.outbox = Enqueue(@, n + 1)]
    <2>1. slow.since = hearing.since /\ slow.full = hearing.full \cup {n + 1}
        BY DEF Hearing
    <2>2. next = socket
        <3>1. Enqueue(socket.outbox, n + 1) = socket.outbox
            BY <1>1, <1>2, <1>11 DEF Enqueue
        <3> QED
            BY <3>1 DEF EventSocket
    <2> HIDE DEF slow, next
    <2>3. Due(socket, slow, Append(all, event)) = Due(socket, hearing, all)
        <3>1. \A f : f \in ToSet(Append(all, event)) /\ f.n \notin slow.full
                         <=> f \in ToSet(all) /\ f.n \notin hearing.full
            BY <1>3, <1>4, <2>1
        <3> QED
            BY <2>1, <3>1 DEF Due
    <2>4. slow.since <= n + 1 /\ \A k \in slow.full : k <= n + 1
        BY <1>7, <1>8, <2>1
    <2>5. SocketTold(socket, sent, slow, Append(all, event), n + 1)
        BY <1>5, <1>9, <2>3, <2>4 DEF SocketTold
    <2> QED
        BY <1>11, <2>2, <2>5 DEF next, slow
<1>12. CASE Hears(socket.principal, event) /\ Len(socket.outbox) # MAX_PENDING_EVENTS
    <2> DEFINE next == [socket EXCEPT !.outbox = Enqueue(@, n + 1)]
    <2>1. Enqueue(socket.outbox, n + 1) = Append(socket.outbox, n + 1)
        BY <1>1, <1>2, <1>5, <1>12 DEF Enqueue
    <2>2. /\ next.outbox = Append(socket.outbox, n + 1) /\ next.principal = socket.principal
        BY <2>1 DEF EventSocket
    <2>3. Len(next.outbox) = Len(socket.outbox) + 1
        BY <1>1, <1>7, <2>2, AppendProperties
    <2> HIDE DEF next
    <2>4. Len(next.outbox) <= MAX_PENDING_EVENTS
        BY <1>1, <1>2, <1>5, <1>12, <2>3
    <2>5. sent \o next.outbox = Append(sent \o socket.outbox, n + 1)
        <3>1. PICK m \in Nat : m = n + 1
            BY <1>7
        <3>2. sent \o Append(socket.outbox, m) = Append(sent \o socket.outbox, m)
            BY <1>1, AppendedLine
        <3> QED
            BY <2>2, <3>1, <3>2
    <2>6. Rising(sent \o next.outbox, n + 1)
        BY <1>5, <1>7, <2>5, AppendedRises
    <2>7. ToSet(sent \o next.outbox) = ToSet(sent \o socket.outbox) \cup {n + 1}
        <3>1. PICK m \in Nat, line \in Seq(Nat) : m = n + 1 /\ line = sent \o socket.outbox
            BY <1>7
        <3>2. ToSet(Append(line, m)) = ToSet(line) \cup {m}
            <4>1. PICK S : S = Nat
                OBVIOUS
            <4>2. line \in Seq(S) /\ m \in S
                BY <4>1
            <4> QED
                BY <4>2, AppendedSet
        <3> QED
            BY <2>5, <3>1, <3>2
    <2>8. Due(next, hearing, Append(all, event)) = Due(socket, hearing, all) \cup {n + 1}
        BY <1>3, <1>6, <1>12, <2>2 DEF Due
    <2>9. SocketTold(next, sent, hearing, Append(all, event), n + 1)
        BY <1>5, <1>8, <2>4, <2>6, <2>7, <2>8 DEF SocketTold
    <2> QED
        BY <1>12, <2>9 DEF next
<1> QED
    BY <1>10, <1>11, <1>12

\* Every step leaves the event sockets alone, publishes, or is a step of a socket.
QuietStep == (now' = now \/ now' = now + 1) /\ protected' \in BOOLEAN /\ UNCHANGED eventVars
PublishStep == now' = now + 1 /\ UNCHANGED protected /\ \E a \in Audiences : PublishEvent(a)
SocketStep ==
    /\ UNCHANGED <<now, protected, events>>
    /\ \/ \E s \in EventSockets, p \in Principals : ConnectEvents(s, p)
       \/ \E s \in EventSockets : SendLoop(s)
       \/ \E s \in EventSockets : SendFails(s)
       \/ \E s \in EventSockets : StopSender(s)
       \/ BroadcastDisconnect

LEMMA EventStepKinds ==
    ASSUME EventsInv, Next
    PROVE QuietStep \/ PublishStep \/ SocketStep
<1> USE DEF eventVars
<1>0. protected \in BOOLEAN
    BY DEF EventsInv
<1>1. CASE NextEventSocket
    <2>1. CASE \E s \in EventSockets, p \in Principals : ConnectEvents(s, p)
        BY <2>1 DEF SocketStep, ConnectEvents
    <2>2. CASE \E s \in EventSockets : SendLoop(s)
        BY <2>2 DEF SocketStep, SendLoop
    <2>3. CASE \E s \in EventSockets : SendFails(s)
        BY <2>3 DEF SocketStep, SendFails
    <2>4. CASE \E s \in EventSockets : StopSender(s)
        BY <2>4 DEF SocketStep, StopSender
    <2>5. CASE Mount
        BY <2>5 DEF QuietStep, Mount
    <2>6. CASE BroadcastDisconnect
        BY <2>6 DEF SocketStep, BroadcastDisconnect
    <2> QED
        BY <1>1, <2>1, <2>2, <2>3, <2>4, <2>5, <2>6 DEF NextEventSocket
<1>2. CASE NextLogSocket
    <2>1. CASE BroadcastDisconnect
        BY <2>1 DEF SocketStep, BroadcastDisconnect
    <2> QED
        BY <1>0, <1>2, <2>1 DEF NextLogSocket, ConnectLogs, LeaveLogs, SafeSend, SafeSendFails, QuietStep
<1>3. CASE NextReader
    BY <1>0, <1>3 DEF NextReader, ReadFirst, ReadNext, QuietStep
<1>4. CASE NextEvent
    BY <1>4 DEF NextEvent, Publish, PublishStep
<1>5. CASE NextLog
    BY <1>0, <1>5 DEF NextLog, Emit, EmitSensitive, QuietStep
<1>6. CASE NextAudit
    <2>0. "audit:read" \in Audiences
        BY DEF Audiences
    <2>1. CASE \E kind \in {"login_failed", "user_changed"} : Record(kind)
        BY <2>0, <2>1 DEF Record, LogAudit, PublishStep
    <2>2. CASE ClearEntries
        BY <2>0, <2>2 DEF ClearEntries, PublishStep
    <2>3. CASE \E before \in 1..now : Prune(before)
        BY <1>0, <2>3 DEF Prune, QuietStep
    <2> QED
        BY <1>6, <2>1, <2>2, <2>3 DEF NextAudit
<1> QED
    BY <1>1, <1>2, <1>3, <1>4, <1>5, <1>6 DEF Next

LEMMA EventsQuiet ==
    ASSUME EventsInv, QuietStep
    PROVE EventsInv'
<1> USE DEF eventVars
<1>1. PICK m \in Nat : m = now'
    BY DEF EventsInv, QuietStep
<1>2. now \in Nat /\ now <= m
    BY <1>1 DEF EventsInv, QuietStep
<1>3. esock' = esock /\ got' = got /\ heard' = heard /\ events' = events /\ protected' \in BOOLEAN
    BY DEF QuietStep
<1>4. \A e \in ToSet(events) : e.n \in Nat /\ e.n <= m
    <2>1. \A e \in ToSet(events) : e \in Published /\ e.n <= now
        BY DEF EventsInv, ToSet
    <2>2. \A e \in ToSet(events) : e.n \in Nat /\ e.n <= now
        BY <2>1 DEF Published
    <2> QED
        BY <1>2, <2>2
<1>5. \A s \in EventSockets : SocketTold(esock[s], got[s], heard[s], events, m)
    <2> TAKE s \in EventSockets
    <2>1. /\ esock[s] \in EventSocket /\ got[s] \in Seq(Nat) /\ heard[s] \in Hearing
          /\ SocketTold(esock[s], got[s], heard[s], events, now)
        BY DEF EventsInv
    <2> QED
        BY <1>2, <2>1, ToldKept
<1> QED
    BY <1>1, <1>3, <1>4, <1>5 DEF EventsInv

LEMMA EventsPublish ==
    ASSUME EventsInv, PublishStep
    PROVE EventsInv'
<1>1. PICK a \in Audiences : PublishEvent(a)
    BY DEF PublishStep
<1>2. PICK m \in Nat : m = now + 1 /\ m = now'
    BY DEF EventsInv, PublishStep
<1>3. now \in Nat /\ protected \in BOOLEAN /\ protected' = protected
    BY DEF EventsInv, PublishStep
<1>4. PICK event \in Published : event = [n |-> m, audience |-> a, protected |-> protected]
    BY <1>3 DEF Published
<1>5. events \in Seq(Published) /\ event.n = m
    BY <1>4 DEF EventsInv
<1>6. events' = Append(events, event) /\ got' = got
    BY <1>1, <1>2, <1>4 DEF PublishEvent
<1>7. events' \in Seq(Published) /\ ToSet(events') = ToSet(events) \cup {event}
    BY <1>5, <1>6, AppendProperties, AppendedSet
<1>8. \A e \in ToSet(events) : e.n \in Nat /\ e.n <= now
    <2>1. \A e \in ToSet(events) : e \in Published /\ e.n <= now
        BY DEF EventsInv, ToSet
    <2> QED
        BY <2>1 DEF Published
<1>9. \A e \in ToSet(events') : e.n <= m
    BY <1>2, <1>3, <1>5, <1>7, <1>8
<1>10. ASSUME NEW s \in EventSockets
       PROVE /\ esock'[s] = (IF Hears(esock[s].principal, event)
                                /\ esock[s].st \in {"open", "broken"}
                             THEN [esock[s] EXCEPT !.outbox = Enqueue(@, m)] ELSE esock[s])
             /\ heard'[s] = (IF /\ Hears(esock[s].principal, event)
                                /\ esock[s].st \in {"open", "broken"}
                                /\ Len(esock[s].outbox) = MAX_PENDING_EVENTS
                             THEN [heard[s] EXCEPT !.full = @ \cup {m}] ELSE heard[s])
    <2>1. esock[s].principal \in Principals
        BY DEF EventsInv, EventSocket
    <2>2. Receives(esock[s].principal, a) <=> Hears(esock[s].principal, event)
        BY <1>3, <1>4, <2>1, HearsReceives
    <2> QED
        BY <1>1, <1>2, <2>2 DEF PublishEvent, Clients
<1>11. DOMAIN esock' = EventSockets /\ DOMAIN heard' = EventSockets
    BY <1>1 DEF PublishEvent
<1>12. ASSUME NEW s \in EventSockets
       PROVE /\ esock'[s] \in EventSocket /\ heard'[s] \in Hearing
             /\ SocketTold(esock'[s], got[s], heard'[s], Append(events, event), m)
    <2>1. PICK socket \in EventSocket, sent \in Seq(Nat), hearing \in Hearing :
              socket = esock[s] /\ sent = got[s] /\ hearing = heard[s]
        BY DEF EventsInv
    <2>2. SocketTold(socket, sent, hearing, events, now)
        BY <2>1 DEF EventsInv
    <2>3. PICK socket2, hearing2 : socket2 = esock'[s] /\ hearing2 = heard'[s]
        OBVIOUS
    <2>4. /\ socket2 = (IF Hears(socket.principal, event) /\ socket.st \in {"open", "broken"}
                        THEN [socket EXCEPT !.outbox = Enqueue(@, m)] ELSE socket)
          /\ hearing2 = (IF /\ Hears(socket.principal, event) /\ socket.st \in {"open", "broken"}
                            /\ Len(socket.outbox) = MAX_PENDING_EVENTS
                         THEN [hearing EXCEPT !.full = @ \cup {m}] ELSE hearing)
        BY <1>10, <2>1, <2>3
    <2>5. Enqueue(socket.outbox, m) \in Seq(Nat)
        BY AppendProperties DEF Enqueue, EventSocket
    <2>6. socket2 \in EventSocket /\ socket2.st = socket.st
        BY <2>4, <2>5 DEF EventSocket
    <2>7. hearing2 \in Hearing
        BY <2>4 DEF Hearing
    <2>8. CASE socket.st = "open"
        <3>1. PICK k \in Nat : k = now
            BY <1>3
        <3>2. m = k + 1 /\ event.n = k + 1 /\ (\A e \in ToSet(events) : e.n <= k)
              /\ SocketTold(socket, sent, hearing, events, k)
            BY <1>2, <1>5, <1>8, <2>2, <3>1
        <3>3. SocketTold(
                 IF Hears(socket.principal, event) THEN [socket EXCEPT !.outbox = Enqueue(@, k + 1)] ELSE socket,
                 sent,
                 IF Hears(socket.principal, event) /\ Len(socket.outbox) = MAX_PENDING_EVENTS
                 THEN [hearing EXCEPT !.full = @ \cup {k + 1}] ELSE hearing,
                 Append(events, event), k + 1)
            BY <1>5, <3>2, ToldPublish
        <3>4. /\ socket2 = (IF Hears(socket.principal, event)
                            THEN [socket EXCEPT !.outbox = Enqueue(@, k + 1)] ELSE socket)
              /\ hearing2 = (IF Hears(socket.principal, event) /\ Len(socket.outbox) = MAX_PENDING_EVENTS
                             THEN [hearing EXCEPT !.full = @ \cup {k + 1}] ELSE hearing)
            BY <2>4, <2>8, <3>2
        <3>5. SocketTold(socket2, sent, hearing2, Append(events, event), m)
            BY <3>2, <3>3, <3>4
        <3> QED
            BY <2>1, <2>3, <2>6, <2>7, <3>5
    <2>9. CASE socket.st # "open"
        <3>1. SocketTold(socket2, sent, hearing2, Append(events, event), m)
            BY <2>6, <2>9 DEF SocketTold
        <3> QED
            BY <2>1, <2>3, <2>6, <2>7, <3>1
    <2> QED
        BY <2>8, <2>9
<1>13. esock' \in [EventSockets -> EventSocket] /\ heard' \in [EventSockets -> Hearing]
    <2>1. esock' = [s \in EventSockets |-> esock'[s]] /\ heard' = [s \in EventSockets |-> heard'[s]]
        BY <1>1, <1>11 DEF PublishEvent
    <2> QED
        BY <1>12, <2>1
<1>14. \A s \in EventSockets : SocketTold(esock'[s], got'[s], heard'[s], events', now')
    BY <1>2, <1>6, <1>12
<1> QED
    BY <1>2, <1>3, <1>6, <1>7, <1>9, <1>13, <1>14 DEF EventsInv

\* One socket changes, the others and what was published do not.
LEMMA EventsOne ==
    ASSUME EventsInv, NEW s \in EventSockets, UNCHANGED <<now, protected, events>>,
           NEW socket \in EventSocket, NEW sent \in Seq(Nat), NEW hearing \in Hearing,
           SocketTold(socket, sent, hearing, events, now),
           esock' = [esock EXCEPT ![s] = socket], got' = [got EXCEPT ![s] = sent],
           heard' = [heard EXCEPT ![s] = hearing]
    PROVE EventsInv'
<1>1. /\ esock' \in [EventSockets -> EventSocket] /\ got' \in [EventSockets -> Seq(Nat)]
      /\ heard' \in [EventSockets -> Hearing]
    BY DEF EventsInv
<1>2. \A x \in EventSockets : SocketTold(esock'[x], got'[x], heard'[x], events, now)
    <2> TAKE x \in EventSockets
    <2>1. CASE x = s
        <3>1. esock'[x] = socket /\ got'[x] = sent /\ heard'[x] = hearing
            BY <2>1 DEF EventsInv
        <3> QED
            BY <3>1
    <2>2. CASE x # s
        <3>1. esock'[x] = esock[x] /\ got'[x] = got[x] /\ heard'[x] = heard[x]
            BY <2>2 DEF EventsInv
        <3> QED
            BY <3>1 DEF EventsInv
    <2> QED
        BY <2>1, <2>2
<1> QED
    BY <1>1, <1>2 DEF EventsInv

LEMMA EventsSocket ==
    ASSUME EventsInv, SocketStep
    PROVE EventsInv'
<1>0. /\ UNCHANGED <<now, protected, events>> /\ now \in Nat
      /\ esock \in [EventSockets -> EventSocket] /\ got \in [EventSockets -> Seq(Nat)]
      /\ heard \in [EventSockets -> Hearing]
    BY DEF SocketStep, EventsInv
<1>1. ASSUME NEW s \in EventSockets, NEW p \in Principals, ConnectEvents(s, p) PROVE EventsInv'
    <2>1. PICK socket, sent, hearing :
              /\ socket = [st |-> "open", principal |-> p, outbox |-> <<0>>]
              /\ sent = <<>> /\ hearing = [since |-> now, full |-> {}]
        OBVIOUS
    <2>2. socket \in EventSocket /\ sent \in Seq(Nat) /\ hearing \in Hearing
        BY <1>0, <2>1 DEF EventSocket, Hearing
    <2>3. \A e \in ToSet(events) : e.n \in Nat /\ e.n <= now
        <3>1. \A e \in ToSet(events) : e \in Published /\ e.n <= now
            BY DEF EventsInv, ToSet
        <3> QED
            BY <3>1 DEF Published
    <2>4. SocketTold(socket, sent, hearing, events, now)
        BY <1>0, <2>1, <2>3, ToldConnect
    <2>5. /\ esock' = [esock EXCEPT ![s] = socket] /\ got' = [got EXCEPT ![s] = sent]
          /\ heard' = [heard EXCEPT ![s] = hearing]
        BY <1>1, <2>1 DEF ConnectEvents
    <2> QED
        BY <1>0, <2>2, <2>4, <2>5, EventsOne
<1>2. ASSUME NEW s \in EventSockets, SendLoop(s) PROVE EventsInv'
    <2>1. PICK socket, sent, hearing : socket = esock[s] /\ sent = got[s] /\ hearing = heard[s]
        OBVIOUS
    <2>2. /\ socket \in EventSocket /\ sent \in Seq(Nat) /\ hearing \in Hearing
          /\ SocketTold(socket, sent, hearing, events, now)
        BY <2>1 DEF EventsInv
    <2>3. socket.outbox # <<>>
        BY <1>2, <2>1 DEF SendLoop
    <2>4. PICK next, more : /\ next = [socket EXCEPT !.outbox = Tail(@)]
                            /\ more = Append(sent, Head(socket.outbox))
        OBVIOUS
    <2>5. socket.outbox \in Seq(Nat)
        BY <2>2 DEF EventSocket
    <2>6. next \in EventSocket /\ more \in Seq(Nat)
        <3>1. Tail(socket.outbox) \in Seq(Nat) /\ Head(socket.outbox) \in Nat
            BY <2>3, <2>5, HeadTailProperties
        <3>2. next \in EventSocket
            BY <2>2, <2>4, <3>1 DEF EventSocket
        <3> QED
            BY <2>2, <2>4, <3>1, <3>2, AppendProperties
    <2>7. SocketTold(next, more, hearing, events, now)
        BY <1>0, <2>2, <2>3, <2>4, ToldSend
    <2>8. /\ esock' = [esock EXCEPT ![s] = next] /\ got' = [got EXCEPT ![s] = more]
          /\ heard' = heard
        BY <1>2, <2>1, <2>4 DEF SendLoop
    <2>9. heard' = [heard EXCEPT ![s] = hearing]
        BY <1>0, <2>1, <2>8
    <2> QED
        BY <1>0, <2>2, <2>6, <2>7, <2>8, <2>9, EventsOne
<1>3. ASSUME NEW s \in EventSockets, SendFails(s) \/ StopSender(s) PROVE EventsInv'
    <2>1. PICK socket, sent, hearing : socket = esock'[s] /\ sent = got[s] /\ hearing = heard[s]
        OBVIOUS
    <2>2. socket \in EventSocket /\ socket.st # "open" /\ esock' = [esock EXCEPT ![s] = socket]
        <3>1. CASE SendFails(s)
            <4>1. PICK old \in EventSocket : old = esock[s]
                BY <1>0
            <4>2. old.outbox \in Seq(Nat) /\ old.outbox # <<>>
                BY <3>1, <4>1 DEF SendFails, EventSocket
            <4>3. Tail(old.outbox) \in Seq(Nat)
                BY <4>2, HeadTailProperties
            <4>4. esock' = [esock EXCEPT ![s] = [old EXCEPT !.outbox = Tail(@), !.st = "broken"]]
                BY <1>0, <3>1, <4>1 DEF SendFails
            <4>5. socket = [old EXCEPT !.outbox = Tail(@), !.st = "broken"]
                BY <1>0, <2>1, <4>4
            <4>6. socket \in EventSocket /\ socket.st = "broken"
                BY <4>3, <4>5 DEF EventSocket
            <4> QED
                BY <4>4, <4>5, <4>6
        <3>2. CASE StopSender(s)
            <4>1. esock' = [esock EXCEPT ![s] = Closed]
                BY <3>2 DEF StopSender
            <4>2. socket = Closed
                BY <1>0, <2>1, <4>1
            <4> QED
                BY <4>1, <4>2 DEF Closed, EventSocket, Principals
        <3> QED
            BY <1>3, <3>1, <3>2
    <2>3. sent \in Seq(Nat) /\ hearing \in Hearing
        BY <1>0, <2>1
    <2>4. SocketTold(socket, sent, hearing, events, now)
        BY <2>2 DEF SocketTold
    <2>5. got' = got /\ heard' = heard
        BY <1>3 DEF SendFails, StopSender
    <2>6. got' = [got EXCEPT ![s] = sent] /\ heard' = [heard EXCEPT ![s] = hearing]
        BY <1>0, <2>1, <2>5
    <2> QED
        BY <1>0, <2>2, <2>3, <2>4, <2>6, EventsOne
<1>4. ASSUME BroadcastDisconnect PROVE EventsInv'
    <2>1. esock' = [s \in EventSockets |-> Closed] /\ got' = got /\ heard' = heard
        BY <1>4 DEF BroadcastDisconnect
    <2>2. Closed \in EventSocket /\ Closed.st # "open"
        BY DEF Closed, EventSocket, Principals
    <2>3. esock' \in [EventSockets -> EventSocket]
        BY <2>1, <2>2
    <2>4. \A s \in EventSockets : SocketTold(esock'[s], got'[s], heard'[s], events', now')
        BY <2>1, <2>2 DEF SocketTold
    <2> QED
        BY <1>0, <2>1, <2>3, <2>4 DEF EventsInv
<1> QED
    BY <1>1, <1>2, <1>3, <1>4 DEF SocketStep

LEMMA EventsStep ==
    ASSUME EventsInv, [Next]_vars
    PROVE EventsInv'
<1>1. CASE Next
    BY <1>1, EventStepKinds, EventsQuiet, EventsPublish, EventsSocket
<1>2. CASE UNCHANGED vars
    <2>1. QuietStep
        BY <1>2 DEF vars, QuietStep, eventVars, EventsInv
    <2> QED
        BY <2>1, EventsQuiet
<1> QED
    BY <1>1, <1>2

\* publish, _receives, _enqueue and _send_loop: a connected event client is sent,
\* once and in order, exactly the events published since it connected that were
\* for it at that time, less those its full outbox had no room for - for every
\* number of clients and every bound of the outboxes, with the server becoming
\* protected, clients leaving and sends failing at any time.
THEOREM EventsReach == Spec => []EventsReachAudience
<1>1. Init => EventsInv
    BY EventsInit
<1>2. EventsInv /\ [Next]_vars => EventsInv'
    BY EventsStep
<1>3. EventsInv => EventsReachAudience
    BY EventsInvGives
<1> QED
    BY <1>1, <1>2, <1>3, PTL DEF Spec

-----------------------------------------------------------------------------
(* The histogram *)

LEMMA TimesOrder ==
    ASSUME NEW x \in Int, NEW y \in Int, NEW c \in Nat \ {0}
    PROVE x <= y <=> x * c <= y * c
OBVIOUS

LEMMA ImageCounts ==
    ASSUME NEW K, IsFiniteSet(K), NEW f, \A j, k \in K : f[j] = f[k] => j = k
    PROVE IsFiniteSet({f[k] : k \in K}) /\ Cardinality({f[k] : k \in K}) = Cardinality(K)
<1> DEFINE T == {f[k] : k \in K}
           g == [k \in K |-> f[k]]
<1>1. g \in [K -> T]
    OBVIOUS
<1>2. g \in Injection(K, T)
    BY <1>1 DEF Injection, IsInjective
<1>3. g \in Surjection(K, T)
    BY <1>1 DEF Surjection
<1>4. ExistsBijection(K, T)
    BY <1>2, <1>3 DEF ExistsBijection, Bijection
<1> HIDE DEF T, g
<1>5. IsFiniteSet(T) /\ Cardinality(T) = Cardinality(K)
    BY <1>4, FS_Bijection
<1> QED
    BY <1>5 DEF T

\* An entry well between two edges is found between them, however the division is
\* rounded, and one found between them is within the error of them.
LEMMA ColumnNear ==
    ASSUME NEW t \in Nat, NEW range, range[1] \in Nat, range[2] \in Nat, range[1] < range[2],
           NEW buckets \in Nat \ {0}, range[1] <= t, t < range[2],
           NEW c \in BucketIndexes(t, range, buckets),
           NEW i \in 0..(buckets - 1), NEW j \in 0..(buckets - 1), i <= j,
           NEW w, w = range[2] - range[1], NEW at, at = (t - range[1]) * buckets
    PROVE /\ (/\ i = 0 \/ i * w + Rounding <= at
              /\ j = buckets - 1 \/ at + Rounding < (j + 1) * w) => i <= c /\ c <= j
          /\ i <= c /\ c <= j =>
                /\ i * w <= at + Rounding
                /\ at < (j + 1) * w + Rounding
<1>1. /\ w \in Nat \ {0} /\ t - range[1] \in Nat /\ t - range[1] < w /\ Rounding \in Nat
      /\ i \in Nat /\ j \in Nat /\ i < buckets /\ j < buckets
    BY FeedsAssumption
<1>2. at \in Nat
    BY <1>1
<1>3. /\ c \in 0..(buckets - 1) /\ c \in Nat /\ c < buckets
      /\ c = 0 \/ c * w <= at + Rounding
      /\ c = buckets - 1 \/ at < (c + 1) * w + Rounding
    BY <1>1 DEF BucketIndexes
<1>4. at < buckets * w
    <2>1. PICK d \in Nat : d = t - range[1] /\ d < w
        BY <1>1
    <2>2. ~ (w <= d) /\ at = d * buckets
        BY <1>1, <2>1
    <2>3. ~ (w * buckets <= d * buckets)
        BY <1>1, <2>1, <2>2, TimesOrder
    <2>4. w * buckets = buckets * w /\ w * buckets \in Int /\ d * buckets \in Int
        BY <1>1, <2>1
    <2> QED
        BY <2>2, <2>3, <2>4
<1>5. /\ i * w \in Nat /\ (j + 1) * w \in Nat /\ c * w \in Nat /\ (c + 1) * w \in Nat
      /\ buckets * w \in Nat
    BY <1>1, <1>3
<1>6. /\ c + 1 <= i => (c + 1) * w <= i * w
      /\ j + 1 <= c => (j + 1) * w <= c * w
      /\ i <= c => i * w <= c * w
      /\ c <= j => (c + 1) * w <= (j + 1) * w
    BY <1>1, <1>3, TimesOrder
<1>7. ASSUME i = 0 \/ i * w + Rounding <= at, j = buckets - 1 \/ at + Rounding < (j + 1) * w
      PROVE i <= c /\ c <= j
    <2>1. i <= c
        BY <1>1, <1>2, <1>3, <1>5, <1>6, <1>7
    <2>2. c <= j
        BY <1>1, <1>2, <1>3, <1>5, <1>6, <1>7
    <2> QED
        BY <2>1, <2>2
<1>8. ASSUME i <= c, c <= j PROVE i * w <= at + Rounding /\ at < (j + 1) * w + Rounding
    <2>1. c = 0 => i * w = 0
        BY <1>1, <1>3, <1>8
    <2>2. c = buckets - 1 => (c + 1) * w = buckets * w
        BY <1>1, <1>3
    <2>3. i * w <= at + Rounding
        BY <1>1, <1>2, <1>3, <1>5, <1>6, <1>8, <2>1
    <2>4. at < (c + 1) * w + Rounding
        <3>1. PICK z \in Nat : z = (c + 1) * w
            BY <1>5
        <3>2. c = buckets - 1 => at < z
            BY <1>4, <2>2, <3>1
        <3>3. c = buckets - 1 \/ at < z + Rounding
            BY <1>3, <3>1
        <3>4. at < z + Rounding
            BY <1>1, <1>2, <3>2, <3>3
        <3> QED
            BY <3>1, <3>4
    <2> QED
        BY <1>1, <1>2, <1>5, <1>6, <1>8, <2>3, <2>4
<1> QED
    BY <1>7, <1>8

Logged == [n : Nat, level : LogLevels]
Timed(T) == \A e \in T : e.n \in Nat
\* A deque holds records in the order of their numbers, none from the future.
RingOK(ring, T, n) ==
    /\ Timed(T) /\ ring \in Seq(T)
    /\ \A i, j \in DOMAIN ring : i < j => ring[i].n < ring[j].n
    /\ \A i \in DOMAIN ring : ring[i].n <= n
RingInv == now \in Nat /\ RingOK(buffer, Logged, now)

LEMMA RingNumbers ==
    ASSUME NEW ring, NEW T, NEW n, RingOK(ring, T, n)
    PROVE /\ DOMAIN ring = 1..Len(ring) /\ Len(ring) \in Nat
          /\ \A i \in DOMAIN ring : ring[i].n \in Nat
<1>1. ring \in Seq(T)
    BY DEF RingOK
<1>2. DOMAIN ring = 1..Len(ring) /\ Len(ring) \in Nat
    BY <1>1
<1>3. \A i \in DOMAIN ring : ring[i] \in T
    BY <1>1
<1>4. \A i \in DOMAIN ring : ring[i].n \in Nat
    BY <1>3 DEF RingOK, Timed
<1> QED
    BY <1>2, <1>4

LEMMA RingPushed ==
    ASSUME NEW n \in Nat, NEW T, NEW ring, RingOK(ring, T, n), NEW item \in T, item.n = n + 1,
           NEW size \in Nat
    PROVE RingOK(Pushed(ring, item, size), T, n + 1)
<1> DEFINE all == Append(ring, item)
<1>1. /\ all \in Seq(T) /\ Len(all) = Len(ring) + 1 /\ all[Len(ring) + 1] = item
      /\ \A i \in 1..Len(ring) : all[i] = ring[i]
    BY AppendProperties DEF RingOK
<1>2. Len(ring) \in Nat /\ DOMAIN ring = 1..Len(ring) /\ DOMAIN all = 1..(Len(ring) + 1)
    BY <1>1 DEF RingOK
<1>3. \A i \in 1..Len(ring) : ring[i].n \in Nat /\ ring[i].n <= n
    BY <1>2, RingNumbers DEF RingOK
<1> HIDE DEF all
<1>4. RingOK(all, T, n + 1)
    <2>1. \A i \in DOMAIN all : all[i].n <= n + 1
        BY <1>1, <1>2, <1>3
    <2>2. ASSUME NEW i \in DOMAIN all, NEW j \in DOMAIN all, i < j PROVE all[i].n < all[j].n
        <3>1. i \in 1..Len(ring) /\ (j = Len(ring) + 1 \/ j \in 1..Len(ring))
            BY <1>2, <2>2
        <3>2. CASE j = Len(ring) + 1
            BY <1>1, <1>3, <3>1, <3>2
        <3>3. CASE j \in 1..Len(ring)
            BY <1>1, <1>2, <2>2, <3>1, <3>3 DEF RingOK
        <3> QED
            BY <3>1, <3>2, <3>3
    <2> QED
        BY <1>1, <2>1, <2>2 DEF RingOK
<1>5. RingOK(Tail(all), T, n + 1)
    <2> DEFINE rest == Tail(all)
    <2>1. all # <<>>
        BY <1>1, <1>2
    <2>2. rest \in Seq(T) /\ Len(rest) = Len(ring) /\ \A i \in 1..Len(rest) : rest[i] = all[i + 1]
        BY <1>1, <1>2, <2>1, HeadTailProperties
    <2>3. DOMAIN rest = 1..Len(ring)
        BY <2>2
    <2> HIDE DEF rest
    <2>4. \A i \in 1..Len(ring) : rest[i] = all[i + 1] /\ i + 1 \in DOMAIN all
        BY <1>2, <2>2
    <2>5. \A i \in DOMAIN rest : rest[i].n <= n + 1
        BY <1>4, <2>3, <2>4 DEF RingOK
    <2>6. ASSUME NEW i \in DOMAIN rest, NEW j \in DOMAIN rest, i < j PROVE rest[i].n < rest[j].n
        <3>1. i + 1 < j + 1
            BY <1>2, <2>3, <2>6
        <3> QED
            BY <1>4, <2>3, <2>4, <3>1 DEF RingOK
    <2>7. RingOK(rest, T, n + 1)
        BY <2>2, <2>5, <2>6 DEF RingOK
    <2> QED
        BY <2>7 DEF rest
<1> QED
    BY <1>4, <1>5 DEF Pushed, all

\* Every step leaves the ring buffer alone or pushes one record onto it.
LEMMA RingStepKinds ==
    ASSUME now \in Nat, Next
    PROVE \/ (now' = now \/ now' = now + 1) /\ buffer' = buffer
          \/ \E level \in LogLevels :
                now' = now + 1 /\ buffer' = Pushed(buffer, [n |-> now + 1, level |-> level], MaxSize)
<1> USE DEF logVars
<1>1. CASE NextEventSocket
    BY <1>1 DEF NextEventSocket, ConnectEvents, SendLoop, SendFails, StopSender, Mount, BroadcastDisconnect
<1>2. CASE NextLogSocket
    BY <1>2 DEF NextLogSocket, ConnectLogs, LeaveLogs, SafeSend, SafeSendFails, BroadcastDisconnect
<1>3. CASE NextReader
    BY <1>3 DEF NextReader, ReadFirst, ReadNext
<1>4. CASE NextEvent
    BY <1>4 DEF NextEvent, Publish
<1>5. CASE NextLog
    BY <1>5 DEF NextLog, Emit, EmitSensitive
<1>6. CASE NextAudit
    BY <1>6 DEF NextAudit, Record, ClearEntries, Prune
<1> QED
    BY <1>1, <1>2, <1>3, <1>4, <1>5, <1>6 DEF Next

LEMMA RingStep ==
    ASSUME RingInv, [Next]_vars
    PROVE RingInv'
<1>0. now \in Nat /\ RingOK(buffer, Logged, now)
    BY DEF RingInv
<1>1. CASE (now' = now \/ now' = now + 1) /\ buffer' = buffer
    <2>1. \A i \in DOMAIN buffer : buffer[i].n \in Nat
        BY <1>0, RingNumbers
    <2>2. now' \in Nat /\ now <= now'
        BY <1>0, <1>1
    <2>3. \A i \in DOMAIN buffer : buffer[i].n <= now'
        BY <1>0, <2>1, <2>2 DEF RingOK
    <2>4. RingOK(buffer, Logged, now')
        BY <1>0, <2>3 DEF RingOK
    <2> QED
        BY <1>1, <2>2, <2>4 DEF RingInv
<1>2. ASSUME NEW level \in LogLevels, now' = now + 1,
             buffer' = Pushed(buffer, [n |-> now + 1, level |-> level], MaxSize)
      PROVE RingInv'
    <2>1. PICK m, ring, item : m = now /\ ring = buffer /\ item = [n |-> now + 1, level |-> level]
        BY <1>0
    <2>2. m \in Nat /\ item \in Logged /\ item.n = m + 1 /\ MaxSize \in Nat /\ RingOK(ring, Logged, m)
        BY <1>0, <2>1, FeedsAssumption DEF Logged
    <2>3. RingOK(Pushed(ring, item, MaxSize), Logged, m + 1)
        BY <2>2, RingPushed
    <2> QED
        BY <1>0, <1>2, <2>1, <2>3 DEF RingInv
<1>3. CASE UNCHANGED vars
    BY <1>1, <1>3 DEF vars
<1> QED
    BY <1>0, <1>1, <1>2, <1>3, RingStepKinds

LEMMA RingCounts ==
    RingInv => HistogramCounts
<1> SUFFICES ASSUME RingInv,
                    NEW range \in Ranges, NEW buckets \in Buckets,
                    NEW column \in Roundings[range][buckets],
                    NEW level \in {"DEBUG", "INFO", "WARN", "ERROR"},
                    NEW i \in 0..(buckets - 1), NEW j \in {i, i + 1} \cap 0..(buckets - 1)
             PROVE LET counts == Histogram(range, buckets, column)
                       width == range[2] - range[1]
                       at(e) == (e.n - range[1]) * buckets
                       asked == {e \in ToSet(buffer) : /\ HistogramLevel(e.level) = level
                                                       /\ range[1] <= e.n /\ e.n < range[2]}
                       both == counts[i][level] + IF i = j THEN 0 ELSE counts[j][level]
                   IN  /\ both >= Cardinality({e \in asked :
                             /\ i = 0 \/ i * width + Rounding <= at(e)
                             /\ j = buckets - 1 \/ at(e) + Rounding < (j + 1) * width})
                       /\ both <= Cardinality({e \in asked :
                             /\ i * width <= at(e) + Rounding
                             /\ at(e) < (j + 1) * width + Rounding})
    BY DEF HistogramCounts
<1> DEFINE asked == {e \in ToSet(buffer) : /\ HistogramLevel(e.level) = level
                                           /\ range[1] <= e.n /\ e.n < range[2]}
           Inner == {e \in asked :
                /\ i = 0 \/ i * (range[2] - range[1]) + Rounding <= (e.n - range[1]) * buckets
                /\ j = buckets - 1 \/ (e.n - range[1]) * buckets + Rounding < (j + 1) * (range[2] - range[1])}
           Outer == {e \in asked :
                /\ i * (range[2] - range[1]) <= (e.n - range[1]) * buckets + Rounding
                /\ (e.n - range[1]) * buckets < (j + 1) * (range[2] - range[1]) + Rounding}
           In(c) == {k \in DOMAIN buffer : /\ HistogramLevel(buffer[k].level) = level
                                           /\ InRange(buffer[k].n, range)
                                           /\ column[buffer[k].n] = c}
           both == Histogram(range, buckets, column)[i][level]
                       + IF i = j THEN 0 ELSE Histogram(range, buckets, column)[j][level]
<1>1. /\ range[1] \in Nat /\ range[2] \in Nat /\ range[1] < range[2] /\ buckets \in Nat \ {0}
      /\ i \in Nat /\ j \in Nat /\ i <= j /\ j <= i + 1 /\ j \in 0..(buckets - 1)
    BY FeedsAssumption
<1>2. /\ DOMAIN buffer = 1..Len(buffer) /\ Len(buffer) \in Nat
      /\ \A k \in DOMAIN buffer : buffer[k].n \in Nat
    BY RingNumbers DEF RingInv
<1>3. \A c \in 0..(buckets - 1) : Histogram(range, buckets, column)[c][level] = Cardinality(In(c))
    BY DEF Histogram
<1>4. PICK K : K = In(i) \cup In(j)
    OBVIOUS
<1>5. IsFiniteSet(DOMAIN buffer)
    BY <1>2, FS_Interval
<1>6. In(i) \subseteq DOMAIN buffer /\ In(j) \subseteq DOMAIN buffer /\ K \subseteq DOMAIN buffer
    BY <1>4
<1>7. IsFiniteSet(In(i)) /\ IsFiniteSet(In(j)) /\ IsFiniteSet(K)
    <2> HIDE DEF In
    <2> QED
        BY <1>5, <1>6, FS_Subset
<1>8. both = Cardinality(K)
    <2>1. both = Cardinality(In(i)) + IF i = j THEN 0 ELSE Cardinality(In(j))
        BY <1>1, <1>3
    <2>2. i # j => In(i) \cap In(j) = {}
        OBVIOUS
    <2> HIDE DEF In, both
    <2>3. Cardinality(In(i)) \in Nat /\ Cardinality(In(j)) \in Nat
        BY <1>7, FS_CardinalityType
    <2>4. CASE i = j
        BY <1>4, <2>1, <2>3, <2>4
    <2>5. CASE i # j
        <3>1. Cardinality(In(i) \cup In(j)) =
              Cardinality(In(i)) + Cardinality(In(j)) - Cardinality(In(i) \cap In(j))
            BY <1>7, FS_Union
        <3>2. Cardinality(In(i) \cap In(j)) = 0
            BY <2>2, <2>5, FS_EmptySet
        <3> QED
            BY <1>4, <2>1, <2>3, <2>5, <3>1, <3>2
    <2> QED
        BY <2>4, <2>5
<1>9. PICK Image : Image = {buffer[k] : k \in K}
    OBVIOUS
<1>10. /\ Cardinality(Image) = Cardinality(K) /\ IsFiniteSet(Image)
       /\ IsFiniteSet({buffer[k] : k \in DOMAIN buffer})
    <2>1. ASSUME NEW a \in DOMAIN buffer, NEW b \in DOMAIN buffer, a # b PROVE buffer[a] # buffer[b]
        <3>1. (a < b \/ b < a) /\ buffer[a].n \in Nat /\ buffer[b].n \in Nat
            BY <1>2, <2>1
        <3>2. buffer[a].n # buffer[b].n
            BY <3>1 DEF RingInv, RingOK
        <3> QED
            BY <3>2
    <2>2. \A a, b \in K : buffer[a] = buffer[b] => a = b
        BY <1>6, <2>1
    <2> QED
        BY <1>5, <1>7, <1>9, <2>1, <2>2, ImageCounts
<1>11. ASSUME NEW k \in DOMAIN buffer, buffer[k] \in asked
       PROVE /\ buffer[k] \in Inner => k \in K
             /\ k \in K => buffer[k] \in Outer
    <2>1. PICK t \in Nat : t = buffer[k].n
        BY <1>2
    <2>2. range[1] <= t /\ t < range[2]
        BY <1>11, <2>1
    <2>3. t \in range[1]..range[2]
        BY <1>1, <2>2
    <2>4. column[t] \in BucketIndexes(t, range, buckets)
        BY <2>3 DEF Roundings
    <2>5. PICK c \in BucketIndexes(t, range, buckets) : c = column[t]
        BY <2>4
    <2>6. c \in Nat /\ (i <= c /\ c <= j <=> c = i \/ c = j)
        BY <1>1 DEF BucketIndexes
    <2>7. k \in K <=> c = i \/ c = j
        BY <1>4, <1>11, <2>1, <2>2, <2>5 DEF InRange
    <2>8. PICK w, at : w = range[2] - range[1] /\ at = (t - range[1]) * buckets
        OBVIOUS
    <2>9. /\ (/\ i = 0 \/ i * w + Rounding <= at
              /\ j = buckets - 1 \/ at + Rounding < (j + 1) * w) => i <= c /\ c <= j
          /\ i <= c /\ c <= j =>
                /\ i * w <= at + Rounding
                /\ at < (j + 1) * w + Rounding
        BY <1>1, <2>2, <2>8, ColumnNear
    <2> QED
        BY <1>11, <2>1, <2>6, <2>7, <2>8, <2>9
<1>12. ASSUME NEW k \in K PROVE buffer[k] \in asked
    BY <1>4, <1>6, <1>12 DEF ToSet, InRange
<1>13. Inner \subseteq Image /\ Image \subseteq Outer
    <2>1. \A e \in Inner : e \in asked /\ \E k \in DOMAIN buffer : e = buffer[k]
        BY DEF ToSet
    <2> HIDE DEF asked, Inner, Outer
    <2> QED
        BY <1>6, <1>9, <1>11, <1>12, <2>1
<1>14. IsFiniteSet(Outer) /\ Cardinality(Image) <= Cardinality(Outer)
    <2>2. Outer \subseteq {buffer[k] : k \in DOMAIN buffer}
        BY DEF ToSet
    <2> HIDE DEF Outer
    <2>3. IsFiniteSet(Outer)
        BY <1>10, <2>2, FS_Subset
    <2> QED
        BY <1>13, <2>3, FS_Subset
<1>15. Cardinality(Inner) <= Cardinality(Image)
    <2> HIDE DEF Inner
    <2> QED
        BY <1>10, <1>13, FS_Subset
<1>16. both \in Nat /\ Cardinality(Inner) \in Nat
    <2> HIDE DEF Inner, both
    <2>1. IsFiniteSet(Inner)
        BY <1>10, <1>13, FS_Subset
    <2> QED
        BY <1>7, <1>8, <2>1, FS_CardinalityType
<1>17. both >= Cardinality(Inner) /\ both <= Cardinality(Outer)
    <2> HIDE DEF Inner, Outer, both
    <2> QED
        BY <1>8, <1>10, <1>14, <1>15, <1>16
<1> QED
    BY <1>17

\* LogRingBuffer.histogram, for every size of the buffer, every range, every number
\* of columns and every error of the float division: each buffered entry of the
\* range is counted once, in the column whose share of the range it was logged in
\* or, within the error of an edge, on the other side of it, and no other is.
THEOREM HistogramIsExact == Spec => []HistogramCounts
<1>1. Init => RingInv
    BY DEF Init, RingInv, RingOK, Timed, Logged
<1>2. RingInv /\ [Next]_vars => RingInv'
    BY RingStep
<1>3. RingInv => HistogramCounts
    BY RingCounts
<1> QED
    BY <1>1, <1>2, <1>3, PTL DEF Spec

-----------------------------------------------------------------------------
(* The audit log *)

Entry == [n : Nat, kind : {"login_failed", "user_changed", "audit_cleared"}]
Others(S) == {e \in S : e.kind # "login_failed"}

\* The two deques and all that has been recorded until now: no two entries have
\* the same number.
LogOK(log, fails, all, n) ==
    /\ all \subseteq Entry /\ IsFiniteSet(all)
    /\ \A e \in all : e.n <= n
    /\ \A e, f \in all : e.n = f.n => e = f
    /\ RingOK(log, Entry, n) /\ RingOK(fails, Entry, n)
    /\ ToSet(log) \subseteq Others(all)
    /\ ToSet(fails) \subseteq all \ Others(all)

\* The first deque holds the newest of the others: all of them, or as many as it may.
NewestOK(log, fails, all) ==
    /\ \A e \in ToSet(log), f \in Others(all) \ ToSet(log) : f.n < e.n
    /\ Len(log) <= MAX_ENTRIES /\ Len(fails) <= MAX_FAILED_LOGIN_ENTRIES
    /\ ToSet(log) = Others(all) \/ Len(log) = MAX_ENTRIES

AuditInv ==
    /\ now \in Nat
    /\ LogOK(entries, failed, recorded, now)
    /\ NewestOK(entries, failed, recorded)

\* An entry that was there when the reader began, and still is, has been read or
\* comes after what has been read.
PagesOK(S, r, n) ==
    /\ r = [log |-> r.log, level |-> r.level, offset |-> r.offset,
            seen |-> r.seen, start |-> r.start, more |-> r.more]
    /\ r.offset \in Nat
    /\ r.log = "audit" =>
        /\ r.seen \in Seq(Nat) /\ \A k \in r.start : k \in 0..n
        /\ \A e \in S : e.n \in r.start =>
              \/ e.n \in ToSet(r.seen)
              \/ r.more /\ Place(S, e) > r.offset
PagesInv == PagesOK(Stored, reader, now)

\* A finite set is listed by giving each member a place of its own.
LEMMA Ranked ==
    ASSUME NEW S, IsFiniteSet(S), NEW rank \in [S -> 1..Cardinality(S)],
           \A x, y \in S : rank[x] = rank[y] => x = y
    PROVE \A i \in 1..Cardinality(S) : \E x \in S : rank[x] = i
<1> DEFINE n == Cardinality(S)
<1>1. n \in Nat
    BY FS_CardinalityType
<1>2. IsFiniteSet(1..n) /\ Cardinality(1..n) = n
    BY <1>1, FS_Interval
<1>3. rank \in Injection(S, 1..n)
    BY DEF Injection, IsInjective
<1>4. rank \in Surjection(S, 1..n)
    BY <1>2, <1>3, FS_Injection
<1> QED
    BY <1>4 DEF Surjection

\* A part of a finite set that has not all of it has fewer members.
LEMMA Fewer ==
    ASSUME NEW A, NEW B, IsFiniteSet(B), A \subseteq B, NEW z \in B, z \notin A
    PROVE Cardinality(A) \in Nat /\ Cardinality(B) \in Nat /\ Cardinality(A) < Cardinality(B)
<1>1. IsFiniteSet(A) /\ Cardinality(A) <= Cardinality(B) /\ (Cardinality(A) = Cardinality(B) => A = B)
    BY FS_Subset
<1>2. Cardinality(A) \in Nat /\ Cardinality(B) \in Nat
    BY <1>1, FS_CardinalityType
<1> QED
    BY <1>1, <1>2

\* The place of a position among those that stay grows with it.
LEMMA PositionRanks ==
    ASSUME NEW S \in SUBSET Nat, IsFiniteSet(S)
    PROVE /\ \A x \in S : Cardinality({j \in S : j <= x}) \in 1..Cardinality(S)
          /\ \A x, y \in S : x < y => Cardinality({j \in S : j <= x}) < Cardinality({j \in S : j <= y})
<1> DEFINE Below(x) == {j \in S : j <= x}
<1>1. ASSUME NEW x \in S PROVE IsFiniteSet(Below(x)) /\ Cardinality(Below(x)) \in 1..Cardinality(S)
    <2>1. IsFiniteSet(Below(x)) /\ Cardinality(Below(x)) <= Cardinality(S)
        BY FS_Subset
    <2>2. x \in Below(x)
        OBVIOUS
    <2>3. Cardinality(Below(x)) \in Nat /\ Cardinality(Below(x)) # 0 /\ Cardinality(S) \in Nat
        BY <2>1, <2>2, FS_CardinalityType, FS_EmptySet
    <2> QED
        BY <2>1, <2>3
<1>2. ASSUME NEW x \in S, NEW y \in S, x < y PROVE Cardinality(Below(x)) < Cardinality(Below(y))
    <2>1. \A z \in S : z <= x => z <= y
        BY <1>2
    <2>2. ~(y <= x) /\ y <= y
        BY <1>2
    <2>3. Below(x) \subseteq Below(y) /\ y \in Below(y) /\ y \notin Below(x)
        BY <2>1, <2>2
    <2>4. IsFiniteSet(Below(y))
        BY <1>1
    <2> HIDE DEF Below
    <2> QED
        BY <2>3, <2>4, Fewer
<1> QED
    BY <1>1, <1>2

\* prune leaves a deque in order, without the entries before the time, and
\* as long as it was when there are none.
LEMMA KeptRing ==
    ASSUME NEW n \in Nat, NEW T, NEW ring, RingOK(ring, T, n), NEW before \in Nat
    PROVE /\ RingOK(Kept(ring, before), T, n)
          /\ ToSet(Kept(ring, before)) = {e \in ToSet(ring) : e.n >= before}
          /\ Len(Kept(ring, before)) \in Nat /\ Len(ring) \in Nat
          /\ Len(Kept(ring, before)) <= Len(ring)
          /\ (\A e \in ToSet(ring) : e.n >= before) => Len(Kept(ring, before)) = Len(ring)
<1> DEFINE K == {k \in DOMAIN ring : ring[k].n >= before}
           place(k) == Cardinality({j \in K : j <= k})
           nth(i) == CHOOSE k \in K : place(k) = i
           new == [i \in 1..Cardinality(K) |-> ring[nth(i)]]
<1>1. Kept(ring, before) = new
    BY DEF Kept
<1>2. DOMAIN ring = 1..Len(ring) /\ Len(ring) \in Nat /\ ring \in Seq(T)
    BY RingNumbers DEF RingOK
<1>3. IsFiniteSet(1..Len(ring)) /\ Cardinality(1..Len(ring)) = Len(ring)
    <2>1. PICK m \in Nat : m = Len(ring)
        BY <1>2
    <2>2. IsFiniteSet(1..m) /\ Cardinality(1..m) = m
        BY FS_Interval
    <2> QED
        BY <2>1, <2>2
<1>4. K \in SUBSET (1..Len(ring)) /\ K \in SUBSET Nat
    BY <1>2
<1>5. IsFiniteSet(K) /\ Cardinality(K) \in Nat /\ Cardinality(K) <= Len(ring)
    BY <1>3, <1>4, FS_Subset, FS_CardinalityType
<1>6. (\A e \in ToSet(ring) : e.n >= before) => K = 1..Len(ring)
    <2>1. \A k \in DOMAIN ring : ring[k] \in ToSet(ring)
        BY DEF ToSet
    <2> QED
        BY <1>2, <2>1
<1>k. \A k \in K : k \in DOMAIN ring /\ ring[k].n >= before
    OBVIOUS
<1>l. \A k \in DOMAIN ring : ring[k].n >= before => k \in K
    OBVIOUS
<1> HIDE DEF K
<1>7. /\ \A k \in K : place(k) \in 1..Cardinality(K)
      /\ \A j, k \in K : j < k => place(j) < place(k)
    BY <1>4, <1>5, PositionRanks
<1> HIDE DEF place
<1>8. \A j, k \in K : place(j) = place(k) => j = k
    <2> SUFFICES ASSUME NEW j \in K, NEW k \in K, j # k PROVE place(j) # place(k)
        OBVIOUS
    <2>1. j < k \/ k < j
        BY <1>4
    <2>2. place(j) \in Nat /\ place(k) \in Nat
        BY <1>5, <1>7
    <2> QED
        BY <1>7, <2>1, <2>2
<1>9. \A i \in 1..Cardinality(K) : \E k \in K : place(k) = i
    <2>1. PICK rank : rank = [k \in K |-> place(k)]
        OBVIOUS
    <2>2. rank \in [K -> 1..Cardinality(K)] /\ \A j, k \in K : rank[j] = rank[k] => j = k
        BY <1>7, <1>8, <2>1
    <2>3. \A i \in 1..Cardinality(K) : \E k \in K : rank[k] = i
        BY <1>5, <2>2, Ranked
    <2> QED
        BY <2>1, <2>3
<1>10. \A i \in 1..Cardinality(K) : nth(i) \in K /\ place(nth(i)) = i
    BY <1>9
<1>11. \A k \in K : nth(place(k)) = k
    BY <1>7, <1>8, <1>10
<1> HIDE DEF nth
<1>12. new \in Seq(T) /\ Len(new) = Cardinality(K) /\ DOMAIN new = 1..Cardinality(K)
    <2>0. \A k \in DOMAIN ring : ring[k] \in T
        BY <1>2
    <2>1. \A i \in 1..Cardinality(K) : ring[nth(i)] \in T
        BY <1>10, <1>k, <2>0
    <2>2. new \in [1..Cardinality(K) -> T]
        BY <2>1
    <2> HIDE DEF new
    <2> QED
        BY <1>5, <2>2
<1>13. \A i \in 1..Cardinality(K) : new[i] = ring[nth(i)]
    OBVIOUS
<1> HIDE DEF new
<1>14. ASSUME NEW i \in 1..Cardinality(K), NEW j \in 1..Cardinality(K), i < j PROVE new[i].n < new[j].n
    <2>1. nth(i) \in K /\ nth(j) \in K /\ nth(i) \in Nat /\ nth(j) \in Nat
        BY <1>4, <1>10
    <2>2. ~(nth(j) < nth(i)) /\ nth(j) # nth(i)
        <3>1. place(nth(i)) = i /\ place(nth(j)) = j
            BY <1>10
        <3>2. ~(j < i) /\ i # j
            BY <1>5, <1>14
        <3> QED
            BY <1>7, <2>1, <3>1, <3>2
    <2>3. nth(i) < nth(j)
        BY <2>1, <2>2
    <2> QED
        BY <1>13, <1>k, <2>1, <2>3 DEF RingOK
<1>15. \A i \in 1..Cardinality(K) : new[i].n <= n
    BY <1>10, <1>13, <1>k DEF RingOK
<1>16. RingOK(new, T, n)
    BY <1>12, <1>14, <1>15 DEF RingOK
<1>17. ToSet(new) = {e \in ToSet(ring) : e.n >= before}
    <2>1. ASSUME NEW i \in 1..Cardinality(K) PROVE new[i] \in ToSet(ring) /\ new[i].n >= before
        BY <1>10, <1>13, <1>k DEF ToSet
    <2>2. ASSUME NEW k \in DOMAIN ring, ring[k].n >= before
          PROVE \E i \in 1..Cardinality(K) : new[i] = ring[k]
        BY <1>7, <1>11, <1>13, <1>l, <2>2
    <2>3. ToSet(new) = {new[i] : i \in 1..Cardinality(K)}
        BY <1>12 DEF ToSet
    <2>4. ToSet(ring) = {ring[k] : k \in DOMAIN ring}
        BY DEF ToSet
    <2> QED
        BY <2>1, <2>2, <2>3, <2>4
<1> QED
    BY <1>1, <1>2, <1>3, <1>5, <1>6, <1>12, <1>16, <1>17

LEMMA EntryTimed == Timed(Entry)
BY DEF Timed, Entry

LEMMA RingLater ==
    ASSUME NEW n \in Nat, NEW T, NEW ring, RingOK(ring, T, n)
    PROVE RingOK(ring, T, n + 1)
<1>1. \A i \in DOMAIN ring : ring[i].n \in Nat /\ ring[i].n <= n
    BY RingNumbers DEF RingOK
<1> QED
    BY <1>1 DEF RingOK

\* What pushing an item onto a deque does to what it holds: the deque
\* has room, or drops its oldest item.
LEMMA PushedHolds ==
    ASSUME NEW n \in Nat, NEW T, NEW ring, RingOK(ring, T, n), NEW item \in T,
           NEW size \in Nat \ {0}, Len(ring) <= size
    PROVE \/ /\ Len(ring) < size /\ Len(Pushed(ring, item, size)) = Len(ring) + 1
             /\ ToSet(Pushed(ring, item, size)) = ToSet(ring) \cup {item}
          \/ /\ Len(ring) = size /\ Len(Pushed(ring, item, size)) = size
             /\ \E d \in ToSet(ring) :
                   /\ \A e \in ToSet(ring) \ {d} : d.n < e.n
                   /\ ToSet(Pushed(ring, item, size)) = (ToSet(ring) \ {d}) \cup {item}
<1> DEFINE all == Append(ring, item)
<1>1. ring \in Seq(T) /\ DOMAIN ring = 1..Len(ring) /\ Len(ring) \in Nat
    BY RingNumbers DEF RingOK
<1>l. PICK m \in Nat : m = Len(ring)
    BY <1>1
<1>c. Len(ring) < size \/ Len(ring) = size
    BY <1>l
<1>2. /\ all \in Seq(T) /\ Len(all) = Len(ring) + 1 /\ all[Len(ring) + 1] = item
      /\ \A i \in 1..Len(ring) : all[i] = ring[i]
    BY <1>1, AppendProperties
<1>3. DOMAIN all = 1..(Len(ring) + 1)
    BY <1>2
<1>4. ToSet(ring) = {ring[i] : i \in 1..Len(ring)}
    BY <1>1 DEF ToSet
<1> HIDE DEF all
<1>5. CASE Len(ring) < size
    <2>0. ~(Len(all) > size)
        BY <1>2, <1>5, <1>l
    <2>1. Pushed(ring, item, size) = all
        BY <2>0 DEF Pushed, all
    <2>2. ToSet(all) = ToSet(ring) \cup {item}
        <3>1. \A i \in 1..(Len(ring) + 1) : all[i] = item \/ all[i] \in ToSet(ring)
            BY <1>1, <1>2, <1>4
        <3>2. \A x \in ToSet(ring) : \E i \in 1..(Len(ring) + 1) : all[i] = x
            BY <1>1, <1>2, <1>4
        <3>3. Len(ring) + 1 \in 1..(Len(ring) + 1)
            BY <1>1
        <3>4. ToSet(all) = {all[i] : i \in 1..(Len(ring) + 1)}
            BY <1>3 DEF ToSet
        <3> QED
            BY <1>2, <3>1, <3>2, <3>3, <3>4
    <2> QED
        BY <1>2, <1>5, <2>1, <2>2
<1>6. CASE Len(ring) = size
    <2> DEFINE rest == Tail(all)
               d == ring[1]
    <2>1. Pushed(ring, item, size) = rest
        BY <1>1, <1>2, <1>6 DEF Pushed, all
    <2>2. all # <<>>
        BY <1>1, <1>2
    <2>3. rest \in Seq(T) /\ Len(rest) = Len(ring) /\ \A i \in 1..Len(rest) : rest[i] = all[i + 1]
        BY <1>1, <1>2, <2>2, HeadTailProperties
    <2>4. 1 \in 1..Len(ring) /\ d \in ToSet(ring)
        BY <1>1, <1>4, <1>6
    <2> HIDE DEF rest
    <2>5. DOMAIN rest = 1..Len(ring)
        BY <2>3
    <2>6. \A i \in 2..Len(ring) : i \in DOMAIN ring /\ 1 \in DOMAIN ring /\ 1 < i
        BY <1>1, <2>4
    <2>7. \A i \in 1..Len(ring) : ring[i].n \in Nat
        BY <1>1, RingNumbers
    <2>8. \A i \in 2..Len(ring) : d.n < ring[i].n
        BY <2>6 DEF RingOK
    <2>9. \A i \in 2..Len(ring) : ring[i] # d
        BY <1>1, <2>4, <2>7, <2>8
    <2>10. ToSet(ring) \ {d} = {ring[i] : i \in 2..Len(ring)}
        <3>1. \A i \in 1..Len(ring) : i = 1 \/ i \in 2..Len(ring)
            BY <1>1
        <3>2. \A i \in 2..Len(ring) : i \in 1..Len(ring)
            BY <1>1
        <3> QED
            BY <1>4, <2>9, <3>1, <3>2
    <2>11. ToSet(rest) = (ToSet(ring) \ {d}) \cup {item}
        <3>0. \A i \in 1..m : i = m \/ (i + 1 \in 2..m /\ i + 1 \in 1..m)
            OBVIOUS
        <3>1. \A i \in 1..Len(ring) : rest[i] = IF i = Len(ring) THEN item ELSE ring[i + 1]
            BY <1>2, <1>l, <2>3, <3>0
        <3>2. \A i \in 1..Len(ring) : i = Len(ring) \/ i + 1 \in 2..Len(ring)
            BY <1>l, <3>0
        <3>3. \A i \in 2..Len(ring) : i - 1 \in 1..Len(ring) /\ i - 1 # Len(ring) /\ (i - 1) + 1 = i
            BY <1>1
        <3>4. Len(ring) \in 1..Len(ring)
            BY <1>1, <1>6
        <3>5. ToSet(rest) = {rest[i] : i \in 1..Len(ring)}
            BY <2>5 DEF ToSet
        <3>6. \A i \in 2..Len(ring) : \E j \in 1..Len(ring) : rest[j] = ring[i]
            BY <3>1, <3>3
        <3>7. \A i \in 1..Len(ring) : rest[i] = item \/ \E j \in 2..Len(ring) : rest[i] = ring[j]
            BY <3>1, <3>2
        <3> HIDE DEF d
        <3> QED
            BY <2>10, <3>1, <3>4, <3>5, <3>6, <3>7
    <2>12. \A e \in ToSet(ring) \ {d} : d.n < e.n
        BY <2>8, <2>10
    <2> HIDE DEF d
    <2> QED
        BY <1>6, <2>1, <2>3, <2>4, <2>11, <2>12
<1> QED
    BY <1>c, <1>5, <1>6

\* The numbers of what a deque holds.
LEMMA HeldNumbers ==
    ASSUME NEW n \in Nat, NEW ring, RingOK(ring, Entry, n)
    PROVE \A e \in ToSet(ring) : e \in Entry /\ e.n \in Nat /\ e.n <= n
<1>1. ring \in Seq(Entry)
    BY DEF RingOK
<1>2. \A i \in DOMAIN ring : ring[i] \in Entry
    BY <1>1
<1>3. \A i \in DOMAIN ring : ring[i].n \in Nat /\ ring[i].n <= n
    BY RingNumbers DEF RingOK
<1> QED
    BY <1>2, <1>3 DEF ToSet

\* A number that is new belongs to one entry.
LEMMA RecordedGrows ==
    ASSUME NEW n \in Nat, NEW log, NEW fails, NEW all, LogOK(log, fails, all, n),
           NEW item \in Entry, item.n = n + 1
    PROVE /\ all \cup {item} \subseteq Entry /\ IsFiniteSet(all \cup {item})
          /\ \A e \in all \cup {item} : e.n <= n + 1
          /\ \A e, f \in all \cup {item} : e.n = f.n => e = f
          /\ \A e \in all : e.n < item.n
<1>1. /\ all \subseteq Entry /\ IsFiniteSet(all)
      /\ \A e \in all : e.n <= n
      /\ \A e, f \in all : e.n = f.n => e = f
    BY DEF LogOK
<1>2. \A e \in all : e.n \in Nat /\ e.n < item.n /\ e.n <= n + 1
    <2>1. \A e \in all : e.n \in Nat
        BY <1>1, EntryTimed DEF Timed
    <2> QED
        BY <1>1, <2>1
<1>3. IsFiniteSet(all \cup {item})
    BY <1>1, FS_AddElement
<1>4. \A e \in all : e.n # item.n
    BY <1>2
<1>5. item.n <= n + 1
    OBVIOUS
<1> QED
    BY <1>1, <1>2, <1>3, <1>4, <1>5

\* InMemoryAuditStore.log, for an entry that is not a failed sign-in.
LEMMA OtherLogged ==
    ASSUME NEW n \in Nat, NEW log, NEW fails, NEW all, LogOK(log, fails, all, n), NewestOK(log, fails, all),
           NEW item \in Entry, item.n = n + 1, item.kind # "login_failed"
    PROVE /\ LogOK(Pushed(log, item, MAX_ENTRIES), fails, all \cup {item}, n + 1)
          /\ NewestOK(Pushed(log, item, MAX_ENTRIES), fails, all \cup {item})
<1> DEFINE new == Pushed(log, item, MAX_ENTRIES)
           more == all \cup {item}
<1>1. MAX_ENTRIES \in Nat \ {0} /\ MAX_ENTRIES \in Nat
    BY FeedsAssumption
<1>2. RingOK(log, Entry, n) /\ RingOK(fails, Entry, n) /\ Len(log) <= MAX_ENTRIES
    BY DEF LogOK, NewestOK
<1>3. RingOK(new, Entry, n + 1) /\ RingOK(fails, Entry, n + 1)
    BY <1>1, <1>2, RingPushed, RingLater
<1>4. \/ /\ Len(log) < MAX_ENTRIES /\ Len(new) = Len(log) + 1
         /\ ToSet(new) = ToSet(log) \cup {item}
      \/ /\ Len(log) = MAX_ENTRIES /\ Len(new) = MAX_ENTRIES
         /\ \E d \in ToSet(log) :
               /\ \A e \in ToSet(log) \ {d} : d.n < e.n
               /\ ToSet(new) = (ToSet(log) \ {d}) \cup {item}
    BY <1>1, <1>2, PushedHolds
<1>5. Others(more) = Others(all) \cup {item} /\ more \ Others(more) = all \ Others(all)
    <2>1. item \notin all
        <3>1. \A e \in all : e.n \in Nat /\ e.n < item.n
            BY RecordedGrows, EntryTimed DEF Timed, LogOK
        <3>2. item.n \in Nat
            OBVIOUS
        <3> QED
            BY <3>1, <3>2
    <2> QED
        BY <2>1 DEF Others
<1>6. ToSet(log) \subseteq Others(all) /\ ToSet(fails) \subseteq all \ Others(all)
    BY DEF LogOK
<1>7. ToSet(new) \subseteq Others(more)
    BY <1>4, <1>5, <1>6
<1>8. \A e \in all : e.n \in Nat /\ e.n < item.n
    BY RecordedGrows, EntryTimed DEF Timed, LogOK
<1>9. Others(all) \subseteq all
    BY DEF Others
<1>l. Len(log) \in Nat
    BY <1>2, RingNumbers
<1> HIDE DEF new, more
<1>10. /\ more \subseteq Entry /\ IsFiniteSet(more) /\ \A e \in more : e.n <= n + 1
       /\ \A e, f \in more : e.n = f.n => e = f
    BY RecordedGrows DEF more
<1>11. LogOK(new, fails, more, n + 1)
    BY <1>3, <1>5, <1>6, <1>7, <1>10 DEF LogOK
<1>12. \A e \in ToSet(log), f \in Others(all) \ ToSet(log) : f.n < e.n
    BY DEF NewestOK
<1>13. ASSUME NEW e \in ToSet(new), NEW f \in Others(more) \ ToSet(new) PROVE f.n < e.n
    <2>1. item \in ToSet(new)
        BY <1>4
    <2>2. f \in Others(all) /\ f.n < item.n
        BY <1>5, <1>8, <1>9, <2>1
    <2>3. CASE e = item
        BY <2>2, <2>3
    <2>4. CASE e # item /\ f \notin ToSet(log)
        BY <1>4, <1>12, <2>2, <2>4
    <2>5. CASE e # item /\ f \in ToSet(log)
        BY <1>4, <2>5
    <2> QED
        BY <2>3, <2>4, <2>5
<1>14. Len(new) <= MAX_ENTRIES
    BY <1>1, <1>4, <1>l
<1>15. ToSet(new) = Others(more) \/ Len(new) = MAX_ENTRIES
    <2>1. CASE Len(log) < MAX_ENTRIES
        <3>1. Len(log) # MAX_ENTRIES
            BY <1>1, <1>l, <2>1
        <3>2. ToSet(log) = Others(all) /\ ToSet(new) = ToSet(log) \cup {item}
            BY <1>4, <3>1 DEF NewestOK
        <3> QED
            BY <1>5, <3>2
    <2> QED
        BY <1>4, <2>1
<1>16. Len(fails) <= MAX_FAILED_LOGIN_ENTRIES
    BY DEF NewestOK
<1>17. NewestOK(new, fails, more)
    BY <1>13, <1>14, <1>15, <1>16 DEF NewestOK
<1> QED
    BY <1>11, <1>17 DEF new, more

\* InMemoryAuditStore.log, for a failed sign-in: the other deque is untouched.
LEMMA FailureLogged ==
    ASSUME NEW n \in Nat, NEW log, NEW fails, NEW all, LogOK(log, fails, all, n), NewestOK(log, fails, all),
           NEW item \in Entry, item.n = n + 1, item.kind = "login_failed"
    PROVE /\ LogOK(log, Pushed(fails, item, MAX_FAILED_LOGIN_ENTRIES), all \cup {item}, n + 1)
          /\ NewestOK(log, Pushed(fails, item, MAX_FAILED_LOGIN_ENTRIES), all \cup {item})
<1> DEFINE new == Pushed(fails, item, MAX_FAILED_LOGIN_ENTRIES)
           more == all \cup {item}
<1>1. MAX_FAILED_LOGIN_ENTRIES \in Nat \ {0} /\ MAX_FAILED_LOGIN_ENTRIES \in Nat
    BY FeedsAssumption
<1>2. RingOK(log, Entry, n) /\ RingOK(fails, Entry, n) /\ Len(fails) <= MAX_FAILED_LOGIN_ENTRIES
    BY DEF LogOK, NewestOK
<1>3. RingOK(log, Entry, n + 1) /\ RingOK(new, Entry, n + 1)
    BY <1>1, <1>2, RingPushed, RingLater
<1>4. /\ ToSet(new) \subseteq ToSet(fails) \cup {item}
      /\ \/ Len(new) = Len(fails) + 1 /\ Len(fails) < MAX_FAILED_LOGIN_ENTRIES
         \/ Len(new) = MAX_FAILED_LOGIN_ENTRIES
    BY <1>1, <1>2, PushedHolds
<1>l. Len(fails) \in Nat
    BY <1>2, RingNumbers
<1>5. item \notin Others(all) /\ Others(more) = Others(all) /\ item \in more \ Others(more)
      /\ all \ Others(all) \subseteq more \ Others(more)
    BY DEF Others
<1>6. ToSet(log) \subseteq Others(all) /\ ToSet(fails) \subseteq all \ Others(all)
    BY DEF LogOK
<1>7. ToSet(log) \subseteq Others(more) /\ ToSet(new) \subseteq more \ Others(more)
    BY <1>4, <1>5, <1>6
<1> HIDE DEF new, more
<1>8. /\ more \subseteq Entry /\ IsFiniteSet(more) /\ \A e \in more : e.n <= n + 1
      /\ \A e, f \in more : e.n = f.n => e = f
    BY RecordedGrows DEF more
<1>9. LogOK(log, new, more, n + 1)
    BY <1>3, <1>7, <1>8 DEF LogOK
<1>10. Len(new) <= MAX_FAILED_LOGIN_ENTRIES
    BY <1>1, <1>4, <1>l
<1>11. NewestOK(log, new, more)
    BY <1>5, <1>10 DEF NewestOK
<1> QED
    BY <1>9, <1>11 DEF new, more

\* DELETE /audit.
LEMMA LogCleared ==
    ASSUME NEW n \in Nat, NEW item \in Entry, item.n = n, item.kind # "login_failed"
    PROVE LogOK(<<item>>, <<>>, {item}, n) /\ NewestOK(<<item>>, <<>>, {item})
<1>1. PICK one : one = <<item>>
    OBVIOUS
<1>2. one \in Seq(Entry) /\ Len(one) = 1 /\ DOMAIN one = {1} /\ one[1] = item
    BY <1>1
<1>3. ToSet(one) = {item}
    BY <1>2 DEF ToSet
<1>4. PICK none : none = <<>>
    OBVIOUS
<1>5. none \in Seq(Entry) /\ Len(none) = 0 /\ DOMAIN none = {}
    BY <1>4
<1>6. ToSet(none) = {}
    BY <1>5 DEF ToSet
<1>7. RingOK(one, Entry, n)
    BY <1>2, EntryTimed DEF RingOK
<1>8. RingOK(none, Entry, n)
    BY <1>5, EntryTimed DEF RingOK
<1>9. Others({item}) = {item}
    BY DEF Others
<1>10. IsFiniteSet({item})
    BY FS_Singleton
<1>11. item.n <= n
    OBVIOUS
<1>12. LogOK(one, none, {item}, n)
    BY <1>3, <1>6, <1>7, <1>8, <1>9, <1>10, <1>11 DEF LogOK
<1>13. 1 <= MAX_ENTRIES /\ 0 <= MAX_FAILED_LOGIN_ENTRIES
    BY FeedsAssumption
<1>14. NewestOK(one, none, {item})
    BY <1>2, <1>3, <1>5, <1>9, <1>13 DEF NewestOK
<1> QED
    BY <1>1, <1>4, <1>12, <1>14

\* InMemoryAuditStore.prune.
LEMMA LogPruned ==
    ASSUME NEW n \in Nat, NEW log, NEW fails, NEW all, LogOK(log, fails, all, n), NewestOK(log, fails, all),
           NEW before \in Nat
    PROVE /\ LogOK(Kept(log, before), Kept(fails, before), {e \in all : e.n >= before}, n)
          /\ NewestOK(Kept(log, before), Kept(fails, before), {e \in all : e.n >= before})
<1> DEFINE new == Kept(log, before)
           old == Kept(fails, before)
           left == {e \in all : e.n >= before}
<1>1. RingOK(log, Entry, n) /\ RingOK(fails, Entry, n)
    BY DEF LogOK
<1>2. /\ RingOK(new, Entry, n) /\ ToSet(new) = {e \in ToSet(log) : e.n >= before}
      /\ Len(new) \in Nat /\ Len(log) \in Nat /\ Len(new) <= Len(log)
      /\ (\A e \in ToSet(log) : e.n >= before) => Len(new) = Len(log)
    BY <1>1, KeptRing
<1>3. /\ RingOK(old, Entry, n) /\ ToSet(old) = {e \in ToSet(fails) : e.n >= before}
      /\ Len(old) \in Nat /\ Len(fails) \in Nat /\ Len(old) <= Len(fails)
    BY <1>1, KeptRing
<1>4. /\ all \subseteq Entry /\ IsFiniteSet(all) /\ \A e \in all : e.n <= n
      /\ \A e, f \in all : e.n = f.n => e = f
      /\ ToSet(log) \subseteq Others(all) /\ ToSet(fails) \subseteq all \ Others(all)
    BY DEF LogOK
<1>5. left \subseteq all /\ Others(left) = {e \in Others(all) : e.n >= before}
    BY DEF Others
<1>6. IsFiniteSet(left)
    BY <1>4, <1>5, FS_Subset
<1>7. ToSet(new) \subseteq Others(left) /\ ToSet(old) \subseteq left \ Others(left)
    BY <1>2, <1>3, <1>4, <1>5
<1> HIDE DEF new, old, left
<1>8. LogOK(new, old, left, n)
    BY <1>2, <1>3, <1>4, <1>5, <1>6, <1>7 DEF LogOK
<1>9. /\ \A e \in ToSet(log), f \in Others(all) \ ToSet(log) : f.n < e.n
      /\ Len(log) <= MAX_ENTRIES /\ Len(fails) <= MAX_FAILED_LOGIN_ENTRIES
      /\ ToSet(log) = Others(all) \/ Len(log) = MAX_ENTRIES
    BY DEF NewestOK
<1>10. \A e \in ToSet(new), f \in Others(left) \ ToSet(new) : f.n < e.n
    BY <1>2, <1>5, <1>9
<1>11. Len(new) <= MAX_ENTRIES /\ Len(old) <= MAX_FAILED_LOGIN_ENTRIES
    BY <1>2, <1>3, <1>9, FeedsAssumption
<1>12. ToSet(new) = Others(left) \/ Len(new) = MAX_ENTRIES
    <2>1. CASE ToSet(log) = Others(all)
        BY <1>2, <1>5, <2>1
    <2>2. CASE Len(log) = MAX_ENTRIES /\ \A e \in ToSet(log) : e.n >= before
        BY <1>2, <2>2
    <2>3. ASSUME Len(log) = MAX_ENTRIES, NEW e \in ToSet(log), ~(e.n >= before)
          PROVE ToSet(new) = Others(left)
        <3>1. \A f \in all : f.n \in Nat
            BY <1>4, EntryTimed DEF Timed
        <3>2. e \in all
            BY <1>4 DEF Others
        <3>3. \A f \in Others(all) \ ToSet(log) : f.n < e.n /\ f \in all
            BY <1>9 DEF Others
        <3>4. \A f \in Others(all) \ ToSet(log) : ~(f.n >= before)
            BY <2>3, <3>1, <3>2, <3>3
        <3> QED
            BY <1>2, <1>4, <1>5, <3>4
    <2> QED
        BY <1>9, <2>1, <2>2, <2>3
<1>13. NewestOK(new, old, left)
    BY <1>10, <1>11, <1>12 DEF NewestOK
<1> QED
    BY <1>8, <1>13 DEF new, old, left

\* What one request or event does to the log: nothing, or one of the four
\* operations of the store.
Untouched == UNCHANGED auditVars /\ (now' = now \/ now' = now + 1)
OtherMove(item) ==
    /\ item.kind # "login_failed" /\ now' = now + 1
    /\ entries' = Pushed(entries, item, MAX_ENTRIES) /\ failed' = failed
    /\ recorded' = recorded \cup {item}
FailureMove(item) ==
    /\ item.kind = "login_failed" /\ now' = now + 1
    /\ failed' = Pushed(failed, item, MAX_FAILED_LOGIN_ENTRIES) /\ entries' = entries
    /\ recorded' = recorded \cup {item}
ClearMove(item) ==
    /\ item.kind # "login_failed" /\ now' = now + 1
    /\ entries' = <<item>> /\ failed' = <<>> /\ recorded' = {item}
PruneMove(before) ==
    /\ now' = now
    /\ entries' = Kept(entries, before) /\ failed' = Kept(failed, before)
    /\ recorded' = {e \in recorded : e.n >= before}

LEMMA AuditStepKinds ==
    ASSUME now \in Nat, [Next]_vars
    PROVE \/ Untouched /\ (reader' = reader \/ NextReader)
          \/ /\ reader' = reader
             /\ \/ \E item \in Entry : item.n = now + 1 /\ (OtherMove(item) \/ FailureMove(item) \/ ClearMove(item))
                \/ \E before \in Nat : PruneMove(before)
<1>1. CASE UNCHANGED vars
    BY <1>1 DEF vars, Untouched, auditVars
<1>2. CASE NextEventSocket
    BY <1>2 DEF NextEventSocket, ConnectEvents, SendLoop, SendFails, StopSender, Mount, BroadcastDisconnect,
        Untouched, auditVars
<1>3. CASE NextLogSocket
    BY <1>3 DEF NextLogSocket, ConnectLogs, LeaveLogs, SafeSend, SafeSendFails, BroadcastDisconnect, Untouched, auditVars
<1>4. CASE NextReader
    BY <1>4 DEF NextReader, ReadFirst, ReadNext, Untouched, auditVars
<1>5. CASE NextEvent
    BY <1>5 DEF NextEvent, Publish, Untouched, auditVars
<1>6. CASE NextLog
    BY <1>6 DEF NextLog, Emit, EmitSensitive, Untouched, auditVars
<1>7. ASSUME NEW kind \in {"login_failed", "user_changed"}, Record(kind)
      PROVE /\ reader' = reader
            /\ \E item \in Entry : item.n = now + 1 /\ (OtherMove(item) \/ FailureMove(item))
    <2>1. PICK item : item = [n |-> now + 1, kind |-> kind]
        OBVIOUS
    <2>2. item \in Entry /\ item.n = now + 1 /\ item.kind = kind
        BY <2>1 DEF Entry
    <2>3. now' = now + 1 /\ reader' = reader
        BY <1>7 DEF Record
    <2>4. OtherMove(item) \/ FailureMove(item)
        BY <1>7, <2>1, <2>2, <2>3 DEF Record, LogAudit, OtherMove, FailureMove
    <2> QED
        BY <2>2, <2>3, <2>4
<1>8. ASSUME ClearEntries
      PROVE reader' = reader /\ \E item \in Entry : item.n = now + 1 /\ ClearMove(item)
    <2>1. PICK item : item = [n |-> now + 1, kind |-> "audit_cleared"]
        OBVIOUS
    <2>2. item \in Entry /\ item.n = now + 1 /\ item.kind # "login_failed"
        BY <2>1 DEF Entry
    <2>3. now' = now + 1 /\ reader' = reader
        BY <1>8 DEF ClearEntries
    <2>4. ClearMove(item)
        BY <1>8, <2>1, <2>2, <2>3 DEF ClearEntries, ClearMove
    <2> QED
        BY <2>2, <2>3, <2>4
<1>9. ASSUME NEW before \in 1..now, Prune(before)
      PROVE reader' = reader /\ \E b \in Nat : PruneMove(b)
    <2>1. PruneMove(before) /\ reader' = reader
        BY <1>9 DEF Prune, PruneMove
    <2>2. before \in Nat
        OBVIOUS
    <2> QED
        BY <2>1, <2>2
<1>10. CASE NextAudit
    BY <1>7, <1>8, <1>9, <1>10 DEF NextAudit
<1> QED
    BY <1>1, <1>2, <1>3, <1>4, <1>5, <1>6, <1>10 DEF Next

LEMMA AuditStep ==
    ASSUME AuditInv, [Next]_vars
    PROVE AuditInv'
<1>1. PICK n, log, fails, all : n = now /\ log = entries /\ fails = failed /\ all = recorded
    OBVIOUS
<1>2. n \in Nat /\ LogOK(log, fails, all, n) /\ NewestOK(log, fails, all)
    BY <1>1 DEF AuditInv
<1>3. CASE Untouched
    <2>1. LogOK(log, fails, all, n + 1)
        <3>1. /\ all \subseteq Entry /\ IsFiniteSet(all) /\ \A e \in all : e.n <= n
              /\ \A e, f \in all : e.n = f.n => e = f
              /\ RingOK(log, Entry, n) /\ RingOK(fails, Entry, n)
              /\ ToSet(log) \subseteq Others(all) /\ ToSet(fails) \subseteq all \ Others(all)
            BY <1>2 DEF LogOK
        <3>2. RingOK(log, Entry, n + 1) /\ RingOK(fails, Entry, n + 1)
            BY <1>2, <3>1, RingLater
        <3>3. \A e \in all : e.n \in Nat
            BY <3>1, EntryTimed DEF Timed
        <3>4. \A e \in all : e.n <= n + 1
            BY <1>2, <3>1, <3>3
        <3> QED
            BY <3>1, <3>2, <3>4 DEF LogOK
    <2>2. entries' = log /\ failed' = fails /\ recorded' = all /\ (now' = n \/ now' = n + 1)
        BY <1>1, <1>3 DEF Untouched, auditVars
    <2> QED
        BY <1>2, <2>1, <2>2 DEF AuditInv
<1>4. ASSUME NEW item \in Entry, item.n = now + 1, OtherMove(item) PROVE AuditInv'
    <2>1. item.n = n + 1 /\ item.kind # "login_failed"
        BY <1>1, <1>4 DEF OtherMove
    <2>2. /\ LogOK(Pushed(log, item, MAX_ENTRIES), fails, all \cup {item}, n + 1)
          /\ NewestOK(Pushed(log, item, MAX_ENTRIES), fails, all \cup {item})
        BY <1>2, <2>1, OtherLogged
    <2> QED
        BY <1>1, <1>2, <1>4, <2>2 DEF AuditInv, OtherMove
<1>5. ASSUME NEW item \in Entry, item.n = now + 1, FailureMove(item) PROVE AuditInv'
    <2>1. item.n = n + 1 /\ item.kind = "login_failed"
        BY <1>1, <1>5 DEF FailureMove
    <2>2. /\ LogOK(log, Pushed(fails, item, MAX_FAILED_LOGIN_ENTRIES), all \cup {item}, n + 1)
          /\ NewestOK(log, Pushed(fails, item, MAX_FAILED_LOGIN_ENTRIES), all \cup {item})
        BY <1>2, <2>1, FailureLogged
    <2> QED
        BY <1>1, <1>2, <1>5, <2>2 DEF AuditInv, FailureMove
<1>6. ASSUME NEW item \in Entry, item.n = now + 1, ClearMove(item) PROVE AuditInv'
    <2>1. PICK m \in Nat : m = now + 1
        BY <1>1, <1>2
    <2>2. item.n = m /\ item.kind # "login_failed"
        BY <1>6, <2>1 DEF ClearMove
    <2>3. LogOK(<<item>>, <<>>, {item}, m) /\ NewestOK(<<item>>, <<>>, {item})
        BY <2>2, LogCleared
    <2> QED
        BY <1>6, <2>1, <2>3 DEF AuditInv, ClearMove
<1>7. ASSUME NEW before \in Nat, PruneMove(before) PROVE AuditInv'
    <2>1. /\ LogOK(Kept(log, before), Kept(fails, before), {e \in all : e.n >= before}, n)
          /\ NewestOK(Kept(log, before), Kept(fails, before), {e \in all : e.n >= before})
        BY <1>2, LogPruned
    <2> QED
        BY <1>1, <1>2, <1>7, <2>1 DEF AuditInv, PruneMove
<1> QED
    BY <1>1, <1>2, <1>3, <1>4, <1>5, <1>6, <1>7, AuditStepKinds

\* What is stored is finite, and told apart by the numbers.
LEMMA StoredOK ==
    ASSUME AuditInv
    PROVE /\ Stored \subseteq recorded /\ Stored \subseteq Entry /\ IsFiniteSet(Stored)
          /\ \A e \in Stored : e.n \in Nat /\ e.n <= now
          /\ \A e, f \in Stored : e.n = f.n => e = f
          /\ {e \in Stored : e.kind # "login_failed"} = ToSet(entries)
<1>1. /\ recorded \subseteq Entry /\ IsFiniteSet(recorded)
      /\ \A e \in recorded : e.n <= now
      /\ \A e, f \in recorded : e.n = f.n => e = f
      /\ ToSet(entries) \subseteq Others(recorded)
      /\ ToSet(failed) \subseteq recorded \ Others(recorded)
    BY DEF AuditInv, LogOK
<1>2. Stored \subseteq recorded
    BY <1>1 DEF Stored, Others
<1>3. IsFiniteSet(Stored)
    BY <1>1, <1>2, FS_Subset
<1>4. \A e \in recorded : e.n \in Nat
    BY <1>1, EntryTimed DEF Timed
<1>5. {e \in Stored : e.kind # "login_failed"} = ToSet(entries)
    BY <1>1 DEF Stored, Others
<1> QED
    BY <1>1, <1>2, <1>3, <1>4, <1>5

Sorted(S) == [i \in 1..Cardinality(S) |-> CHOOSE e \in S : Place(S, e) = i]

\* get_entries lists every entry, each at its place, the newest first.
LEMMA SortedLists ==
    ASSUME NEW S, IsFiniteSet(S), \A e \in S : e.n \in Nat, \A e, f \in S : e.n = f.n => e = f
    PROVE /\ Cardinality(S) \in Nat /\ Sorted(S) \in Seq(S) /\ Len(Sorted(S)) = Cardinality(S)
          /\ DOMAIN Sorted(S) = 1..Cardinality(S)
          /\ \A i \in 1..Cardinality(S) : Sorted(S)[i] \in S
          /\ \A e \in S : Place(S, e) \in 1..Cardinality(S) /\ Sorted(S)[Place(S, e)] = e
          /\ ToSet(Sorted(S)) = S
          /\ \A i, j \in 1..Cardinality(S) : i < j => Sorted(S)[i].n > Sorted(S)[j].n
<1> DEFINE above(e) == {f \in S : f.n >= e.n}
           c == Cardinality(S)
<1>0. c \in Nat /\ \A e \in S : Place(S, e) = Cardinality(above(e))
    BY FS_CardinalityType DEF Place
<1>1. ASSUME NEW e \in S PROVE IsFiniteSet(above(e)) /\ Place(S, e) \in 1..c
    <2>1. IsFiniteSet(above(e)) /\ Cardinality(above(e)) <= c
        BY FS_Subset
    <2>2. e \in above(e)
        OBVIOUS
    <2>3. Cardinality(above(e)) \in Nat /\ Cardinality(above(e)) # 0
        BY <2>1, <2>2, FS_CardinalityType, FS_EmptySet
    <2> HIDE DEF above
    <2> QED
        BY <1>0, <2>1, <2>3
<1>2. ASSUME NEW e \in S, NEW f \in S, e.n < f.n PROVE Place(S, f) < Place(S, e)
    <2>1. \A g \in S : g.n >= f.n => g.n >= e.n
        BY <1>2
    <2>2. ~(e.n >= f.n) /\ e.n >= e.n
        BY <1>2
    <2>3. above(f) \subseteq above(e) /\ e \in above(e) /\ e \notin above(f)
        BY <2>1, <2>2
    <2>4. IsFiniteSet(above(e))
        BY <1>1
    <2> HIDE DEF above
    <2> QED
        BY <1>0, <2>3, <2>4, Fewer
<1>3. \A e, f \in S : Place(S, e) = Place(S, f) => e = f
    <2> SUFFICES ASSUME NEW e \in S, NEW f \in S, e # f PROVE Place(S, e) # Place(S, f)
        OBVIOUS
    <2>1. e.n < f.n \/ f.n < e.n
        OBVIOUS
    <2>2. Place(S, e) \in Nat /\ Place(S, f) \in Nat
        <3>1. PICK m \in Nat : m = c
            BY <1>0
        <3>2. Place(S, e) \in 1..m /\ Place(S, f) \in 1..m
            BY <1>1, <3>1
        <3> QED
            BY <3>2
    <2> QED
        BY <1>2, <2>1, <2>2
<1>4. \A i \in 1..c : \E e \in S : Place(S, e) = i
    <2>1. PICK rank : rank = [e \in S |-> Place(S, e)]
        OBVIOUS
    <2>2. rank \in [S -> 1..c] /\ \A e, f \in S : rank[e] = rank[f] => e = f
        BY <1>1, <1>3, <2>1
    <2>3. \A i \in 1..c : \E e \in S : rank[e] = i
        BY <2>2, Ranked
    <2> QED
        BY <2>1, <2>3
<1>5. Sorted(S) = [i \in 1..c |-> CHOOSE e \in S : Place(S, e) = i]
    BY DEF Sorted
<1> HIDE DEF c
<1>6. \A i \in 1..c : Sorted(S)[i] \in S /\ Place(S, Sorted(S)[i]) = i
    BY <1>4, <1>5
<1>7. \A e \in S : Sorted(S)[Place(S, e)] = e
    BY <1>1, <1>3, <1>6
<1>8. Sorted(S) \in [1..c -> S]
    BY <1>5, <1>6
<1>9. Sorted(S) \in Seq(S) /\ Len(Sorted(S)) = c /\ DOMAIN Sorted(S) = 1..c
    BY <1>0, <1>8
<1>10. ToSet(Sorted(S)) = S
    <2>1. ToSet(Sorted(S)) = {Sorted(S)[i] : i \in 1..c}
        BY <1>9 DEF ToSet
    <2>2. \A e \in S : \E i \in 1..c : Sorted(S)[i] = e
        BY <1>1, <1>7
    <2> QED
        BY <1>6, <2>1, <2>2
<1>11. ASSUME NEW i \in 1..c, NEW j \in 1..c, i < j PROVE Sorted(S)[i].n > Sorted(S)[j].n
    <2>1. PICK e \in S, f \in S : e = Sorted(S)[i] /\ f = Sorted(S)[j]
        BY <1>6
    <2>2. Place(S, e) = i /\ Place(S, f) = j
        BY <1>6, <2>1
    <2>3. e # f /\ ~(e.n < f.n)
        BY <1>0, <1>2, <1>11, <2>2
    <2>4. e.n # f.n
        BY <2>3
    <2>5. e.n > f.n
        BY <2>3, <2>4
    <2> QED
        BY <2>1, <2>5
<1> QED
    BY <1>0, <1>1, <1>6, <1>7, <1>9, <1>10, <1>11 DEF c

LEMMA MinOfTwo ==
    ASSUME NEW a \in Int, NEW b \in Int
    PROVE Min({a, b}) = IF a <= b THEN a ELSE b
<1>1. PICK m : m = IF a <= b THEN a ELSE b
    OBVIOUS
<1>2. m \in {a, b} /\ \A y \in {a, b} : m <= y
    BY <1>1
<1>3. \A x \in {a, b} : (\A y \in {a, b} : x <= y) => x = m
    BY <1>1
<1>4. Min({a, b}) = m
    BY <1>2, <1>3 DEF Min
<1> QED
    BY <1>1, <1>4

LEMMA AuditListed ==
    AuditInv => AuditKeepsOthers
<1> SUFFICES ASSUME AuditInv PROVE AuditKeepsOthers
    OBVIOUS
<1>1. PICK S, log, others : S = Stored /\ log = entries /\ others = Others(recorded)
    OBVIOUS
<1>2. /\ S \subseteq Entry /\ IsFiniteSet(S)
      /\ \A e \in S : e.n \in Nat
      /\ \A e, f \in S : e.n = f.n => e = f
      /\ {e \in S : e.kind # "login_failed"} = ToSet(log)
    BY <1>1, StoredOK
<1>3. GetEntries = Sorted(S)
    BY <1>1 DEF GetEntries, Sorted
<1>4. /\ ToSet(Sorted(S)) = S /\ DOMAIN Sorted(S) = 1..Cardinality(S)
      /\ \A i, j \in 1..Cardinality(S) : i < j => Sorted(S)[i].n > Sorted(S)[j].n
    BY <1>2, SortedLists
<1>5. {e \in ToSet(GetEntries) : e.kind # "login_failed"} = ToSet(log)
    BY <1>2, <1>3, <1>4
<1>6. /\ ToSet(log) \subseteq others /\ \A e \in ToSet(log), f \in others \ ToSet(log) : f.n < e.n
      /\ Len(log) <= MAX_ENTRIES /\ (ToSet(log) = others \/ Len(log) = MAX_ENTRIES)
    BY <1>1 DEF AuditInv, LogOK, NewestOK
<1>7. Cardinality(ToSet(log)) = Len(log) /\ Len(log) \in Nat
    <2>1. RingOK(log, Entry, now)
        BY <1>1 DEF AuditInv, LogOK
    <2>2. PICK m \in Nat : m = Len(log) /\ DOMAIN log = 1..m
        BY <2>1, RingNumbers
    <2>3. \A i \in DOMAIN log : log[i].n \in Nat
        BY <2>1, RingNumbers
    <2>4. \A i, j \in 1..m : log[i] = log[j] => i = j
        <3> SUFFICES ASSUME NEW i \in 1..m, NEW j \in 1..m, i # j PROVE log[i] # log[j]
            OBVIOUS
        <3>1. i < j \/ j < i
            OBVIOUS
        <3>2. log[i].n # log[j].n
            BY <2>1, <2>2, <2>3, <3>1 DEF RingOK
        <3> QED
            BY <3>2
    <2>5. IsFiniteSet(1..m) /\ Cardinality(1..m) = m
        BY FS_Interval
    <2>6. Cardinality({log[i] : i \in 1..m}) = m
        BY <2>4, <2>5, ImageCounts
    <2>7. ToSet(log) = {log[i] : i \in 1..m}
        BY <2>2 DEF ToSet
    <2> QED
        BY <2>2, <2>6, <2>7
<1>8. IsFiniteSet(others) /\ Cardinality(others) \in Nat /\ Len(log) <= Cardinality(others)
    <2>1. IsFiniteSet(recorded) /\ others \subseteq recorded
        BY <1>1 DEF AuditInv, LogOK, Others
    <2>2. IsFiniteSet(others)
        BY <2>1, FS_Subset
    <2>3. Cardinality(ToSet(log)) <= Cardinality(others)
        BY <1>6, <2>2, FS_Subset
    <2> QED
        BY <1>7, <2>2, <2>3, FS_CardinalityType
<1>9. Cardinality(ToSet(log)) = Min({MAX_ENTRIES, Cardinality(others)})
    <2>1. PICK a \in Nat, b \in Nat : a = MAX_ENTRIES /\ b = Cardinality(others)
        BY <1>8, FeedsAssumption
    <2>2. Min({a, b}) = IF a <= b THEN a ELSE b
        BY MinOfTwo
    <2>3. Len(log) = IF a <= b THEN a ELSE b
        <3>1. CASE ToSet(log) = others
            BY <1>6, <1>7, <2>1, <3>1
        <3>2. CASE Len(log) = MAX_ENTRIES
            BY <1>8, <2>1, <3>2
        <3> QED
            BY <1>6, <3>1, <3>2
    <2> QED
        BY <1>7, <2>1, <2>2, <2>3
<1>10. \A i, j \in DOMAIN GetEntries : i < j => GetEntries[i].n > GetEntries[j].n
    BY <1>3, <1>4
<1>11. others = {e \in recorded : e.kind # "login_failed"}
    BY <1>1 DEF Others
<1> QED
    BY <1>5, <1>6, <1>9, <1>10, <1>11 DEF AuditKeepsOthers

LEMMA AuditInit == Init => AuditInv
<1> SUFFICES ASSUME Init PROVE AuditInv
    OBVIOUS
<1>1. PICK none : none = <<>>
    OBVIOUS
<1>2. none \in Seq(Entry) /\ Len(none) = 0 /\ DOMAIN none = {}
    BY <1>1
<1>3. ToSet(none) = {} /\ RingOK(none, Entry, 0)
    BY <1>2, EntryTimed DEF ToSet, RingOK
<1>4. IsFiniteSet({}) /\ Others({}) = {}
    BY FS_EmptySet DEF Others
<1>5. LogOK(none, none, {}, 0)
    BY <1>3, <1>4 DEF LogOK
<1>6. 0 <= MAX_ENTRIES /\ 0 <= MAX_FAILED_LOGIN_ENTRIES
    BY FeedsAssumption
<1>7. NewestOK(none, none, {})
    BY <1>2, <1>3, <1>4, <1>6 DEF NewestOK
<1> QED
    BY <1>1, <1>5, <1>7 DEF Init, AuditInv

\* InMemoryAuditStore, for any sizes of its two deques and any sequence of entries,
\* prunes and clears: failed sign-ins never evict another entry, GET /audit
\* lists the newest max_entries of the others, and everything in the order recorded.
THEOREM AuditKeeps == Spec => []AuditKeepsOthers
<1>1. Init => AuditInv
    BY AuditInit
<1>2. AuditInv /\ [Next]_vars => AuditInv'
    BY AuditStep
<1>3. AuditInv => AuditKeepsOthers
    BY AuditListed
<1> QED
    BY <1>1, <1>2, <1>3, PTL DEF Spec

-----------------------------------------------------------------------------
(* Reading the audit log page by page *)

LEMMA ConcatSet ==
    ASSUME NEW a \in Seq(Nat), NEW b \in Seq(Nat)
    PROVE a \o b \in Seq(Nat) /\ ToSet(a \o b) = ToSet(a) \cup ToSet(b)
<1>1. PICK l \in Nat, m \in Nat : l = Len(a) /\ m = Len(b) /\ DOMAIN a = 1..l /\ DOMAIN b = 1..m
    OBVIOUS
<1>2. PICK s : s = a \o b
    OBVIOUS
<1>3. /\ s \in Seq(Nat) /\ Len(s) = l + m
      /\ \A i \in 1..(l + m) : s[i] = IF i <= l THEN a[i] ELSE b[i - l]
    BY <1>1, <1>2, ConcatProperties
<1>4. DOMAIN s = 1..(l + m)
    BY <1>3
<1>5. \A i \in 1..(l + m) : s[i] \in ToSet(a) \cup ToSet(b)
    <2>1. \A i \in 1..(l + m) : i <= l => i \in 1..l
        OBVIOUS
    <2>2. \A i \in 1..(l + m) : ~(i <= l) => i - l \in 1..m
        OBVIOUS
    <2> QED
        BY <1>1, <1>3, <2>1, <2>2 DEF ToSet
<1>6. \A i \in 1..l : i \in 1..(l + m) /\ s[i] = a[i]
    BY <1>3
<1>7. \A i \in 1..m : i + l \in 1..(l + m) /\ s[i + l] = b[i]
    BY <1>3
<1>8. ToSet(s) = {s[i] : i \in 1..(l + m)}
    BY <1>4 DEF ToSet
<1>9. ToSet(a) = {a[i] : i \in 1..l} /\ ToSet(b) = {b[i] : i \in 1..m}
    BY <1>1 DEF ToSet
<1>10. ToSet(s) = ToSet(a) \cup ToSet(b)
    BY <1>5, <1>6, <1>7, <1>8, <1>9
<1> QED
    BY <1>2, <1>3, <1>10

PageOf(S, offset) == SubSeq(Sorted(S), offset + 1, Min({offset + Limit, Len(Sorted(S))}))

\* A page shows what has its place in it, and a short page everything from its
\* offset on.
LEMMA PageShows ==
    ASSUME NEW S, IsFiniteSet(S), \A e \in S : e.n \in Nat, \A e, f \in S : e.n = f.n => e = f,
           NEW offset \in Nat
    PROVE /\ Numbers(PageOf(S, offset)) \in Seq(Nat)
          /\ \A e \in S : Place(S, e) > offset =>
                \/ e.n \in ToSet(Numbers(PageOf(S, offset)))
                \/ Len(PageOf(S, offset)) = Limit /\ Place(S, e) > offset + Limit
<1>p. PICK P : P = PageOf(S, offset)
    OBVIOUS
<1>1. PICK G : G = Sorted(S)
    OBVIOUS
<1>2. PICK c \in Nat : c = Cardinality(S)
    BY FS_CardinalityType
<1>3. /\ Len(G) = c /\ \A i \in 1..c : G[i] \in S
      /\ \A e \in S : Place(S, e) \in 1..c /\ G[Place(S, e)] = e
    BY <1>1, <1>2, SortedLists
<1>4. PICK lim \in Nat \ {0} : lim = Limit
    BY FeedsAssumption
<1>5. PICK last \in Nat : last = IF offset + lim <= c THEN offset + lim ELSE c
    OBVIOUS
<1>6. Min({offset + lim, c}) = last
    BY <1>5, MinOfTwo
<1>7. P = SubSeq(G, offset + 1, last)
    BY <1>1, <1>3, <1>4, <1>6, <1>p DEF PageOf
<1>8. PICK a \in Int : a = offset + 1
    OBVIOUS
<1>9. last \in Int /\ \A i \in a..last : G[i] \in S
    <2>1. \A i \in a..last : i \in 1..c
        BY <1>5, <1>8
    <2> QED
        BY <1>3, <2>1
<1>10. /\ P \in Seq(S) /\ Len(P) = IF a <= last THEN last - a + 1 ELSE 0
       /\ \A i \in 1..(last - a + 1) : P[i] = G[a + i - 1]
    <2>1. P = SubSeq(G, a, last)
        BY <1>7, <1>8
    <2>2. /\ SubSeq(G, a, last) \in Seq(S)
          /\ Len(SubSeq(G, a, last)) = IF a <= last THEN last - a + 1 ELSE 0
          /\ \A i \in 1..(last - a + 1) : SubSeq(G, a, last)[i] = G[a + i - 1]
        BY <1>9, SubSeqProperties
    <2> QED
        BY <2>1, <2>2
<1>11. PICK l \in Nat : l = Len(P) /\ DOMAIN P = 1..l /\ \A i \in 1..l : P[i] \in S
    <2>1. PICK Q : Q = P
        OBVIOUS
    <2>2. Q \in Seq(S)
        BY <1>10, <2>1
    <2>3. Len(Q) \in Nat /\ DOMAIN Q = 1..Len(Q) /\ \A i \in 1..Len(Q) : Q[i] \in S
        BY <2>2
    <2> QED
        BY <2>1, <2>3
<1>12. Numbers(P) \in Seq(Nat) /\ DOMAIN Numbers(P) = 1..l /\ \A i \in 1..l : Numbers(P)[i] = P[i].n
    <2>1. Numbers(P) = [i \in 1..l |-> P[i].n]
        BY <1>11 DEF Numbers
    <2>2. \A i \in 1..l : P[i].n \in Nat
        BY <1>11
    <2>3. PICK N : N = Numbers(P)
        OBVIOUS
    <2>4. N \in [1..l -> Nat] /\ \A i \in 1..l : N[i] = P[i].n
        BY <2>1, <2>2, <2>3
    <2>5. N \in Seq(Nat) /\ DOMAIN N = 1..l
        BY <2>4
    <2> QED
        BY <2>3, <2>4, <2>5
<1>13. ASSUME NEW e \in S, Place(S, e) > offset,
              ~(Len(P) = Limit /\ Place(S, e) > offset + Limit)
       PROVE e.n \in ToSet(Numbers(P))
    <2>1. PICK k \in 1..c : k = Place(S, e) /\ G[k] = e
        BY <1>3
    <2>2. k > offset /\ ~(l = lim /\ k > offset + lim)
        BY <1>4, <1>11, <1>13, <2>1
    <2>3. k <= last
        <3>1. CASE last = c
            BY <3>1
        <3>2. CASE last # c
            <4>1. last = offset + lim /\ l = lim
                BY <1>5, <1>8, <1>10, <1>11, <3>2
            <4> QED
                BY <2>2, <4>1
        <3> QED
            BY <3>1, <3>2
    <2>4. l = last - a + 1
        BY <1>8, <1>10, <1>11, <2>2, <2>3
    <2>5. PICK i \in 1..l : a + i - 1 = k
        <3>1. k - offset \in 1..l /\ a + (k - offset) - 1 = k
            BY <1>8, <2>2, <2>3, <2>4
        <3> QED
            BY <3>1
    <2>6. P[i] = e
        BY <1>10, <2>1, <2>4, <2>5
    <2> QED
        BY <1>12, <2>5, <2>6 DEF ToSet
<1> QED
    BY <1>12, <1>13, <1>p

\* An entry recorded pushes the others back by one place, and an entry evicted
\* lets them forward by at most one.
LEMMA PlaceGrows ==
    ASSUME NEW S, IsFiniteSet(S), NEW S2, NEW item \in S2, item \notin S, S2 \subseteq S \cup {item},
           NEW d, S \ {d} \subseteq S2, NEW e, item.n >= e.n
    PROVE /\ Place(S, e) \in Nat /\ Place(S2, e) \in Nat
          /\ Place(S, e) <= Place(S2, e)
<1> DEFINE A == {f \in S : f.n >= e.n}
           B == {f \in S2 : f.n >= e.n}
           C == A \ {d}
           D == C \cup {item}
<1>1. IsFiniteSet(A)
    BY FS_Subset
<1>2. IsFiniteSet(B)
    <2>1. IsFiniteSet(S \cup {item})
        BY FS_AddElement
    <2>2. B \subseteq S \cup {item}
        OBVIOUS
    <2> QED
        BY <2>1, <2>2, FS_Subset
<1>3. D \subseteq B /\ item \notin C
    OBVIOUS
<1>4. Place(S, e) = Cardinality(A) /\ Place(S2, e) = Cardinality(B)
    BY DEF Place
<1> HIDE DEF A, B
<1>5. /\ IsFiniteSet(C)
      /\ Cardinality(C) = IF d \in A THEN Cardinality(A) - 1 ELSE Cardinality(A)
    BY <1>1, FS_RemoveElement
<1>6. Cardinality(A) \in Nat /\ Cardinality(B) \in Nat
    BY <1>1, <1>2, FS_CardinalityType
<1> HIDE DEF C
<1>7. Cardinality(D) = Cardinality(C) + 1
    BY <1>3, <1>5, FS_AddElement
<1> HIDE DEF D
<1>8. Cardinality(D) <= Cardinality(B)
    BY <1>2, <1>3, FS_Subset
<1> QED
    BY <1>4, <1>5, <1>6, <1>7, <1>8

\* The reader after a page: what had not come up yet has been shown, or
\* comes after the page, and then there is more.
LEMMA ReadOn ==
    ASSUME AuditInv, NEW level, NEW offset \in Nat,
           NEW seen \in Seq(Nat), NEW start, \A k \in start : k \in 0..now,
           \A e \in Stored : e.n \in start => e.n \in ToSet(seen) \/ Place(Stored, e) > offset,
           NEW r, r = [log |-> "audit", level |-> level, offset |-> offset + Limit,
                       seen |-> seen \o Numbers(Page("audit", level, offset)), start |-> start,
                       more |-> HasMore("audit", level, offset)]
    PROVE PagesOK(Stored, r, now)
<1>1. PICK S, P : S = Stored /\ P = Page("audit", level, offset)
    OBVIOUS
<1>2. IsFiniteSet(S) /\ (\A e \in S : e.n \in Nat) /\ \A e, f \in S : e.n = f.n => e = f
    BY <1>1, StoredOK
<1>3. GetEntries = Sorted(S)
    BY <1>1 DEF GetEntries, Sorted
<1>4. P = PageOf(S, offset)
    BY <1>1, <1>3 DEF Page, Source, PageOf
<1>5. /\ Numbers(P) \in Seq(Nat)
      /\ \A e \in S : Place(S, e) > offset =>
            \/ e.n \in ToSet(Numbers(P))
            \/ Len(P) = Limit /\ Place(S, e) > offset + Limit
    BY <1>2, <1>4, PageShows
<1>6. PICK N : N = Numbers(P)
    OBVIOUS
<1>7. seen \o N \in Seq(Nat) /\ ToSet(seen \o N) = ToSet(seen) \cup ToSet(N)
    BY <1>5, <1>6, ConcatSet
<1>8. HasMore("audit", level, offset) = (Len(P) = Limit)
    BY <1>1 DEF HasMore
<1>9. PICK line, more : line = seen \o N /\ more = (Len(P) = Limit)
    OBVIOUS
<1>10. r = [log |-> "audit", level |-> level, offset |-> offset + Limit, seen |-> line,
            start |-> start, more |-> more]
    BY <1>1, <1>6, <1>8, <1>9
<1>11. PICK next \in Nat : next = offset + Limit
    BY FeedsAssumption
<1>12. \A e \in S : e.n \in start => e.n \in ToSet(line) \/ (more /\ Place(S, e) > next)
    BY <1>1, <1>5, <1>6, <1>7, <1>9, <1>11
<1>13. /\ r.log = "audit" /\ r.level = level /\ r.offset = next /\ r.seen = line
       /\ r.start = start /\ r.more = more
    BY <1>10, <1>11
<1>14. r = [log |-> r.log, level |-> r.level, offset |-> r.offset,
            seen |-> r.seen, start |-> r.start, more |-> r.more]
    BY <1>10, <1>11, <1>13
<1>15. line \in Seq(Nat)
    BY <1>7, <1>9
<1> QED
    BY <1>1, <1>12, <1>13, <1>14, <1>15 DEF PagesOK

LEMMA PagesRead ==
    ASSUME AuditInv, PagesInv, NextReader, Untouched
    PROVE PagesInv'
<1>0. UNCHANGED auditVars /\ now' = now
    BY DEF NextReader, ReadFirst, ReadNext, Untouched
<1>1. Stored' = Stored /\ now' = now
    BY <1>0 DEF auditVars, Stored
<1>2. PICK r, r2 : r = reader /\ r2 = reader'
    OBVIOUS
<1>3. SUFFICES PagesOK(Stored, r2, now)
    <2>1. PICK S, n : S = Stored /\ n = now
        OBVIOUS
    <2> QED
        BY <1>1, <1>2, <2>1 DEF PagesInv
<1>4. ASSUME NEW level, NEW p, ReadFirst("logs", level, p) PROVE PagesOK(Stored, r2, now)
    <2>1. PICK seen, start, more : r2 = [log |-> "logs", level |-> level, offset |-> Limit,
                                         seen |-> seen, start |-> start, more |-> more]
        BY <1>2, <1>4 DEF ReadFirst
    <2>2. Limit \in Nat
        BY FeedsAssumption
    <2> QED
        BY <2>1, <2>2 DEF PagesOK
<1>5. ASSUME NEW p, ReadFirst("audit", "any", p) PROVE PagesOK(Stored, r2, now)
    <2>1. r2 = [log |-> "audit", level |-> "any", offset |-> Limit,
                seen |-> Numbers(Page("audit", "any", 0)),
                start |-> ToSet(Numbers(Source("audit", "any"))), more |-> HasMore("audit", "any", 0)]
        BY <1>2, <1>5 DEF ReadFirst
    <2>2. PICK S, G, start : S = Stored /\ G = GetEntries /\ start = ToSet(Numbers(G))
        OBVIOUS
    <2>3. /\ IsFiniteSet(S) /\ (\A e \in S : e.n \in Nat) /\ \A e, f \in S : e.n = f.n => e = f
          /\ \A e \in S : e.n \in Nat /\ e.n <= now
        BY <2>2, StoredOK
    <2>4. G = Sorted(S)
        BY <2>2 DEF GetEntries, Sorted
    <2>5. /\ Cardinality(S) \in Nat /\ DOMAIN G = 1..Cardinality(S)
          /\ \A i \in 1..Cardinality(S) : G[i] \in S
          /\ \A e \in S : Place(S, e) \in 1..Cardinality(S)
        BY <2>3, <2>4, SortedLists
    <2>6. \A k \in start : k \in 0..now
        <3>1. \A k \in start : \E i \in DOMAIN G : k = G[i].n
            BY <2>2 DEF ToSet, Numbers
        <3>2. now \in Nat
            BY DEF AuditInv
        <3> QED
            BY <2>3, <2>5, <3>1, <3>2
    <2>7. \A e \in S : Place(S, e) > 0
        BY <2>5
    <2>8. PICK none : none = <<>>
        OBVIOUS
    <2>9. none \in Seq(Nat)
        BY <2>8
    <2>10. PICK N : N = Numbers(Page("audit", "any", 0))
        OBVIOUS
    <2>11. Numbers(Page("audit", "any", 0)) = none \o Numbers(Page("audit", "any", 0))
        <3>1. N \in Seq(Nat)
            <4>1. PICK P : P = Page("audit", "any", 0)
                OBVIOUS
            <4>2. P = PageOf(S, 0)
                BY <2>2, <2>4, <4>1 DEF Page, Source, PageOf
            <4>3. Numbers(P) \in Seq(Nat)
                BY <2>3, <4>2, PageShows
            <4> QED
                BY <2>10, <4>1, <4>3
        <3>2. <<>> \o N = N
            BY <3>1, ConcatEmptySeq
        <3> QED
            BY <2>8, <2>10, <3>2
    <2>12. 0 + Limit = Limit
        BY FeedsAssumption
    <2>13. r2 = [log |-> "audit", level |-> "any", offset |-> 0 + Limit,
                 seen |-> none \o Numbers(Page("audit", "any", 0)), start |-> start,
                 more |-> HasMore("audit", "any", 0)]
        <3>1. Source("audit", "any") = G
            BY <2>2 DEF Source
        <3> QED
            BY <2>1, <2>2, <2>11, <2>12, <3>1
    <2>14. \A e \in Stored : e.n \in start => e.n \in ToSet(none) \/ Place(Stored, e) > 0
        BY <2>2, <2>7
    <2> QED
        BY <2>6, <2>9, <2>13, <2>14, ReadOn
<1>6. CASE ReadNext /\ r.log = "audit"
    <2>1. PagesOK(Stored, r, now) /\ r.more
        BY <1>2, <1>6 DEF PagesInv, ReadNext
    <2>2. PICK level, offset, seen, start :
            level = r.level /\ offset = r.offset /\ seen = r.seen /\ start = r.start
        OBVIOUS
    <2>3. /\ offset \in Nat /\ seen \in Seq(Nat) /\ (\A k \in start : k \in 0..now)
          /\ \A e \in Stored : e.n \in start => e.n \in ToSet(seen) \/ Place(Stored, e) > offset
        BY <1>6, <2>1, <2>2 DEF PagesOK
    <2>4. PICK had : r = [log |-> "audit", level |-> level, offset |-> offset,
                          seen |-> seen, start |-> start, more |-> had]
        BY <1>6, <2>1, <2>2 DEF PagesOK
    <2>5. r2 = [r EXCEPT !.offset = @ + Limit,
                 !.seen = @ \o Numbers(Page(r.log, r.level, r.offset)),
                 !.more = HasMore(r.log, r.level, r.offset)]
        BY <1>2, <1>6 DEF ReadNext
    <2>6. PICK N, more, next : N = Numbers(Page("audit", level, offset))
                 /\ more = HasMore("audit", level, offset) /\ next = offset + Limit
        OBVIOUS
    <2>7. r2 = [r EXCEPT !.offset = next, !.seen = seen \o N, !.more = more]
        BY <1>6, <2>2, <2>5, <2>6
    <2>8. r2 = [log |-> "audit", level |-> level, offset |-> next,
                seen |-> seen \o N, start |-> start, more |-> more]
        BY <2>4, <2>7
    <2>9. r2 = [log |-> "audit", level |-> level, offset |-> offset + Limit,
                seen |-> seen \o Numbers(Page("audit", level, offset)), start |-> start,
                more |-> HasMore("audit", level, offset)]
        BY <2>6, <2>8
    <2> QED
        BY <2>3, <2>9, ReadOn
<1>7. CASE ReadNext /\ r.log # "audit"
    <2>1. PagesOK(Stored, r, now)
        BY <1>2 DEF PagesInv
    <2>2. PICK next, seen, more : r2 = [r EXCEPT !.offset = next, !.seen = seen, !.more = more]
                                  /\ next = r.offset + Limit
        BY <1>2, <1>7 DEF ReadNext
    <2>3. next \in Nat
        BY <2>1, <2>2, FeedsAssumption DEF PagesOK
    <2>4. r2 = [log |-> r.log, level |-> r.level, offset |-> next, seen |-> seen,
                start |-> r.start, more |-> more]
        BY <2>1, <2>2 DEF PagesOK
    <2> QED
        BY <1>7, <2>3, <2>4 DEF PagesOK
<1> QED
    BY <1>4, <1>5, <1>6, <1>7 DEF NextReader

\* The store under the reader's hands: nothing that was there moves to an earlier
\* place, and what is new is not what the reader began with.
LEMMA PagesKept ==
    ASSUME NEW S, NEW S2, NEW r, NEW n \in Nat, NEW m \in Nat, n <= m, PagesOK(S, r, n),
           \A e \in S2 : e.n <= n => e \in S /\ Place(S, e) \in Nat /\ Place(S2, e) \in Nat
                                            /\ Place(S, e) <= Place(S2, e)
    PROVE PagesOK(S2, r, m)
<1> SUFFICES ASSUME r.log = "audit"
             PROVE /\ r.seen \in Seq(Nat) /\ \A k \in r.start : k \in 0..m
                   /\ \A e \in S2 : e.n \in r.start =>
                         e.n \in ToSet(r.seen) \/ (r.more /\ Place(S2, e) > r.offset)
    BY DEF PagesOK
<1>1. /\ r.offset \in Nat /\ r.seen \in Seq(Nat) /\ \A k \in r.start : k \in 0..n
      /\ \A e \in S : e.n \in r.start =>
            e.n \in ToSet(r.seen) \/ (r.more /\ Place(S, e) > r.offset)
    BY DEF PagesOK
<1>2. \A k \in r.start : k \in 0..m
    BY <1>1
<1>3. ASSUME NEW e \in S2, e.n \in r.start
      PROVE e.n \in ToSet(r.seen) \/ (r.more /\ Place(S2, e) > r.offset)
    <2>1. e.n <= n
        BY <1>1, <1>3
    <2>2. /\ e \in S /\ Place(S, e) \in Nat /\ Place(S2, e) \in Nat
          /\ Place(S, e) <= Place(S2, e)
        BY <2>1
    <2>3. PICK a \in Nat, b \in Nat : a = Place(S, e) /\ b = Place(S2, e) /\ a <= b
        BY <2>2
    <2>4. a > r.offset => b > r.offset
        BY <1>1, <2>3
    <2> QED
        BY <1>1, <1>3, <2>2, <2>3, <2>4
<1> QED
    BY <1>1, <1>2, <1>3

LEMMA PushedSet ==
    ASSUME NEW n \in Nat, NEW ring, RingOK(ring, Entry, n), NEW item \in Entry,
           NEW size \in Nat \ {0}, Len(ring) <= size
    PROVE \/ ToSet(Pushed(ring, item, size)) = ToSet(ring) \cup {item}
          \/ \E d : ToSet(Pushed(ring, item, size)) = (ToSet(ring) \ {d}) \cup {item}
<1>1. \/ ToSet(Pushed(ring, item, size)) = ToSet(ring) \cup {item}
      \/ \E d \in ToSet(ring) : ToSet(Pushed(ring, item, size)) = (ToSet(ring) \ {d}) \cup {item}
    BY PushedHolds
<1> QED
    BY <1>1

\* An entry goes onto one of the deques.
LEMMA PagesRecorded ==
    ASSUME AuditInv, PagesInv, NEW item \in Entry, item.n = now + 1, OtherMove(item) \/ FailureMove(item),
           reader' = reader
    PROVE PagesInv'
<1>1. PICK n, S, S2, log, fails, r :
        n = now /\ S = Stored /\ S2 = Stored' /\ log = entries /\ fails = failed /\ r = reader
    OBVIOUS
<1>2. n \in Nat /\ now' = n + 1 /\ item.n = n + 1
    BY <1>1 DEF AuditInv, OtherMove, FailureMove
<1>3. IsFiniteSet(S) /\ \A e \in S : e.n \in Nat /\ e.n <= n
    BY <1>1, StoredOK
<1>4. item \notin S
    BY <1>2, <1>3
<1>5. /\ RingOK(log, Entry, n) /\ RingOK(fails, Entry, n)
      /\ Len(log) <= MAX_ENTRIES /\ Len(fails) <= MAX_FAILED_LOGIN_ENTRIES
    BY <1>1 DEF AuditInv, LogOK, NewestOK
<1>6. MAX_ENTRIES \in Nat \ {0} /\ MAX_FAILED_LOGIN_ENTRIES \in Nat \ {0}
    BY FeedsAssumption
<1>7. S = ToSet(log) \cup ToSet(fails)
    BY <1>1 DEF Stored
<1>8. item \in S2 /\ S2 \subseteq S \cup {item} /\ \E d : S \ {d} \subseteq S2
    <2>1. CASE OtherMove(item)
        <3>1. S2 = ToSet(Pushed(log, item, MAX_ENTRIES)) \cup ToSet(fails)
            BY <1>1, <2>1 DEF OtherMove, Stored
        <3>2. PICK new : new = ToSet(Pushed(log, item, MAX_ENTRIES))
            OBVIOUS
        <3>3. new = ToSet(log) \cup {item} \/ \E d : new = (ToSet(log) \ {d}) \cup {item}
            <4>1. \/ ToSet(Pushed(log, item, MAX_ENTRIES)) = ToSet(log) \cup {item}
                  \/ \E d : ToSet(Pushed(log, item, MAX_ENTRIES)) = (ToSet(log) \ {d}) \cup {item}
                BY <1>2, <1>5, <1>6, PushedSet
            <4> QED
                BY <3>2, <4>1
        <3> QED
            BY <1>7, <3>1, <3>2, <3>3
    <2>2. CASE FailureMove(item)
        <3>1. S2 = ToSet(log) \cup ToSet(Pushed(fails, item, MAX_FAILED_LOGIN_ENTRIES))
            BY <1>1, <2>2 DEF FailureMove, Stored
        <3>2. PICK new : new = ToSet(Pushed(fails, item, MAX_FAILED_LOGIN_ENTRIES))
            OBVIOUS
        <3>3. new = ToSet(fails) \cup {item} \/ \E d : new = (ToSet(fails) \ {d}) \cup {item}
            <4>1. \/ ToSet(Pushed(fails, item, MAX_FAILED_LOGIN_ENTRIES)) = ToSet(fails) \cup {item}
                  \/ \E d : ToSet(Pushed(fails, item, MAX_FAILED_LOGIN_ENTRIES)) = (ToSet(fails) \ {d}) \cup {item}
                BY <1>2, <1>5, <1>6, PushedSet
            <4> QED
                BY <3>2, <4>1
        <3> QED
            BY <1>7, <3>1, <3>2, <3>3
    <2> QED
        BY <2>1, <2>2
<1>9. PICK d : S \ {d} \subseteq S2
    BY <1>8
<1>10. ASSUME NEW e \in S2, e.n <= n
       PROVE e \in S /\ Place(S, e) \in Nat /\ Place(S2, e) \in Nat /\ Place(S, e) <= Place(S2, e)
    <2>1. e # item
        BY <1>2, <1>10
    <2>2. e \in S
        BY <1>8, <2>1
    <2>3. item.n >= e.n
        BY <1>2, <1>3, <2>2
    <2> QED
        BY <1>3, <1>4, <1>8, <1>9, <2>2, <2>3, PlaceGrows
<1>11. PICK m \in Nat : m = n + 1
    BY <1>2
<1>12. PagesOK(S, r, n) /\ n <= m
    BY <1>1, <1>2, <1>11 DEF PagesInv
<1>13. PagesOK(S2, r, m)
    BY <1>2, <1>10, <1>12, PagesKept
<1> QED
    BY <1>1, <1>2, <1>11, <1>13 DEF PagesInv

\* DELETE /audit leaves only an entry that is new.
LEMMA PagesCleared ==
    ASSUME AuditInv, PagesInv, NEW item \in Entry, item.n = now + 1, ClearMove(item), reader' = reader
    PROVE PagesInv'
<1>1. PICK n, S, S2, r : n = now /\ S = Stored /\ S2 = Stored' /\ r = reader
    OBVIOUS
<1>2. n \in Nat /\ now' = n + 1 /\ item.n = n + 1
    BY <1>1 DEF AuditInv, ClearMove
<1>3. S2 = {item}
    <2>1. PICK one, none : one = <<item>> /\ none = <<>>
        OBVIOUS
    <2>2. DOMAIN one = {1} /\ one[1] = item /\ DOMAIN none = {}
        BY <2>1
    <2>3. ToSet(one) = {item} /\ ToSet(none) = {}
        BY <2>2 DEF ToSet
    <2>4. S2 = ToSet(one) \cup ToSet(none)
        BY <1>1, <2>1 DEF ClearMove, Stored
    <2> QED
        BY <2>3, <2>4
<1>4. \A e \in S2 : ~(e.n <= n)
    BY <1>2, <1>3
<1>5. PICK m \in Nat : m = n + 1
    BY <1>2
<1>6. PagesOK(S, r, n) /\ n <= m
    BY <1>1, <1>2, <1>5 DEF PagesInv
<1>7. PagesOK(S2, r, m)
    BY <1>2, <1>4, <1>6, PagesKept
<1> QED
    BY <1>1, <1>2, <1>5, <1>7 DEF PagesInv

\* prune takes away what is behind everything it leaves.
LEMMA PagesPruned ==
    ASSUME AuditInv, PagesInv, NEW before \in Nat, PruneMove(before), reader' = reader
    PROVE PagesInv'
<1>1. PICK n, S, S2, log, fails, r :
        n = now /\ S = Stored /\ S2 = Stored' /\ log = entries /\ fails = failed /\ r = reader
    OBVIOUS
<1>2. n \in Nat /\ now' = n
    BY <1>1 DEF AuditInv, PruneMove
<1>3. IsFiniteSet(S) /\ \A e \in S : e.n \in Nat
    BY <1>1, StoredOK
<1>4. RingOK(log, Entry, n) /\ RingOK(fails, Entry, n)
    BY <1>1 DEF AuditInv, LogOK
<1>5. /\ ToSet(Kept(log, before)) = {e \in ToSet(log) : e.n >= before}
      /\ ToSet(Kept(fails, before)) = {e \in ToSet(fails) : e.n >= before}
    BY <1>2, <1>4, KeptRing
<1>6. S2 = ToSet(Kept(log, before)) \cup ToSet(Kept(fails, before)) /\ S = ToSet(log) \cup ToSet(fails)
    BY <1>1 DEF PruneMove, Stored
<1>7. S2 = {e \in S : e.n >= before}
    BY <1>5, <1>6
<1>8. ASSUME NEW e \in S2
      PROVE e \in S /\ Place(S, e) \in Nat /\ Place(S2, e) \in Nat /\ Place(S, e) <= Place(S2, e)
    <2>1. e \in S /\ e.n >= before
        BY <1>7
    <2>2. \A f \in S : f.n >= e.n => f.n >= before
        BY <1>3, <2>1
    <2>3. PICK A : A = {f \in S : f.n >= e.n}
        OBVIOUS
    <2>4. A = {f \in S2 : f.n >= e.n}
        BY <1>7, <2>2, <2>3
    <2>5. Place(S, e) = Cardinality(A) /\ Place(S2, e) = Cardinality(A)
        BY <2>3, <2>4 DEF Place
    <2>6. IsFiniteSet(A)
        BY <1>3, <2>3, FS_Subset
    <2>7. Cardinality(A) \in Nat
        BY <2>6, FS_CardinalityType
    <2> QED
        BY <2>1, <2>5, <2>7
<1>9. PagesOK(S, r, n) /\ n <= n
    BY <1>1, <1>2 DEF PagesInv
<1>10. PagesOK(S2, r, n)
    BY <1>2, <1>8, <1>9, PagesKept
<1> QED
    BY <1>1, <1>2, <1>10 DEF PagesInv

\* A step of something else.
LEMMA PagesUntouched ==
    ASSUME AuditInv, PagesInv, Untouched, reader' = reader
    PROVE PagesInv'
<1>1. PICK n, S, r : n = now /\ S = Stored /\ r = reader
    OBVIOUS
<1>2. n \in Nat /\ (now' = n \/ now' = n + 1) /\ Stored' = S
    BY <1>1 DEF AuditInv, Untouched, auditVars, Stored
<1>3. IsFiniteSet(S)
    BY <1>1, StoredOK
<1>4. ASSUME NEW e \in S PROVE Place(S, e) \in Nat /\ Place(S, e) <= Place(S, e)
    <2>1. PICK A : A = {f \in S : f.n >= e.n}
        OBVIOUS
    <2>2. IsFiniteSet(A)
        BY <1>3, <2>1, FS_Subset
    <2>3. Cardinality(A) \in Nat
        BY <2>2, FS_CardinalityType
    <2>4. Place(S, e) = Cardinality(A)
        BY <2>1 DEF Place
    <2> QED
        BY <2>3, <2>4
<1>5. PICK m \in Nat : m = now' /\ n <= m
    BY <1>2
<1>6. PagesOK(S, r, n)
    BY <1>1 DEF PagesInv
<1>7. PagesOK(S, r, m)
    BY <1>2, <1>4, <1>5, <1>6, PagesKept
<1> QED
    BY <1>1, <1>2, <1>5, <1>7 DEF PagesInv

LEMMA PagesSeen ==
    AuditInv /\ PagesInv => AuditPagesMissNothing
<1> SUFFICES ASSUME AuditInv, PagesInv, reader.log = "audit", ~reader.more,
                    NEW k \in reader.start, k \in ToSet(Numbers(GetEntries))
             PROVE k \in ToSet(reader.seen)
    BY DEF AuditPagesMissNothing
<1>1. PICK S, G : S = Stored /\ G = GetEntries
    OBVIOUS
<1>2. IsFiniteSet(S) /\ (\A e \in S : e.n \in Nat) /\ \A e, f \in S : e.n = f.n => e = f
    BY <1>1, StoredOK
<1>3. G = Sorted(S)
    BY <1>1 DEF GetEntries, Sorted
<1>4. \A i \in DOMAIN G : G[i] \in S
    BY <1>2, <1>3, SortedLists
<1>5. PICK i \in DOMAIN G : k = G[i].n
    BY <1>1 DEF ToSet, Numbers
<1> QED
    BY <1>1, <1>4, <1>5 DEF PagesInv, PagesOK

\* GET /audit, for any page size, any sizes of the deques and whatever is
\* recorded, evicted, pruned or cleared between the pages: a client that has
\* read to the end has seen every entry that was there from its first request on.
THEOREM PagesMissNothing == Spec => []AuditPagesMissNothing
<1>1. Init => AuditInv /\ PagesInv
    <2>1. Init => PagesInv
        BY DEF Init, NotReading, PagesInv, PagesOK
    <2> QED
        BY <2>1, AuditInit
<1>2. AuditInv /\ PagesInv /\ [Next]_vars => (AuditInv /\ PagesInv)'
    <2> SUFFICES ASSUME AuditInv, PagesInv, [Next]_vars PROVE AuditInv' /\ PagesInv'
        OBVIOUS
    <2>1. now \in Nat
        BY DEF AuditInv
    <2>2. PagesInv'
        BY <2>1, AuditStepKinds, PagesRead, PagesRecorded, PagesCleared, PagesPruned, PagesUntouched
    <2> QED
        BY <2>2, AuditStep
<1>3. AuditInv /\ PagesInv => AuditPagesMissNothing
    BY PagesSeen
<1> QED
    BY <1>1, <1>2, <1>3, PTL DEF Spec

-----------------------------------------------------------------------------
(* The log sockets *)

Flight == [n : Nat, to : LogSockets]
Showing == [since : Nat, sent : SUBSET Nat]
Reaches(s, record) == ShouldSendLog(LevelFilter(s), MapLogLevel(record.level))
\* What a client that can be sent to has been sent and is about to be: each record
\* once, all that were logged since it connected and are of its level.
ClientShown(s, since, sent, flights, all, n) ==
    /\ since <= n
    /\ \A f \in flights : f.to = s => f.n \notin sent
    /\ \A k \in Nat : (k \in sent \/ \E f \in flights : f.to = s /\ f.n = k)
                          <=> k > since /\ \E r \in all : r.n = k /\ Reaches(s, r)
LogsInv ==
    /\ now \in Nat
    /\ lsock \in [LogSockets -> {"off", "open", "broken"}]
    /\ shown \in [LogSockets -> Showing]
    /\ logged \subseteq Logged /\ \A r \in logged : r.n <= now
    /\ flying \subseteq Flight /\ \A f \in flying : f.n <= now /\ lsock[f.to] # "off"
    /\ \A s \in LogSockets : lsock[s] = "open" =>
          ClientShown(s, shown[s].since, shown[s].sent, flying, logged, now)

LEMMA LogsInvGives ==
    ASSUME LogsInv PROVE LogsReachClients
<1> SUFFICES ASSUME NEW s \in LogSockets, lsock[s] = "open"
             PROVE LET waiting == {f.n : f \in {g \in flying : g.to = s}}
                   IN  /\ shown[s].sent \cap waiting = {}
                       /\ shown[s].sent \cup waiting =
                             {r.n : r \in {q \in logged : q.n > shown[s].since /\ Reaches(s, q)}}
    BY DEF LogsReachClients, Reaches
<1>1. PICK since, sent : since = shown[s].since /\ sent = shown[s].sent
    OBVIOUS
<1>2. since \in Nat /\ sent \subseteq Nat /\ ClientShown(s, since, sent, flying, logged, now)
    BY <1>1 DEF LogsInv, Showing
<1>3. (\A f \in flying : f.n \in Nat) /\ \A r \in logged : r.n \in Nat
    BY DEF LogsInv, Flight, Logged
<1> HIDE DEF Reaches
<1> QED
    BY <1>1, <1>2, <1>3 DEF ClientShown

\* Every step leaves the log sockets alone or is one of their operations.
LogQuiet == (now' = now \/ now' = now + 1) /\ UNCHANGED <<lsock, flying, shown, logged>>
LEMMA LogStepKinds ==
    ASSUME now \in Nat, [Next]_vars
    PROVE \/ LogQuiet
          \/ \E level \in LogLevels, threaded \in BOOLEAN : Emit(level, threaded)
          \/ now' = now /\ NextLogSocket
<1> USE DEF logVars, LogQuiet
<1>1. CASE NextEventSocket
    BY <1>1 DEF NextEventSocket, ConnectEvents, SendLoop, SendFails, StopSender, Mount, NextLogSocket,
        BroadcastDisconnect
<1>2. CASE NextLogSocket
    BY <1>2 DEF NextLogSocket, ConnectLogs, LeaveLogs, SafeSend, SafeSendFails, BroadcastDisconnect
<1>3. CASE NextReader
    BY <1>3 DEF NextReader, ReadFirst, ReadNext
<1>4. CASE NextEvent
    BY <1>4 DEF NextEvent, Publish
<1>5. CASE NextLog
    BY <1>5 DEF NextLog, EmitSensitive
<1>6. CASE NextAudit
    BY <1>6 DEF NextAudit, Record, ClearEntries, Prune
<1>7. CASE UNCHANGED vars
    BY <1>7 DEF vars
<1> QED
    BY <1>1, <1>2, <1>3, <1>4, <1>5, <1>6, <1>7 DEF Next

LEMMA LogsEmit ==
    ASSUME LogsInv, NEW level \in LogLevels, NEW threaded \in BOOLEAN, Emit(level, threaded)
    PROVE LogsInv'
<1>1. /\ now \in Nat /\ now' = now + 1 /\ now' \in Nat /\ lsock' = lsock /\ shown' = shown
      /\ (\A r \in logged : r.n \in Nat) /\ \A f \in flying : f.n \in Nat
    BY DEF LogsInv, Emit, Logged, Flight
<1>2. PICK m : m = now + 1
    OBVIOUS
<1>a. PICK record : record = [n |-> m, level |-> level]
    OBVIOUS
<1>b. PICK targets : targets = {s \in LogSockets : /\ ~threaded /\ lsock[s] # "off"
                                  /\ ShouldSendLog(LevelFilter(s), MapLogLevel(level))}
    OBVIOUS
<1>3. /\ targets = {s \in LogSockets : ~threaded /\ lsock[s] # "off" /\ Reaches(s, record)}
      /\ flying' = flying \cup {[n |-> m, to |-> s] : s \in targets}
      /\ logged' = IF threaded \/ \A s \in LogSockets : lsock[s] = "off" THEN logged
                   ELSE logged \cup {record}
    <2>1. record.level = level
        BY <1>a
    <2>2. targets = {s \in LogSockets : ~threaded /\ lsock[s] # "off" /\ Reaches(s, record)}
        BY <1>b, <2>1 DEF Reaches
    <2>3. flying' = flying \cup {[n |-> m, to |-> s] : s \in targets}
        BY <1>1, <1>2, <1>b DEF Emit
    <2>4. logged' = IF threaded \/ \A s \in LogSockets : lsock[s] = "off" THEN logged
                   ELSE logged \cup {record}
        BY <1>1, <1>2, <1>a DEF Emit
    <2> QED
        BY <2>2, <2>3, <2>4
<1>4. record \in Logged /\ record.n = m /\ m \in Nat /\ m = now'
    BY <1>1, <1>2, <1>a DEF Logged
<1>5. logged' \subseteq Logged /\ \A r \in logged' : r.n <= now'
    BY <1>1, <1>3, <1>4 DEF LogsInv
<1>6. /\ flying' \subseteq Flight
      /\ \A f \in flying' : f.n <= now' /\ lsock'[f.to] # "off"
    <2>1. \A f \in flying' : f \in flying \/ \E s \in targets : f = [n |-> m, to |-> s]
        BY <1>3
    <2>2. \A s \in targets : s \in LogSockets /\ lsock[s] # "off"
        BY <1>3
    <2> QED
        BY <1>1, <1>4, <2>1, <2>2 DEF LogsInv, Flight
<1>7. ASSUME NEW s \in LogSockets, lsock'[s] = "open"
      PROVE ClientShown(s, shown[s].since, shown[s].sent, flying', logged', now')
    <2>1. PICK since, sent : since = shown[s].since /\ sent = shown[s].sent
        OBVIOUS
    <2>2. /\ lsock[s] = "open" /\ since \in Nat /\ sent \subseteq Nat
          /\ ClientShown(s, since, sent, flying, logged, now)
        BY <1>1, <1>7, <2>1 DEF LogsInv, Showing
    <2>3. \A k \in sent : k <= now
        <3>1. \A r \in logged : r.n <= now
            BY DEF LogsInv
        <3>2. \A k \in sent : \E r \in logged : r.n = k
            BY <2>2 DEF ClientShown
        <3> QED
            BY <3>1, <3>2
    <2>4. since <= now' /\ m \notin sent
        BY <1>1, <1>4, <2>2, <2>3 DEF ClientShown
    <2>5. CASE threaded
        <3>1. flying' = flying /\ logged' = logged
            BY <1>3, <2>5
        <3> QED
            BY <2>1, <2>2, <2>4, <3>1 DEF ClientShown
    <2>6. CASE ~threaded
        <3>1. logged' = logged \cup {record}
            BY <1>3, <2>2, <2>6
        <3>2. s \in targets <=> Reaches(s, record)
            BY <1>3, <2>2, <2>6
        <3>3. \A f \in flying' : f.to = s => f \in flying \/ (f.n = m /\ s \in targets)
            <4>1. \A f \in flying' : f \in flying \/ \E t \in targets : f = [n |-> m, to |-> t]
                BY <1>3
            <4> QED
                BY <4>1
        <3>4. s \in targets => \E f \in flying' : f.to = s /\ f.n = m
            <4>1. s \in targets => [n |-> m, to |-> s] \in flying'
                BY <1>3
            <4> QED
                BY <4>1
        <3>5. flying \subseteq flying'
            BY <1>3
        <3>6. m > since /\ \A r \in logged : r.n # m
            BY <1>1, <1>4, <2>2 DEF ClientShown, LogsInv
        <3>7. \A f \in flying : f.n # m
            BY <1>1, <1>4 DEF LogsInv
        <3>8. \A f \in flying' : f.to = s => f.n \notin sent
            BY <2>2, <2>4, <3>3 DEF ClientShown
        <3>9. ASSUME NEW k \in Nat
              PROVE (k \in sent \/ \E f \in flying' : f.to = s /\ f.n = k)
                          <=> k > since /\ \E r \in logged' : r.n = k /\ Reaches(s, r)
            <4> HIDE DEF Reaches
            <4>1. CASE k = m
                BY <1>4, <2>4, <3>1, <3>2, <3>3, <3>4, <3>6, <3>7, <4>1
            <4>2. CASE k # m
                <5>1. (\E f \in flying' : f.to = s /\ f.n = k) <=> \E f \in flying : f.to = s /\ f.n = k
                    BY <3>3, <3>5, <4>2
                <5>2. (\E r \in logged' : r.n = k /\ Reaches(s, r)) <=> \E r \in logged : r.n = k /\ Reaches(s, r)
                    BY <1>4, <3>1, <4>2
                <5> QED
                    BY <2>2, <5>1, <5>2 DEF ClientShown
            <4> QED
                BY <4>1, <4>2
        <3> QED
            BY <2>1, <2>4, <3>8, <3>9 DEF ClientShown
    <2> QED
        BY <2>5, <2>6
<1> QED
    BY <1>1, <1>5, <1>6, <1>7 DEF LogsInv

LEMMA LogsConnect ==
    ASSUME LogsInv, NEW s \in LogSockets, NEW p, ConnectLogs(s, p)
    PROVE LogsInv'
<1>1. /\ now \in Nat /\ now' = now /\ flying' = flying /\ logged' = logged
      /\ lsock[s] = "off" /\ lsock' = [lsock EXCEPT ![s] = "open"]
      /\ shown' = [shown EXCEPT ![s] = [since |-> now, sent |-> {}]]
    BY DEF LogsInv, ConnectLogs
<1>2. /\ lsock' \in [LogSockets -> {"off", "open", "broken"}] /\ shown' \in [LogSockets -> Showing]
      /\ shown'[s].since = now /\ shown'[s].sent = {}
      /\ \A t \in LogSockets : t # s => shown'[t] = shown[t] /\ lsock'[t] = lsock[t]
    BY <1>1 DEF LogsInv, Showing
<1>3. \A f \in flying : f.to \in LogSockets /\ f.to # s
    BY <1>1 DEF LogsInv, Flight
<1>4. ClientShown(s, now, {}, flying, logged, now)
    <2>1. \A r \in logged : r.n \in Nat /\ ~ (r.n > now)
        BY <1>1 DEF LogsInv, Logged
    <2> QED
        BY <1>1, <1>3, <2>1 DEF ClientShown
<1>5. \A f \in flying' : f.n <= now' /\ lsock'[f.to] # "off"
    BY <1>1, <1>2, <1>3 DEF LogsInv
<1>6. ASSUME NEW t \in LogSockets, lsock'[t] = "open"
      PROVE ClientShown(t, shown'[t].since, shown'[t].sent, flying', logged', now')
    BY <1>1, <1>2, <1>4, <1>6 DEF LogsInv
<1> QED
    BY <1>1, <1>2, <1>5, <1>6 DEF LogsInv

\* A client that leaves, or to which a send has failed, is told no more: the sends
\* to the others are as they were.
LEMMA LogsLost ==
    ASSUME LogsInv, NEW s \in LogSockets, NEW state \in {"off", "broken"},
           now' = now, logged' = logged, lsock' = [lsock EXCEPT ![s] = state],
           shown' = [shown EXCEPT ![s] = NotShown], flying' \subseteq flying,
           \A f \in flying : f.to # s => f \in flying',
           state = "off" => \A f \in flying' : f.to # s
    PROVE LogsInv'
<1>1. NotShown \in Showing
    BY DEF NotShown, Showing
<1>2. /\ lsock' \in [LogSockets -> {"off", "open", "broken"}] /\ shown' \in [LogSockets -> Showing]
      /\ lsock'[s] = state
      /\ \A t \in LogSockets : t # s => shown'[t] = shown[t] /\ lsock'[t] = lsock[t]
    BY <1>1 DEF LogsInv
<1>3. \A f \in flying' : f \in Flight /\ f.n <= now' /\ lsock'[f.to] # "off"
    <2>1. \A f \in flying' : f \in Flight /\ f.to \in LogSockets /\ f.n <= now /\ lsock[f.to] # "off"
        BY DEF LogsInv, Flight
    <2> QED
        BY <1>2, <2>1
<1>4. ASSUME NEW t \in LogSockets, lsock'[t] = "open"
      PROVE ClientShown(t, shown'[t].since, shown'[t].sent, flying', logged', now')
    <2>1. t # s /\ shown'[t] = shown[t] /\ lsock[t] = "open"
        BY <1>2, <1>4
    <2>2. ClientShown(t, shown[t].since, shown[t].sent, flying, logged, now)
        BY <2>1 DEF LogsInv
    <2>3. PICK since, sent : since = shown[t].since /\ sent = shown[t].sent
        OBVIOUS
    <2>4. \A f \in flying : f.to = t => f \in flying'
        BY <2>1
    <2>5. ClientShown(t, since, sent, flying', logged, now)
        BY <2>2, <2>3, <2>4 DEF ClientShown
    <2> QED
        BY <2>1, <2>3, <2>5
<1> QED
    BY <1>2, <1>3, <1>4 DEF LogsInv

LEMMA LogsSent ==
    ASSUME LogsInv, NEW f \in flying, SafeSend(f)
    PROVE LogsInv'
<1>1. f \in Flight /\ f.n \in Nat /\ f.to \in LogSockets
    BY DEF LogsInv, Flight
<1>2. PICK s, m : s = f.to /\ m = f.n
    OBVIOUS
<1>3. /\ now' = now /\ logged' = logged /\ lsock' = lsock /\ flying' = flying \ {f}
      /\ lsock[s] = "open" /\ shown' = [shown EXCEPT ![s].sent = @ \cup {m}]
    BY <1>2 DEF SafeSend
<1>4. PICK since, sent : since = shown[s].since /\ sent = shown[s].sent
    OBVIOUS
<1>5. since \in Nat /\ sent \subseteq Nat /\ s \in LogSockets /\ m \in Nat /\ shown[s] \in Showing
    BY <1>1, <1>2, <1>4 DEF LogsInv, Showing
<1>6. shown' = [shown EXCEPT ![s] = [shown[s] EXCEPT !.sent = @ \cup {m}]]
    BY <1>3
<1>7. /\ shown' \in [LogSockets -> Showing]
      /\ shown'[s].since = since /\ shown'[s].sent = sent \cup {m}
      /\ \A t \in LogSockets : t # s => shown'[t] = shown[t]
    <2>1. PICK next : next = [shown[s] EXCEPT !.sent = @ \cup {m}]
        OBVIOUS
    <2>2. next \in Showing /\ next.since = since /\ next.sent = sent \cup {m}
        BY <1>4, <1>5, <2>1 DEF Showing
    <2> QED
        BY <1>5, <1>6, <2>1, <2>2 DEF LogsInv
<1>8. \A g \in flying : g.to = s /\ g.n = m => g = f
    BY <1>1, <1>2 DEF LogsInv, Flight
<1>9. ClientShown(s, since, sent, flying, logged, now)
    BY <1>3, <1>4, <1>5 DEF LogsInv
<1>10. ClientShown(s, since, sent \cup {m}, flying', logged, now)
    <2>1. since <= now
        BY <1>9 DEF ClientShown
    <2>2. \A g \in flying' : g.to = s => g.n \notin sent \cup {m}
        BY <1>3, <1>8, <1>9 DEF ClientShown
    <2>3. ASSUME NEW k \in Nat
          PROVE (k \in sent \cup {m} \/ \E g \in flying' : g.to = s /\ g.n = k)
                    <=> (k \in sent \/ \E g \in flying : g.to = s /\ g.n = k)
        BY <1>2, <1>3, <1>8
    <2> QED
        BY <1>9, <2>1, <2>2, <2>3 DEF ClientShown
<1>11. ASSUME NEW t \in LogSockets, lsock'[t] = "open"
       PROVE ClientShown(t, shown'[t].since, shown'[t].sent, flying', logged', now')
    <2>1. CASE t = s
        BY <1>3, <1>7, <1>10, <2>1
    <2>2. CASE t # s
        <3>1. PICK before, told : before = shown[t].since /\ told = shown[t].sent
            OBVIOUS
        <3>2. ClientShown(t, before, told, flying, logged, now)
            BY <1>3, <1>11, <3>1 DEF LogsInv
        <3>3. \A g \in flying : g.to = t => g \in flying'
            BY <1>2, <1>3, <2>2
        <3>4. ClientShown(t, before, told, flying', logged, now)
            BY <1>3, <3>2, <3>3 DEF ClientShown
        <3> QED
            BY <1>3, <1>7, <2>2, <3>1, <3>4
    <2> QED
        BY <2>1, <2>2
<1> QED
    BY <1>3, <1>7, <1>11 DEF LogsInv

LEMMA LogsStep ==
    ASSUME LogsInv, [Next]_vars
    PROVE LogsInv'
<1>0. now \in Nat
    BY DEF LogsInv
<1>1. CASE LogQuiet
    <2>1. now' \in Nat /\ now <= now'
        BY <1>0, <1>1 DEF LogQuiet
    <2>2. (\A r \in logged : r.n \in Nat /\ r.n <= now') /\ \A f \in flying : f.n \in Nat /\ f.n <= now'
        BY <1>0, <2>1 DEF LogsInv, Logged, Flight
    <2>3. ASSUME NEW s \in LogSockets, lsock[s] = "open"
          PROVE ClientShown(s, shown[s].since, shown[s].sent, flying, logged, now')
        <3>1. PICK since, sent : since = shown[s].since /\ sent = shown[s].sent
            OBVIOUS
        <3>2. since \in Nat /\ ClientShown(s, since, sent, flying, logged, now)
            BY <2>3, <3>1 DEF LogsInv, Showing
        <3> QED
            BY <1>0, <2>1, <3>1, <3>2 DEF ClientShown
    <2> QED
        BY <1>1, <2>1, <2>2, <2>3 DEF LogsInv, LogQuiet
<1>2. ASSUME NEW level \in LogLevels, NEW threaded \in BOOLEAN, Emit(level, threaded) PROVE LogsInv'
    BY <1>2, LogsEmit
<1>3. CASE NextLogSocket
    <2>1. ASSUME NEW s \in LogSockets, NEW p, ConnectLogs(s, p) PROVE LogsInv'
        BY <2>1, LogsConnect
    <2>2. ASSUME NEW s \in LogSockets, LeaveLogs(s) PROVE LogsInv'
        <3>1. /\ now' = now /\ logged' = logged /\ lsock' = [lsock EXCEPT ![s] = "off"]
              /\ shown' = [shown EXCEPT ![s] = NotShown] /\ flying' = {f \in flying : f.to # s}
            BY <2>2 DEF LeaveLogs
        <3>2. flying' \subseteq flying /\ (\A f \in flying : f.to # s => f \in flying')
                  /\ \A f \in flying' : f.to # s
            BY <3>1
        <3> QED
            BY <3>1, <3>2, LogsLost
    <2>3. ASSUME NEW f \in flying, SafeSend(f) PROVE LogsInv'
        BY <2>3, LogsSent
    <2>4. ASSUME NEW f \in flying, SafeSendFails(f) PROVE LogsInv'
        <3>1. PICK s \in LogSockets : s = f.to
            BY DEF LogsInv, Flight
        <3>2. /\ now' = now /\ logged' = logged /\ lsock' = [lsock EXCEPT ![s] = "broken"]
              /\ shown' = [shown EXCEPT ![s] = NotShown] /\ flying' = flying \ {f}
            BY <2>4, <3>1 DEF SafeSendFails
        <3>3. flying' \subseteq flying /\ \A g \in flying : g.to # s => g \in flying'
            BY <3>1, <3>2
        <3> QED
            BY <3>2, <3>3, LogsLost
    <2>5. CASE BroadcastDisconnect
        <3>1. /\ now' = now /\ logged' = logged /\ lsock' = [s \in LogSockets |-> "off"]
              /\ flying' = {} /\ shown' = [s \in LogSockets |-> NotShown]
            BY <2>5 DEF BroadcastDisconnect
        <3>2. NotShown \in Showing
            BY DEF NotShown, Showing
        <3> QED
            BY <3>1, <3>2 DEF LogsInv
    <2> QED
        BY <1>3, <2>1, <2>2, <2>3, <2>4, <2>5 DEF NextLogSocket
<1> QED
    BY <1>0, <1>1, <1>2, <1>3, LogStepKinds

LEMMA LogsInit == Init => LogsInv
<1>1. NotShown \in Showing
    BY DEF NotShown, Showing
<1> QED
    BY <1>1 DEF Init, LogsInv

\* broadcast_log, _do_broadcast and _safe_send, for every number of log clients and
\* records: whatever order the sends of the broadcasts return in, and whichever of
\* them fail, a client whose own sends succeed misses no record of its level and
\* gets none twice.
THEOREM LogsReach == Spec => []LogsReachClients
<1>1. Init => LogsInv
    BY LogsInit
<1>2. LogsInv /\ [Next]_vars => LogsInv'
    BY LogsStep
<1>3. LogsInv => LogsReachClients
    BY LogsInvGives
<1> QED
    BY <1>1, <1>2, <1>3, PTL DEF Spec

-----------------------------------------------------------------------------
(* The bounds of the queues *)

\* What the other invariants do not say of TypeOK.
OutboxesBounded == \A s \in EventSockets : Len(esock[s].outbox) <= MAX_PENDING_EVENTS
ReaderOK ==
    /\ reader = [log |-> reader.log, level |-> reader.level, offset |-> reader.offset,
                 seen |-> reader.seen, start |-> reader.start, more |-> reader.more]
    /\ reader.log \in {"none", "logs", "audit"} /\ reader.more \in BOOLEAN

LEMMA OutboxesStep ==
    ASSUME EventsInv, OutboxesBounded, [Next]_vars
    PROVE OutboxesBounded'
<1>1. MAX_PENDING_EVENTS \in Nat \ {0}
    BY FeedsAssumption
<1>2. \A s \in EventSockets : esock[s].outbox \in Seq(Nat) /\ Len(esock[s].outbox) \in Nat
    BY DEF EventsInv, EventSocket
<1>3. ASSUME NEW s \in EventSockets, esock[s].outbox # <<>> PROVE Len(Tail(esock[s].outbox)) <= MAX_PENDING_EVENTS
    <2>1. PICK box : box = esock[s].outbox
        OBVIOUS
    <2>2. box \in Seq(Nat) /\ box # <<>> /\ Len(box) \in Nat /\ Len(box) <= MAX_PENDING_EVENTS
        BY <1>2, <1>3, <2>1 DEF OutboxesBounded
    <2>3. Len(Tail(box)) = Len(box) - 1
        BY <2>2
    <2> QED
        BY <1>1, <2>1, <2>2, <2>3
<1>4. CASE esock' = esock
    BY <1>4 DEF OutboxesBounded
<1>5. CASE PublishStep
    <2>1. PICK to : esock' = [s \in EventSockets |->
                IF s \in to THEN [esock[s] EXCEPT !.outbox = Enqueue(@, now')] ELSE esock[s]]
        BY <1>5 DEF PublishStep, PublishEvent
    <2>2. ASSUME NEW s \in EventSockets PROVE Len(esock'[s].outbox) <= MAX_PENDING_EVENTS
        <3>1. PICK old, box, m : old = esock[s] /\ box = old.outbox /\ m = now'
            OBVIOUS
        <3>2. /\ old \in EventSocket /\ box \in Seq(Nat) /\ Len(box) \in Nat
              /\ Len(box) <= MAX_PENDING_EVENTS
            BY <1>2, <3>1 DEF OutboxesBounded, EventsInv
        <3>3. esock'[s] = [old EXCEPT !.outbox = Enqueue(@, m)] \/ esock'[s] = old
            BY <2>1, <3>1
        <3>4. esock'[s].outbox = Enqueue(box, m) \/ esock'[s].outbox = box
            BY <3>1, <3>2, <3>3 DEF EventSocket
        <3>5. Len(Append(box, m)) = Len(box) + 1
            BY <3>2
        <3>6. Len(Enqueue(box, m)) <= MAX_PENDING_EVENTS
            BY <1>1, <3>2, <3>5 DEF Enqueue
        <3> QED
            BY <3>2, <3>4, <3>6
    <2> QED
        BY <2>2 DEF OutboxesBounded
<1>6. CASE SocketStep
    <2>1. esock \in [EventSockets -> EventSocket]
        BY DEF EventsInv
    <2>2. ASSUME NEW s \in EventSockets, NEW p, ConnectEvents(s, p) PROVE OutboxesBounded'
        <3>1. esock' = [esock EXCEPT ![s] = [st |-> "open", principal |-> p, outbox |-> <<0>>]]
            BY <2>2 DEF ConnectEvents
        <3>2. Len(<<0>>) <= MAX_PENDING_EVENTS
            BY <1>1
        <3> QED
            BY <2>1, <3>1, <3>2 DEF OutboxesBounded
    <2>3. ASSUME NEW s \in EventSockets, SendLoop(s) \/ SendFails(s) PROVE OutboxesBounded'
        <3>1. /\ esock[s].outbox # <<>>
              /\ esock'[s].outbox = Tail(esock[s].outbox)
              /\ \A t \in EventSockets : t # s => esock'[t] = esock[t]
            BY <2>1, <2>3 DEF SendLoop, SendFails, EventSocket
        <3> QED
            BY <1>3, <3>1 DEF OutboxesBounded
    <2>4. Len(Closed.outbox) <= MAX_PENDING_EVENTS
        BY <1>1 DEF Closed
    <2>5. ASSUME NEW s \in EventSockets, StopSender(s) PROVE OutboxesBounded'
        <3>1. \A t \in EventSockets : esock'[t] = esock[t] \/ esock'[t] = Closed
            BY <2>1, <2>5 DEF StopSender
        <3> QED
            BY <2>4, <3>1 DEF OutboxesBounded
    <2>6. CASE BroadcastDisconnect
        <3>1. \A t \in EventSockets : esock'[t] = Closed
            BY <2>6 DEF BroadcastDisconnect
        <3> QED
            BY <2>4, <3>1 DEF OutboxesBounded
    <2> QED
        BY <1>6, <2>2, <2>3, <2>5, <2>6 DEF SocketStep
<1> QED
    BY <1>4, <1>5, <1>6, EventStepKinds DEF QuietStep, eventVars, vars

LEMMA BufferBounded ==
    ASSUME RingInv, Len(buffer) <= MaxSize, [Next]_vars
    PROVE Len(buffer') <= MaxSize
<1>1. now \in Nat /\ RingOK(buffer, Logged, now) /\ MaxSize \in Nat \ {0}
    BY FeedsAssumption DEF RingInv
<1>2. CASE buffer' = buffer
    BY <1>2
<1>3. ASSUME NEW level \in LogLevels,
             buffer' = Pushed(buffer, [n |-> now + 1, level |-> level], MaxSize)
      PROVE Len(buffer') <= MaxSize
    <2>1. PICK m, ring, item : m = now /\ ring = buffer /\ item = [n |-> now + 1, level |-> level]
        OBVIOUS
    <2>2. m \in Nat /\ item \in Logged /\ RingOK(ring, Logged, m) /\ Len(ring) <= MaxSize
        BY <1>1, <2>1 DEF Logged
    <2>3. \/ Len(ring) < MaxSize /\ Len(Pushed(ring, item, MaxSize)) = Len(ring) + 1
          \/ Len(Pushed(ring, item, MaxSize)) = MaxSize
        BY <1>1, <2>2, PushedHolds
    <2>4. Len(ring) \in Nat
        BY <2>2, RingNumbers
    <2>5. buffer' = Pushed(ring, item, MaxSize)
        BY <1>3, <2>1
    <2> QED
        BY <1>1, <2>3, <2>4, <2>5
<1> QED
    BY <1>1, <1>2, <1>3, RingStepKinds DEF vars

LEMMA MoreIsTruth ==
    ASSUME NEW log, NEW level, NEW offset
    PROVE HasMore(log, level, offset) \in BOOLEAN
<1>1. CASE log = "logs"
    <2>1. HasMore(log, level, offset) = (offset + Limit < Len(Source(log, level)))
        BY <1>1, Zenon DEF HasMore
    <2>2. PICK a, b : a = offset + Limit /\ b = Len(Source(log, level))
        OBVIOUS
    <2>3. (a < b) \in BOOLEAN
        BY SMT
    <2> QED
        BY <2>1, <2>2, <2>3, Zenon
<1>2. CASE log # "logs"
    <2>1. HasMore(log, level, offset) = (Len(Page(log, level, offset)) = Limit)
        BY <1>2, Zenon DEF HasMore
    <2> QED
        BY <2>1, Zenon
<1> QED
    BY <1>1, <1>2

LEMMA ReaderStep ==
    ASSUME now \in Nat, ReaderOK, [Next]_vars
    PROVE ReaderOK'
<1>1. CASE reader' = reader
    BY <1>1 DEF ReaderOK
<1>2. ASSUME NEW log \in {"logs", "audit"}, NEW level, NEW p, ReadFirst(log, level, p) PROVE ReaderOK'
    <2>1. PICK limit, seen, start, more :
              /\ limit = Limit /\ seen = Numbers(Page(log, level, 0))
              /\ start = ToSet(Numbers(Source(log, level))) /\ more = HasMore(log, level, 0)
        OBVIOUS
    <2>2. reader' = [log |-> log, level |-> level, offset |-> limit, seen |-> seen,
                     start |-> start, more |-> more]
        BY <1>2, <2>1 DEF ReadFirst
    <2>3. more \in BOOLEAN
        BY <2>1, MoreIsTruth
    <2> QED
        BY <2>2, <2>3 DEF ReaderOK
<1>3. CASE ReadNext
    <2>1. PICK r : r = reader
        OBVIOUS
    <2>2. PICK offset, seen, more :
              /\ offset = r.offset + Limit /\ seen = r.seen \o Numbers(Page(r.log, r.level, r.offset))
              /\ more = HasMore(r.log, r.level, r.offset)
        OBVIOUS
    <2>3. reader' = [r EXCEPT !.offset = offset, !.seen = seen, !.more = more]
        BY <1>3, <2>1, <2>2 DEF ReadNext, ReaderOK
    <2>4. more \in BOOLEAN
        BY <2>2, MoreIsTruth
    <2>5. reader' = [log |-> r.log, level |-> r.level, offset |-> offset, seen |-> seen,
                     start |-> r.start, more |-> more]
        BY <2>1, <2>3 DEF ReaderOK
    <2>6. r.log \in {"none", "logs", "audit"}
        BY <2>1 DEF ReaderOK
    <2> QED
        BY <2>4, <2>5, <2>6 DEF ReaderOK
<1>4. CASE NextReader
    BY <1>2, <1>3, <1>4 DEF NextReader
<1> QED
    BY <1>1, <1>4, AuditStepKinds

\* For any sizes: no outbox, not even that of a client whose sender has failed, the ring
\* buffer and neither deque of the audit log ever holds more than its limit, and
\* every record has its type.
THEOREM TypeCorrect == Spec => []TypeOK
<1> DEFINE Inv == /\ EventsInv /\ OutboxesBounded /\ RingInv /\ Len(buffer) <= MaxSize
                  /\ AuditInv /\ LogsInv /\ ReaderOK
<1>1. Init => Inv
    <2> SUFFICES ASSUME Init PROVE Inv
        OBVIOUS
    <2>1. \A s \in EventSockets : Len(esock[s].outbox) <= MAX_PENDING_EVENTS
        BY FeedsAssumption DEF Init, Closed
    <2>2. Len(buffer) <= MaxSize
        BY FeedsAssumption DEF Init
    <2>3. RingInv
        BY DEF Init, RingInv, RingOK, Timed, Logged
    <2>4. ReaderOK
        BY DEF Init, NotReading, ReaderOK
    <2> QED
        BY <2>1, <2>2, <2>3, <2>4, EventsInit, AuditInit, LogsInit DEF OutboxesBounded
<1>2. Inv /\ [Next]_vars => Inv'
    <2> SUFFICES ASSUME Inv, [Next]_vars PROVE Inv'
        OBVIOUS
    <2>1. EventsInv'
        BY EventsStep
    <2>2. OutboxesBounded'
        BY OutboxesStep
    <2>3. RingInv' /\ Len(buffer)' <= MaxSize
        BY RingStep, BufferBounded
    <2>4. AuditInv' /\ LogsInv'
        BY AuditStep, LogsStep
    <2>5. now \in Nat
        BY DEF AuditInv
    <2>6. ReaderOK'
        BY <2>5, ReaderStep
    <2> QED
        BY <2>1, <2>2, <2>3, <2>4, <2>6
<1>3. Inv => TypeOK
    <2> SUFFICES ASSUME Inv PROVE TypeOK
        OBVIOUS
    <2>1. now \in Nat /\ protected \in BOOLEAN /\ esock \in [EventSockets -> EventSocket]
        BY DEF EventsInv
    <2>2. \A s \in EventSockets : esock[s].st \in {"off", "open", "broken"} /\ esock[s].principal \in Principals
        BY <2>1 DEF EventSocket
    <2>3. lsock \in [LogSockets -> {"off", "open", "broken"}]
        BY DEF LogsInv
    <2>4. Len(entries) <= MAX_ENTRIES /\ Len(failed) <= MAX_FAILED_LOGIN_ENTRIES
        BY DEF AuditInv, NewestOK
    <2> QED
        BY <2>1, <2>2, <2>3, <2>4 DEF TypeOK, OutboxesBounded, ReaderOK
<1> QED
    BY <1>1, <1>2, <1>3, PTL DEF Spec
=============================================================================
