------------------------------- MODULE Feeds -------------------------------
(***************************************************************************)
(* What the server tells its clients as it runs: the event bus and the     *)
(* event sockets with their bounded outboxes (cli_event_bus.py,            *)
(* cli_event_socket_manager.py), the log sockets                           *)
(* (cli_log_socket_manager.py), the ring buffer behind GET /logs           *)
(* (log_ring_buffer.py) and the audit log (in_memory_audit_store.py) with  *)
(* its audit:recorded events.  Clients connect, fall behind and leave; a   *)
(* reader pages through a log while entries arrive and old ones go.        *)
(*                                                                         *)
(* Everything recorded has a number, which is also its time.               *)
(***************************************************************************)
EXTENDS Naturals, FiniteSets, Sequences, SequencesExt, FiniteSetsExt

CONSTANTS EventSockets, LogSockets,
          LogLevels,      \* level names of the records logged
          LevelFilter(_), \* the level a log socket asked for, or "all"
          MaxEntries,     \* bound: everything recorded or published
          MAX_PENDING_EVENTS, MaxSize,                  \* outbox, ring buffer
          MAX_ENTRIES, MAX_FAILED_LOGIN_ENTRIES,        \* audit log
          Limit,          \* the page a reader asks for
          Ranges, Buckets, \* histogram requests
          Rounding,       \* error of a float division, in the parts a column has
          Mixes           \* bound: which clients and feeds one behaviour uses

ASSUME FeedsAssumption ==
    /\ {MAX_PENDING_EVENTS, MaxSize, MAX_ENTRIES, MAX_FAILED_LOGIN_ENTRIES, Limit, MaxEntries}
           \subseteq Nat \ {0}
    /\ Rounding \in Nat
    /\ Buckets \subseteq Nat \ {0}
    /\ \A range \in Ranges : range[1] \in Nat /\ range[2] \in Nat /\ range[1] < range[2]

VARIABLES
    mix,       \* which clients and feeds this behaviour uses
    now,       \* how many entries and events there have been
    protected, \* an auth plugin is mounted
    esock,     \* event sockets: state, principal and outbox
    got,       \* the events each socket was sent
    heard,     \* per socket: since when it is connected, and what it was too slow for
    events,    \* every event published, with the protection there was
    lsock,     \* log sockets: off, open, or open with sends that fail
    flying,    \* log sends under way: the record and whom it is for
    shown,     \* per log socket: since when it is connected, and what it was sent
    logged,    \* every record logged on the loop while log sockets were connected
    buffer,    \* the ring buffer
    entries, failed,  \* the audit log: failed sign-ins are kept apart
    recorded,  \* every audit entry that was not cleared or pruned
    reader     \* a client that pages through one of the logs

vars == <<mix, now, protected, esock, got, heard, events, lsock, flying, shown, logged, buffer,
          entries, failed, recorded, reader>>
eventVars == <<esock, got, heard, events>>
logVars == <<lsock, flying, shown, logged, buffer>>
auditVars == <<entries, failed, recorded>>

(* A deque of bounded length drops its oldest item. *)
Pushed(deque, item, maxlen) ==
    LET all == Append(deque, item)
    IN  IF Len(all) > maxlen THEN Tail(all) ELSE all

-----------------------------------------------------------------------------
(* Event sockets *)

Principals == {"none", "reader", "user"}  \* none, holds audit:read and logs:read, is the user
Can(principal, permission) == principal = "reader" /\ permission \in {"audit:read", "logs:read"}
(* A protected server takes a socket with a ticket, and the log socket only *)
(* from a caller with logs:read.                                            *)
SocketGate(principal, socket) ==
    protected => principal # "none" /\ (socket = "logs" => Can(principal, "logs:read"))

Audiences == {"everyone", "audit:read", "user"}
(* Mutant: requires_auth is left at its default. *)
ReceivesUnasked(principal, audience) ==
    \/ audience = "everyone" \/ principal = "none"
    \/ audience = "user" /\ principal = "user"
    \/ audience = "audit:read" /\ Can(principal, "audit:read")
Receives(principal, audience) ==
    \/ audience = "everyone"
    \/ IF principal = "none" THEN ~protected
       ELSE \/ audience = "user" /\ principal = "user"
            \/ audience = "audit:read" /\ Can(principal, "audit:read")

Closed == [st |-> "off", principal |-> "none", outbox |-> <<>>]
(* The hello message is a message like any other: event 0. *)
ConnectEvents(s, principal) ==
    /\ esock[s].st = "off"
    /\ SocketGate(principal, "events")
    /\ esock' = [esock EXCEPT ![s] = [st |-> "open", principal |-> principal, outbox |-> <<0>>]]
    /\ got' = [got EXCEPT ![s] = <<>>]
    /\ heard' = [heard EXCEPT ![s] = [since |-> now, full |-> {}]]
    /\ UNCHANGED <<now, protected, events, logVars, auditVars, reader>>

Enqueue(outbox, message) ==
    IF Len(outbox) < MAX_PENDING_EVENTS THEN Append(outbox, message) ELSE outbox
Clients == {s \in EventSockets : esock[s].st \in {"open", "broken"}}
(* Publishing never waits: every client of the audience gets it queued. *)
PublishEvent(audience) ==
    LET to == {s \in Clients : Receives(esock[s].principal, audience)}
    IN  /\ esock' = [s \in EventSockets |->
              IF s \in to THEN [esock[s] EXCEPT !.outbox = Enqueue(@, now')] ELSE esock[s]]
        /\ heard' = [s \in EventSockets |->
              IF s \in to /\ Len(esock[s].outbox) = MAX_PENDING_EVENTS
              THEN [heard[s] EXCEPT !.full = @ \cup {now'}] ELSE heard[s]]
        /\ events' = Append(events, [n |-> now', audience |-> audience, protected |-> protected])
        /\ UNCHANGED got
Publish(audience) ==
    /\ now' = now + 1
    /\ PublishEvent(audience)
    /\ UNCHANGED <<protected, logVars, auditVars, reader>>

(* The sender takes the oldest message; a failed send ends it for good. *)
SendLoop(s) ==
    /\ esock[s].st = "open" /\ esock[s].outbox # <<>>
    /\ esock' = [esock EXCEPT ![s].outbox = Tail(@)]
    /\ got' = [got EXCEPT ![s] = Append(@, Head(esock[s].outbox))]
    /\ UNCHANGED <<now, protected, heard, events, logVars, auditVars, reader>>
SendFails(s) ==
    /\ esock[s].st = "open" /\ esock[s].outbox # <<>>
    /\ esock' = [esock EXCEPT ![s].outbox = Tail(@), ![s].st = "broken"]
    /\ UNCHANGED <<now, protected, got, heard, events, logVars, auditVars, reader>>
(* The client leaves or its session ends: what waited for it is dropped. *)
StopSender(s) ==
    /\ s \in Clients
    /\ esock' = [esock EXCEPT ![s] = Closed]
    /\ UNCHANGED <<now, protected, got, heard, events, logVars, auditVars, reader>>
NotShown == [since |-> 0, sent |-> {}]
(* Server shutdown. *)
BroadcastDisconnect ==
    /\ Clients # {} \/ \E s \in LogSockets : lsock[s] # "off"
    /\ esock' = [s \in EventSockets |-> Closed]
    /\ lsock' = [s \in LogSockets |-> "off"]
    /\ flying' = {} /\ shown' = [s \in LogSockets |-> NotShown]
    /\ UNCHANGED <<now, protected, got, heard, events, logged, buffer, auditVars, reader>>
(* The users plugin is mounted: set_authentication_required. *)
Mount ==
    /\ ~protected
    /\ protected' = TRUE
    /\ UNCHANGED <<now, eventVars, logVars, auditVars, reader>>

-----------------------------------------------------------------------------
(* Logs *)

Ordered == <<"verbose", "debug", "information", "warning", "error", "fatal">>
Ordinal(level) == CHOOSE i \in DOMAIN Ordered : Ordered[i] = level
(* Python's level names, as the log sockets name them. *)
MapLogLevel(level) ==
    IF level = "DEBUG" THEN "debug" ELSE IF level = "INFO" THEN "information"
    ELSE IF level = "WARNING" THEN "warning" ELSE IF level = "ERROR" THEN "error" ELSE "fatal"
ShouldSendLog(filter, level) ==
    filter \in {Ordered[i] : i \in DOMAIN Ordered} => Ordinal(level) >= Ordinal(filter)

ConnectLogs(s, principal) ==
    /\ lsock[s] = "off"
    /\ SocketGate(principal, "logs")
    /\ lsock' = [lsock EXCEPT ![s] = "open"]
    /\ shown' = [shown EXCEPT ![s] = [since |-> now, sent |-> {}]]
    /\ UNCHANGED <<now, protected, flying, logged, buffer, eventVars, auditVars, reader>>
(* Sends to a socket that has closed come to nothing. *)
LeaveLogs(s) ==
    /\ lsock[s] # "off"
    /\ lsock' = [lsock EXCEPT ![s] = "off"]
    /\ flying' = {f \in flying : f.to # s}
    /\ shown' = [shown EXCEPT ![s] = NotShown]
    /\ UNCHANGED <<now, protected, logged, buffer, eventVars, auditVars, reader>>
(* A record goes into the ring buffer, and to the log sockets unless it is  *)
(* logged in a thread without an event loop; a record marked sensitive goes *)
(* nowhere.  The broadcast is a task of its own, and so is each of its      *)
(* sends: nothing keeps them in order, and nothing bounds their number.     *)
Emit(level, threaded) ==
    LET targets == {s \in LogSockets : /\ ~threaded /\ lsock[s] # "off"
                                       /\ ShouldSendLog(LevelFilter(s), MapLogLevel(level))}
    IN  /\ now' = now + 1
        /\ buffer' = Pushed(buffer, [n |-> now', level |-> level], MaxSize)
        /\ flying' = flying \cup {[n |-> now', to |-> s] : s \in targets}
        /\ logged' = IF threaded \/ \A s \in LogSockets : lsock[s] = "off" THEN logged
                     ELSE logged \cup {[n |-> now', level |-> level]}
        /\ UNCHANGED <<protected, lsock, shown, eventVars, auditVars, reader>>
EmitSensitive ==
    /\ now' = now + 1
    /\ UNCHANGED <<protected, eventVars, logVars, auditVars, reader>>
(* send_text returns. *)
SafeSend(f) ==
    /\ lsock[f.to] = "open"
    /\ shown' = [shown EXCEPT ![f.to].sent = @ \cup {f.n}]
    /\ flying' = flying \ {f}
    /\ UNCHANGED <<now, protected, lsock, logged, buffer, eventVars, auditVars, reader>>
(* Mutant: the targets are served in one try block. *)
SafeSendFailsForAll(f) ==
    /\ lsock' = [lsock EXCEPT ![f.to] = "broken"]
    /\ flying' = {g \in flying : g.n # f.n}
    /\ shown' = [shown EXCEPT ![f.to] = NotShown]
    /\ UNCHANGED <<now, protected, logged, buffer, eventVars, auditVars, reader>>
(* send_text raises, which nobody is told: the client stays registered. *)
SafeSendFails(f) ==
    /\ lsock' = [lsock EXCEPT ![f.to] = "broken"]
    /\ flying' = flying \ {f}
    /\ shown' = [shown EXCEPT ![f.to] = NotShown]
    /\ UNCHANGED <<now, protected, logged, buffer, eventVars, auditVars, reader>>

HistogramLevel(level) ==
    IF level = "DEBUG" THEN "DEBUG" ELSE IF level = "INFO" THEN "INFO"
    ELSE IF level = "WARNING" THEN "WARN" ELSE IF level \in {"ERROR", "CRITICAL"} THEN "ERROR"
    ELSE "none"
(* The level filter of GET /logs: no alias but WARN. *)
MatchesLevel(level, wanted) == level = wanted \/ (wanted = "WARN" /\ level = "WARNING")
(* Mutant: the end of the range is included. *)
InRangeInclusive(t, range) == range[1] <= t /\ t <= range[2]
InRange(t, range) == range[1] <= t /\ t < range[2]
(* (stamp - since) // bucket_ms, clamped to the columns.  The three are     *)
(* floats: a stamp close to the edge of a column may be found beyond it.    *)
BucketIndexes(t, range, buckets) ==
    LET width == range[2] - range[1]
        at == (t - range[1]) * buckets
    IN  {i \in 0..(buckets - 1) : /\ i = 0 \/ i * width <= at + Rounding
                                  /\ i = buckets - 1 \/ at < (i + 1) * width + Rounding}
(* For a request: which column each moment may be found in. *)
Roundings == [range \in Ranges |-> [buckets \in Buckets |->
    {column \in [range[1]..range[2] -> 0..(buckets - 1)] :
        \A t \in range[1]..range[2] : column[t] \in BucketIndexes(t, range, buckets)}]]
Histogram(range, buckets, column) ==
    [i \in 0..(buckets - 1) |-> [level \in {"DEBUG", "INFO", "WARN", "ERROR"} |->
        Cardinality({k \in DOMAIN buffer :
            /\ HistogramLevel(buffer[k].level) = level
            /\ InRange(buffer[k].n, range)
            /\ column[buffer[k].n] = i})]]

-----------------------------------------------------------------------------
(* Audit *)

(* Mutant: one deque for everything. *)
LogAuditTogether(kind) ==
    /\ entries' = Pushed(entries, [n |-> now', kind |-> kind], MAX_ENTRIES)
    /\ recorded' = recorded \cup {[n |-> now', kind |-> kind]}
    /\ UNCHANGED failed
    /\ PublishEvent("audit:read")
(* A failed sign-in has its own deque; either way audit:recorded follows. *)
LogAudit(kind) ==
    LET entry == [n |-> now', kind |-> kind]
    IN  /\ IF kind = "login_failed"
           THEN failed' = Pushed(failed, entry, MAX_FAILED_LOGIN_ENTRIES) /\ UNCHANGED entries
           ELSE entries' = Pushed(entries, entry, MAX_ENTRIES) /\ UNCHANGED failed
        /\ recorded' = recorded \cup {entry}
        /\ PublishEvent("audit:read")
Record(kind) ==
    /\ now' = now + 1
    /\ LogAudit(kind)
    /\ UNCHANGED <<protected, logVars, reader>>
(* DELETE: the log is emptied, then says who emptied it. *)
ClearEntries ==
    LET entry == [n |-> now', kind |-> "audit_cleared"]
    IN  /\ now' = now + 1
        /\ entries' = <<entry>> /\ failed' = <<>> /\ recorded' = {entry}
        /\ PublishEvent("audit:read")
        /\ UNCHANGED <<protected, logVars, reader>>
(* A deque without the entries of before a time, in the order it had. *)
Kept(deque, before) ==
    LET stays == {k \in DOMAIN deque : deque[k].n >= before}
        nth(i) == CHOOSE k \in stays : Cardinality({j \in stays : j <= k}) = i
    IN  [i \in 1..Cardinality(stays) |-> deque[nth(i)]]
Prune(before) ==
    /\ entries' = Kept(entries, before) /\ failed' = Kept(failed, before)
    /\ recorded' = {e \in recorded : e.n >= before}
    /\ recorded' # recorded
    /\ UNCHANGED <<now, protected, eventVars, logVars, reader>>

(* Sorted, the newest first: the i-th is the entry that i entries are as new as. *)
Stored == ToSet(entries) \cup ToSet(failed)
Place(all, e) == Cardinality({f \in all : f.n >= e.n})
GetEntries == [i \in 1..Cardinality(Stored) |-> CHOOSE e \in Stored : Place(Stored, e) = i]

-----------------------------------------------------------------------------
(* A reader asks for page after page: GET /logs gives the oldest entries   *)
(* first, GET /audit the newest, each with the entries there are by then.  *)

Query(level) == SelectSeq(buffer, LAMBDA e : level = "any" \/ MatchesLevel(e.level, level))
(* Mutant: GET /audit gives the oldest entries first. *)
SourceOldest(log, level) == IF log = "audit" THEN Reverse(GetEntries) ELSE Query(level)
Source(log, level) == IF log = "audit" THEN GetEntries ELSE Query(level)
Page(log, level, offset) ==
    SubSeq(Source(log, level), offset + 1, Min({offset + Limit, Len(Source(log, level))}))
(* GET /logs says whether there is more; GET /audit has a short last page. *)
HasMore(log, level, offset) ==
    IF log = "logs" THEN offset + Limit < Len(Source(log, level))
    ELSE Len(Page(log, level, offset)) = Limit
Numbers(s) == [i \in DOMAIN s |-> s[i].n]

NotReading == [log |-> "none", level |-> "any", offset |-> 0, seen |-> <<>>, start |-> {},
               more |-> FALSE]
CallerOf(principal, permission) ==
    IF principal = "none" THEN ~protected ELSE Can(principal, permission)
ReadFirst(log, level, principal) ==
    /\ ~reader.more
    /\ CallerOf(principal, IF log = "audit" THEN "audit:read" ELSE "logs:read")
    /\ reader' = [log |-> log, level |-> level, offset |-> Limit,
                  seen |-> Numbers(Page(log, level, 0)),
                  start |-> ToSet(Numbers(Source(log, level))), more |-> HasMore(log, level, 0)]
    /\ UNCHANGED <<now, protected, eventVars, logVars, auditVars>>
ReadNext ==
    /\ reader.more
    /\ reader' = [reader EXCEPT !.offset = @ + Limit,
          !.seen = @ \o Numbers(Page(reader.log, reader.level, reader.offset)),
          !.more = HasMore(reader.log, reader.level, reader.offset)]
    /\ UNCHANGED <<now, protected, eventVars, logVars, auditVars>>

-----------------------------------------------------------------------------
Init ==
    /\ mix \in Mixes
    /\ now = 0 /\ protected \in BOOLEAN
    /\ esock = [s \in EventSockets |-> Closed]
    /\ got = [s \in EventSockets |-> <<>>]
    /\ heard = [s \in EventSockets |-> [since |-> 0, full |-> {}]]
    /\ events = <<>>
    /\ lsock = [s \in LogSockets |-> "off"]
    /\ shown = [s \in LogSockets |-> NotShown]
    /\ flying = {} /\ logged = {} /\ buffer = <<>>
    /\ entries = <<>> /\ failed = <<>> /\ recorded = {}
    /\ reader = NotReading

NextEventSocket ==
    \/ \E s \in EventSockets, p \in Principals : ConnectEvents(s, p)
    \/ \E s \in EventSockets : SendLoop(s)
    \/ \E s \in EventSockets : SendFails(s)
    \/ \E s \in EventSockets : StopSender(s)
    \/ Mount
    \/ BroadcastDisconnect
NextLogSocket ==
    \/ \E s \in LogSockets, p \in Principals : ConnectLogs(s, p)
    \/ \E s \in LogSockets : LeaveLogs(s)
    \/ \E f \in flying : SafeSend(f)
    \/ \E f \in flying : SafeSendFails(f)
    \/ BroadcastDisconnect
NextReader ==
    \/ \E level \in LogLevels \cup {"any"}, p \in Principals : ReadFirst("logs", level, p)
    \/ \E p \in Principals : ReadFirst("audit", "any", p)
    \/ ReadNext
NextEvent == now < MaxEntries /\ \E a \in Audiences : Publish(a)
NextLog ==
    \/ now < MaxEntries /\ \E level \in LogLevels, threaded \in BOOLEAN : Emit(level, threaded)
    \/ now < MaxEntries /\ EmitSensitive
NextAudit ==
    \/ now < MaxEntries /\ \E kind \in {"login_failed", "user_changed"} : Record(kind)
    \/ now < MaxEntries /\ ClearEntries
    \/ \E before \in 1..now : Prune(before)

Next ==
    /\ UNCHANGED mix
    /\ \/ "event sockets" \in mix /\ NextEventSocket
       \/ "log sockets" \in mix /\ NextLogSocket
       \/ "reader" \in mix /\ NextReader
       \/ "events" \in mix /\ NextEvent
       \/ "logs" \in mix /\ NextLog
       \/ "audit" \in mix /\ NextAudit

Spec == Init /\ [][Next]_vars

-----------------------------------------------------------------------------
(* The records are what they should be; every queue keeps its bound. *)
TypeOK ==
    /\ now \in Nat /\ protected \in BOOLEAN
    /\ \A s \in EventSockets :
          /\ esock[s].st \in {"off", "open", "broken"} /\ esock[s].principal \in Principals
          /\ Len(esock[s].outbox) <= MAX_PENDING_EVENTS
    /\ lsock \in [LogSockets -> {"off", "open", "broken"}]
    /\ Len(buffer) <= MaxSize /\ Len(entries) <= MAX_ENTRIES
    /\ Len(failed) <= MAX_FAILED_LOGIN_ENTRIES
    /\ reader.log \in {"none", "logs", "audit"} /\ reader.more \in BOOLEAN

Increasing(s) == \A i, j \in DOMAIN s : i < j => s[i] < s[j]
Hears(principal, event) ==
    \/ event.audience = "everyone"
    \/ principal = "none" /\ ~event.protected
    \/ principal = "user" /\ event.audience = "user"
    \/ principal = "reader" /\ event.audience = "audit:read"
(* A connected event client is sent, once and in the order of their        *)
(* publication, exactly the events published since it connected that were  *)
(* for it when they were published, less those that found its outbox full  *)
(* - also when the server became protected after it connected (publish,    *)
(* publish_event, _receives, _enqueue, _send_loop).                        *)
EventsReachAudience ==
    \A s \in EventSockets : esock[s].st = "open" =>
        /\ Increasing(got[s] \o esock[s].outbox)
        /\ ToSet(got[s] \o esock[s].outbox) =
              {0} \cup {e.n : e \in {f \in ToSet(events) :
                  /\ f.n > heard[s].since /\ f.n \notin heard[s].full
                  /\ Hears(esock[s].principal, f)}}

(* A log client whose sends succeed is sent, or about to be, exactly the    *)
(* records given to the log sockets since it connected that are of the      *)
(* level it asked for or above, each once, whichever other clients fail or  *)
(* leave while the sends are under way (broadcast_log, _do_broadcast,       *)
(* _safe_send, should_send_log).                                            *)
LogsReachClients ==
    \A s \in LogSockets : lsock[s] = "open" =>
        LET waiting == {f.n : f \in {g \in flying : g.to = s}}
        IN  /\ shown[s].sent \cap waiting = {}
            /\ shown[s].sent \cup waiting =
                  {r.n : r \in {q \in logged : /\ q.n > shown[s].since
                                              /\ ShouldSendLog(LevelFilter(s), MapLogLevel(q.level))}}

(* "a flood of them cannot evict the rest": GET /audit lists, newest first, *)
(* the newest MAX_ENTRIES of the entries recorded, and neither cleared nor *)
(* pruned, that are not failed sign-ins, all of them if there are fewer,   *)
(* however many failed sign-ins there were between them                    *)
(* (InMemoryAuditStore.log, prune, clear, get_entries).                    *)
AuditKeepsOthers ==
    LET others == {e \in recorded : e.kind # "login_failed"}
        listed == {e \in ToSet(GetEntries) : e.kind # "login_failed"}
    IN  /\ listed \subseteq others
        /\ \A e \in listed, f \in others \ listed : f.n < e.n
        /\ Cardinality(listed) = Min({MAX_ENTRIES, Cardinality(others)})
        /\ \A i, j \in DOMAIN GetEntries : i < j => GetEntries[i].n > GetEntries[j].n

(* A client that has read GET /audit page by page to the end saw every     *)
(* entry that was there from its first request to now, whatever was        *)
(* recorded, evicted, pruned or cleared between its requests: entries come *)
(* newest first, so none moves to a page already read (list_entries).      *)
AuditPagesMissNothing ==
    (reader.log = "audit" /\ ~reader.more) =>
        reader.start \cap ToSet(Numbers(GetEntries)) \subseteq ToSet(reader.seen)

(* However the floats are rounded, two neighbouring columns together count *)
(* at least the entries logged well between their edges and at most those  *)
(* of the range within the error of them, each once, and one column alone  *)
(* does; the first and the last have no outer edge.  So an entry at an edge *)
(* is counted on one of its sides, and no entry out of the range is        *)
(* (LogRingBuffer.histogram).                                              *)
HistogramCounts ==
    \A range \in Ranges, buckets \in Buckets : \A column \in Roundings[range][buckets] :
        \A level \in {"DEBUG", "INFO", "WARN", "ERROR"} :
            LET counts == Histogram(range, buckets, column)
                width == range[2] - range[1]
                at(e) == (e.n - range[1]) * buckets
                asked == {e \in ToSet(buffer) : /\ HistogramLevel(e.level) = level
                                                /\ range[1] <= e.n /\ e.n < range[2]}
            IN  \A i \in 0..(buckets - 1) : \A j \in {i, i + 1} \cap 0..(buckets - 1) :
                    LET both == counts[i][level] + IF i = j THEN 0 ELSE counts[j][level]
                    IN  /\ both >= Cardinality({e \in asked :
                               /\ i = 0 \/ i * width + Rounding <= at(e)
                               /\ j = buckets - 1 \/ at(e) + Rounding < (j + 1) * width})
                        /\ both <= Cardinality({e \in asked :
                               /\ i * width <= at(e) + Rounding
                               /\ at(e) < (j + 1) * width + Rounding})
=============================================================================
