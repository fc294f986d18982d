------------------------------ MODULE LogStream ------------------------------
(* The log of one deployment: the runner stores a line and publishes it on    *)
(* the bus; the event stream of a browser subscribes, sends the stored lines  *)
(* and then what the bus delivers, and the browser reconnects with the id of  *)
(* the last line it has.  The bus is in-process with a bounded buffer, or     *)
(* Redis, where the subscription takes effect some time after it was asked    *)
(* for.  A line that could not be stored, or whose insert was answered with   *)
(* an error though it was done, is published without an id (0), and nobody    *)
(* looks whether a line could be published.                                   *)
EXTENDS Integers, Sequences, SequencesExt, FiniteSets

CONSTANTS
    Buffer,         \* capacity of a subscriber's channel: 32 in the code
    HistoryLimit,   \* maxDeploymentLogHistory: 500 in the code
    MaxLines, MaxUnsaved, MaxBreaks

ASSUME LimitsAssumption ==
    /\ Buffer \in Nat \ {0} /\ HistoryLimit \in Nat \ {0}
    /\ MaxLines \in Nat /\ MaxUnsaved \in Nat /\ MaxBreaks \in Nat

VARIABLES
    redis,      \* the bus has a Redis client, fixed
    rows,       \* deployment_logs: the ids 1 .. rows
    outbox,     \* lines stored or refused, not yet published
    stream,     \* the handler: "closed", "open", "live"
    subscribed, \* the bus delivers to it
    channel,    \* its channel
    last,       \* its lastEventID
    wire,       \* sent to the browser, not yet received
    got,        \* what the browser has received
    unsaved, breaks,
    missed      \* ids a live stream cannot get: never published to it, or beyond the
                \* history limit

logVars == <<redis, rows, outbox, stream, subscribed, channel, last, wire, got, unsaved,
          breaks, missed>>
reader == <<stream, subscribed, channel, last, wire, got, breaks>>

\* The places of the stored lines, and the last id the browser knows, its
\* Last-Event-ID.
Numbered(s) == {i \in DOMAIN s : s[i] > 0}
ClientLast == IF Numbered(got) = {} THEN 0 ELSE got[Max(Numbered(got))]

-----------------------------------------------------------------------------
\* Mutant: a line is sent only when it is two ahead of the last one.
SkipsNext(l, id) == id <= 0 \/ id > l + 1

\* Mutant: what the bus delivers is sent whatever was sent before.
AlwaysSend(l, id) == TRUE

\* advanceLastEventID: whether an event is sent after the event l.
ShouldSend(l, id) ==
    id <= 0 \/ id > l

Advance(l, id) == IF id > l THEN id ELSE l

\* SELECT ... ORDER BY id DESC LIMIT n, in ascending order.
ListRecentDeploymentLogs ==
    LET from == IF rows > HistoryLimit THEN rows - HistoryLimit ELSE 0
    IN  [i \in 1 .. rows - from |-> from + i]

\* SELECT ... WHERE id > l ORDER BY id LIMIT n.
ListDeploymentLogsAfter(l) ==
    LET n == IF rows - l > HistoryLimit THEN HistoryLimit ELSE rows - l
    IN  [i \in 1 .. n |-> l + i]

listDeploymentLogHistory(l) ==
    IF l > 0 THEN ListDeploymentLogsAfter(l) ELSE ListRecentDeploymentLogs

-----------------------------------------------------------------------------
\* Lines that do not reach the bus are lost to a stream that has read its history.
Lost(ids) == IF stream = "live" THEN missed \cup {id \in ids : id > last} ELSE missed

\* The runner's append: AppendDeploymentLog, then Publish.
AppendDeploymentLog ==
    /\ outbox = <<>>
    /\ rows < MaxLines
    /\ rows' = rows + 1
    /\ outbox' = <<rows + 1>>
    /\ UNCHANGED <<reader, unsaved, missed>>

\* The insert fails, or it is done and its answer lost.
AppendFails ==
    /\ outbox = <<>>
    /\ unsaved < MaxUnsaved
    /\ unsaved' = unsaved + 1
    /\ outbox' = <<0>>
    /\ \/ UNCHANGED <<rows, missed>>
       \/ rows < MaxLines /\ rows' = rows + 1 /\ missed' = Lost({rows + 1})
    /\ UNCHANGED reader

HasRoom ==
    redis \/ Len(channel) < Buffer

\* The local bus drops the event of a subscriber whose channel is full.
\* Redis holds it for one that has subscribed.
Publish ==
    /\ outbox # <<>>
    /\ outbox' = <<>>
    /\ LET reaches == subscribed /\ HasRoom
       IN  /\ channel' = IF reaches THEN channel \o outbox ELSE channel
           /\ missed' = IF reaches \/ ~(subscribed \/ redis) THEN missed ELSE Lost(Range(outbox))
    /\ UNCHANGED <<rows, stream, subscribed, last, wire, got, unsaved, breaks>>

\* Redis does not take the line, or the worker dies before it has sent it.  The process
\* of the in-process bus holds the streams too: they break first.
PublishFails ==
    /\ outbox # <<>>
    /\ redis \/ stream = "closed"
    /\ outbox' = <<>>
    /\ missed' = Lost(Range(outbox))
    /\ UNCHANGED <<rows, reader, unsaved>>

-----------------------------------------------------------------------------
\* Mutant: the local subscription too starts only after the history was read.
SubscribeLater == subscribed' = FALSE

\* LogBus.Subscribe: at once in-process, later with Redis.
Subscribe ==
    subscribed' = ~redis

\* streamDeploymentLogs up to the subscription.
Connect ==
    /\ stream = "closed"
    /\ stream' = "open"
    /\ last' = ClientLast
    /\ Subscribe
    /\ UNCHANGED <<rows, outbox, channel, wire, got, unsaved, breaks, missed>>

\* Redis has handled the SUBSCRIBE.
RedisSubscribed ==
    /\ stream # "closed"
    /\ ~subscribed
    /\ subscribed' = TRUE
    /\ UNCHANGED <<rows, outbox, stream, channel, last, wire, got, unsaved, breaks, missed>>

\* The stored lines are read and sent, but for the old ones, which come first.
SendHistory ==
    LET history == listDeploymentLogHistory(last)
        old     == {i \in DOMAIN history : ~ShouldSend(last, history[i])}
        sent    == SubSeq(history, Cardinality(old) + 1, Len(history))
    IN  /\ stream = "open"
        /\ stream' = "live"
        /\ wire' = wire \o sent
        /\ last' = IF history = <<>> THEN last ELSE Advance(last, Last(history))
        /\ missed' = missed \cup ((last + 1 .. rows) \ Range(history))
        /\ UNCHANGED <<rows, outbox, subscribed, channel, got, unsaved, breaks>>

\* An event of the bus is sent or recognised as old.
SendEvent ==
    /\ stream = "live"
    /\ channel # <<>>
    /\ channel' = Tail(channel)
    /\ wire' = IF ShouldSend(last, Head(channel)) THEN Append(wire, Head(channel)) ELSE wire
    /\ last' = Advance(last, Head(channel))
    /\ UNCHANGED <<rows, outbox, stream, subscribed, got, unsaved, breaks, missed>>

\* The browser (external).
Receive ==
    /\ wire # <<>>
    /\ got' = Append(got, Head(wire))
    /\ wire' = Tail(wire)
    /\ UNCHANGED <<rows, outbox, stream, subscribed, channel, last, unsaved, breaks, missed>>

\* The connection breaks: the request's context ends, the channel is removed,
\* and what was on its way is lost.
Break ==
    /\ stream # "closed"
    /\ breaks < MaxBreaks
    /\ breaks' = breaks + 1
    /\ stream' = "closed"
    /\ subscribed' = FALSE
    /\ channel' = <<>> /\ wire' = <<>>
    /\ UNCHANGED <<rows, outbox, last, got, unsaved, missed>>

LogInit ==
    /\ redis \in BOOLEAN
    /\ rows \in 0 .. MaxLines
    /\ outbox = <<>>
    /\ stream = "closed" /\ subscribed = FALSE
    /\ channel = <<>> /\ last = 0 /\ wire = <<>> /\ got = <<>>
    /\ unsaved = 0 /\ breaks = 0 /\ missed = {}

LogNext ==
    /\ \/ AppendDeploymentLog \/ AppendFails \/ Publish \/ PublishFails
       \/ Connect \/ RedisSubscribed \/ SendHistory \/ SendEvent \/ Break
       \/ Receive
    /\ UNCHANGED redis

LogSpec == LogInit /\ [][LogNext]_logVars

\* The handler is straight-line code, the browser's EventSource reconnects by itself,
\* and a worker that has stored a line publishes it, fails to or dies.
Fairness ==
    /\ WF_logVars((Publish \/ PublishFails) /\ UNCHANGED redis)
    /\ WF_logVars(Connect /\ UNCHANGED redis)
    /\ WF_logVars(RedisSubscribed /\ UNCHANGED redis)
    /\ WF_logVars(SendHistory /\ UNCHANGED redis)
    /\ WF_logVars(SendEvent /\ UNCHANGED redis)
    /\ WF_logVars(Receive /\ UNCHANGED redis)

LiveSpec == LogSpec /\ Fairness

-----------------------------------------------------------------------------
\* The type invariant of the module.
LogTypeOK ==
    /\ redis \in BOOLEAN
    /\ rows \in 0 .. MaxLines
    /\ outbox \in Seq(0 .. MaxLines) /\ Len(outbox) <= 1
    /\ stream \in {"closed", "open", "live"} /\ subscribed \in BOOLEAN
    /\ channel \in Seq(0 .. MaxLines) /\ (~redis => Len(channel) <= Buffer)
    /\ last \in 0 .. MaxLines
    /\ wire \in Seq(0 .. MaxLines) /\ got \in Seq(0 .. MaxLines)
    /\ unsaved \in 0 .. MaxUnsaved /\ breaks \in 0 .. MaxBreaks
    /\ missed \subseteq 0 .. MaxLines

\* History and bus overlap, and every reconnection overlaps what came before
\* it; the browser still sees each stored line once, in order.
NeverRepeatsOrReorders ==
    \A i, j \in Numbered(got) : i < j => got[i] < got[j]

\* A line before one the browser has seen was seen too, unless it was never
\* published to its live stream (the channel was full, Redis or the worker
\* failed, the insert seemed to have failed) or lay beyond the history limit:
\* nothing falls between the end of the history and the start of the live
\* events, and what was not published before the history was read is in it.
NoSilentGap ==
    \A id \in 1 .. ClientLast : id \in Range(got) \cup missed

\* Every stored line reaches the browser in the end, over any number of
\* broken connections, unless it was missed in that sense.
EveryLineArrives ==
    \A id \in 1 .. MaxLines : (id <= rows) ~> (id \in Range(got) \cup missed)
=============================================================================
