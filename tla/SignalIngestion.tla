---------------------------- MODULE SignalIngestion ----------------------------
(***************************************************************************)
(* A signal's way from a source to the embeddings: the Celery tasks that   *)
(* fetch, mark, store and announce it, the topic signals.ingested, and the *)
(* thread of the scoring engine that groups what it reads into batches.    *)
(*                                                                         *)
(* Redis, PostgreSQL, Kafka, the schema registry and the sources are known *)
(* by the answers they give; a call that can raise does so at will.        *)
(***************************************************************************)
EXTENDS Naturals, Sequences, FiniteSets

CONSTANTS
    Workers,      \* Celery processes of the ingestion
    Signals,
    Offers,       \* what the source answers, version by version
    Retries,      \* attempts at a request
    DedupTtl,     \* DEDUP_TTL
    EmbedBatch,   \* EMBED_BATCH_SIZE
    MaxRuns,      \* bound on ingestion tasks
    MaxEvents,    \* bound on expiries of the dedup set and starts of the engine
    NoTag         \* no ETag cached

ASSUME IngestAssumption ==
    /\ IsFiniteSet(Workers) /\ Offers \in Seq(Seq(Signals)) /\ Offers # <<>>
    /\ Retries \in Nat \ {0} /\ DedupTtl \in Nat \ {0} /\ EmbedBatch \in Nat \ {0}
    /\ MaxRuns \in Nat /\ MaxEvents \in Nat
    /\ NoTag \notin Nat

VARIABLES
    version, etag,       \* of the source's page, and as cached in Redis
    marked, ttl,         \* the set signals:dedup, and the time it has left
    signalRows,          \* the signals with a row in the table
    step, sent, attempt, \* of each process: where it is, the ETag it sends
    page, batch,         \* rows it has still to look at, and is to save
    buffer,              \* messages its producer has not delivered
    topic,               \* the messages of signals.ingested
    thread, stopping,    \* the consumer thread, and _stop_event
    offset, group,       \* its position in the topic, and its batch
    embedTasks,          \* batches sent to Celery
    runs, queued,        \* tasks sent, and those not begun
    expiries, starts,
    written, embedded,   \* history: rows inserted, embeddings inserted
    dispatched           \* history: messages dispatched since the last start

sourceVars == <<version, etag>>
dedupVars == <<marked, ttl, expiries>>
tableVars == <<signalRows, written>>
workVars == <<page, batch>>
requestVars == <<sent, attempt>>
queueVars == <<runs, queued>>
consumerVars == <<thread, stopping, offset, group, embedTasks, starts, embedded,
                  dispatched>>
ingestVars == <<sourceVars, dedupVars, tableVars, step, requestVars, workVars,
                buffer, topic, queueVars, consumerVars>>

Places(sequence, s) == {i \in DOMAIN sequence : sequence[i] = s}
InSeq(sequence, s) == Cardinality(Places(sequence, s))

None == [s \in Signals |-> 0]
Plus(count, more) == [s \in Signals |-> count[s] + InSeq(more, s)]

IngestInit ==
    /\ version = 1 /\ etag = NoTag
    /\ marked = {} /\ ttl = 0
    /\ signalRows = {} /\ written = None
    /\ step = [w \in Workers |-> "idle"]
    /\ sent = [w \in Workers |-> NoTag]
    /\ attempt = [w \in Workers |-> 0]
    /\ page = [w \in Workers |-> <<>>]
    /\ batch = [w \in Workers |-> <<>>]
    /\ buffer = [w \in Workers |-> <<>>]
    /\ topic = <<>>
    /\ thread = "off" /\ stopping = FALSE
    /\ offset = 0 /\ group = <<>>
    /\ embedTasks = <<>>
    /\ embedded = None /\ dispatched = None
    /\ runs = 0 /\ queued = 0 /\ expiries = 0 /\ starts = 0

-----------------------------------------------------------------------------
(***************************************************************************)
(* Fetching.                                                               *)
(***************************************************************************)

Goto(w, from, to) == step[w] = from /\ step' = [step EXCEPT ![w] = to]

\* The request of a process is over.
Answered(w) ==
    /\ sent' = [sent EXCEPT ![w] = NoTag]
    /\ attempt' = [attempt EXCEPT ![w] = 0]

\* Its task is over, and what it had in memory is gone.
Leave(w) ==
    /\ step' = [step EXCEPT ![w] = "idle"]
    /\ page' = [page EXCEPT ![w] = <<>>]
    /\ batch' = [batch EXCEPT ![w] = <<>>]
    /\ Answered(w)

\* purge_old_signals
PurgeOld == signalRows' \in SUBSET signalRows

SendTask == runs < MaxRuns /\ runs' = runs + 1 /\ queued' = queued + 1

\* The scheduler sends a task to fetch from the source ...
IngestJob ==
    /\ SendTask
    /\ UNCHANGED <<sourceVars, dedupVars, tableVars, step, requestVars, workVars, buffer,
                   topic, consumerVars>>

\* ... and so does POST /ingest, which purges old rows first.
Ingest ==
    /\ PurgeOld /\ SendTask
    /\ UNCHANGED <<sourceVars, dedupVars, written, step, requestVars, workVars, buffer,
                   topic, consumerVars>>

\* A task begins: old rows are purged, and the adapter reads the cached ETag.
StartIngest(w) ==
    /\ queued > 0 /\ queued' = queued - 1
    /\ Goto(w, "idle", "request")
    /\ PurgeOld
    /\ sent' = [sent EXCEPT ![w] = etag]
    /\ UNCHANGED <<runs, attempt, sourceVars, dedupVars, written, workVars, buffer, topic,
                   consumerVars>>

\* 304 Not Modified: the page yields no row.
NotModified(w) ==
    /\ sent[w] = version
    /\ Goto(w, "request", "check")
    /\ Answered(w)
    /\ UNCHANGED <<sourceVars, dedupVars, tableVars, workVars, buffer, topic, queueVars,
                   consumerVars>>

\* A good answer; its ETag is cached before a row has been looked at.
Answer(w) ==
    /\ Goto(w, "request", "check")
    /\ sent[w] # version
    /\ etag' = version
    /\ page' = [page EXCEPT ![w] = Offers[version]]
    /\ Answered(w)
    /\ UNCHANGED <<version, dedupVars, tableVars, batch, buffer, topic, queueVars,
                   consumerVars>>

\* Slip: one attempt too many.
RequestFailsOnce(w) ==
    /\ step[w] = "request"
    /\ attempt' = [attempt EXCEPT ![w] = @ + 1]
    /\ UNCHANGED <<sourceVars, dedupVars, tableVars, step, sent, workVars, buffer, topic,
                   queueVars, consumerVars>>

\* The connection fails, or the status is an error: its ETag, if it has one, is
\* cached all the same.  The last attempt ends the task.
RequestFails(w) ==
    /\ step[w] = "request"
    /\ etag' \in {etag, version}
    /\ IF attempt[w] + 1 < Retries
       THEN /\ attempt' = [attempt EXCEPT ![w] = @ + 1]
            /\ UNCHANGED <<step, sent, workVars>>
       ELSE Leave(w)
    /\ UNCHANGED <<version, dedupVars, tableVars, buffer, topic, queueVars, consumerVars>>

\* The source has something new.
Change ==
    /\ version < Len(Offers)
    /\ version' = version + 1
    /\ UNCHANGED <<etag, dedupVars, tableVars, step, requestVars, workVars, buffer,
                   topic, queueVars, consumerVars>>

-----------------------------------------------------------------------------
(***************************************************************************)
(* Marking, storing and announcing.                                        *)
(***************************************************************************)

\* SISMEMBER: a signal already marked is passed over.
CheckSeen(w) ==
    /\ page[w] # <<>>
    /\ IF Head(page[w]) \in marked
       THEN /\ page' = [page EXCEPT ![w] = Tail(@)]
            /\ step[w] = "check" /\ UNCHANGED step
       ELSE Goto(w, "check", "mark") /\ UNCHANGED page
    /\ UNCHANGED <<sourceVars, dedupVars, tableVars, requestVars, batch, buffer, topic,
                   queueVars, consumerVars>>

\* SADD and EXPIRE: the mark of one signal prolongs the life of all of them.
MarkSeen(w) ==
    /\ Goto(w, "mark", "check")
    /\ marked' = marked \union {Head(page[w])}
    /\ ttl' = DedupTtl
    /\ page' = [page EXCEPT ![w] = Tail(@)]
    /\ batch' = [batch EXCEPT ![w] = Append(@, Head(page[w]))]
    /\ UNCHANGED <<sourceVars, expiries, tableVars, requestVars, buffer, topic, queueVars,
                   consumerVars>>

\* All the rows of the batch are inserted in one transaction.
Save(w) ==
    /\ page[w] = <<>>
    /\ Goto(w, "check", "announce")
    /\ signalRows' = signalRows \union {batch[w][i] : i \in DOMAIN batch[w]}
    /\ written' = Plus(written, batch[w])
    /\ UNCHANGED <<sourceVars, dedupVars, requestVars, workVars, buffer, topic, queueVars,
                   consumerVars>>

\* Slip: signals are announced before they are stored.
AnnounceEarly(w) ==
    /\ batch[w] # <<>>
    /\ step[w] \in {"check", "announce"} /\ UNCHANGED step
    /\ buffer' = [buffer EXCEPT ![w] = Append(@, Head(batch[w]))]
    /\ batch' = [batch EXCEPT ![w] = Tail(@)]
    /\ UNCHANGED <<sourceVars, dedupVars, tableVars, requestVars, page, topic, queueVars,
                   consumerVars>>

\* produce: the message is handed to the producer, which sends it later.
Announce(w) ==
    /\ batch[w] # <<>>
    /\ step[w] = "announce" /\ UNCHANGED step
    /\ buffer' = [buffer EXCEPT ![w] = Append(@, Head(batch[w]))]
    /\ batch' = [batch EXCEPT ![w] = Tail(@)]
    /\ UNCHANGED <<sourceVars, dedupVars, tableVars, requestVars, page, topic, queueVars,
                   consumerVars>>

EndIngest(w) ==
    /\ batch[w] = <<>>
    /\ Goto(w, "announce", "idle")
    /\ UNCHANGED <<sourceVars, dedupVars, tableVars, requestVars, workVars, buffer,
                   topic, queueVars, consumerVars>>

\* Normalising, embedding, storing or publishing raises: the task is over, the
\* marks stay, and so does what has been stored.
RaiseInTask(w) ==
    /\ step[w] \in {"check", "mark", "announce"}
    /\ Leave(w)
    /\ UNCHANGED <<sourceVars, dedupVars, tableVars, buffer, topic, queueVars, consumerVars>>

\* The process dies; Celery, which has acknowledged the task, starts another.
Crash(w) ==
    /\ step[w] # "idle" \/ buffer[w] # <<>>
    /\ Leave(w)
    /\ buffer' = [buffer EXCEPT ![w] = <<>>]
    /\ UNCHANGED <<sourceVars, dedupVars, tableVars, topic, queueVars, consumerVars>>

\* Time passes: the dedup set may be gone.
Tick ==
    /\ ttl > 0
    /\ ttl = 1 => expiries + starts < MaxEvents
    /\ ttl' = ttl - 1
    /\ marked' = IF ttl = 1 THEN {} ELSE marked
    /\ expiries' = IF ttl = 1 THEN expiries + 1 ELSE expiries
    /\ UNCHANGED <<sourceVars, tableVars, step, requestVars, workVars, buffer, topic,
                   queueVars, consumerVars>>

\* The producer's own thread delivers a message.
Deliver(w) ==
    /\ buffer[w] # <<>>
    /\ buffer' = [buffer EXCEPT ![w] = Tail(@)]
    /\ topic' = Append(topic, Head(buffer[w]))
    /\ UNCHANGED <<sourceVars, dedupVars, tableVars, step, requestVars, workVars, queueVars,
                   consumerVars>>

-----------------------------------------------------------------------------
(***************************************************************************)
(* The consumer thread of the scoring engine.                              *)
(***************************************************************************)

producerVars == <<sourceVars, dedupVars, tableVars, step, requestVars, workVars,
                  buffer, topic, queueVars>>

\* start_consumer: the consumer has no group, so its offset is that of the
\* earliest message whatever an earlier one has read.
StartConsumer ==
    /\ thread = "off" /\ expiries + starts < MaxEvents
    /\ thread' = "running" /\ stopping' = FALSE
    /\ offset' = 0 /\ group' = <<>>
    /\ dispatched' = None
    /\ starts' = starts + 1
    /\ UNCHANGED <<producerVars, embedTasks, embedded>>

Dispatch(messages) ==
    /\ embedTasks' = Append(embedTasks, messages)
    /\ dispatched' = Plus(dispatched, messages)

\* Slip: the batch is dispatched without the message that fills it.
ConsumeShort ==
    /\ thread = "running" /\ ~stopping
    /\ offset < Len(topic)
    /\ offset' = offset + 1
    /\ IF Len(group) + 1 >= EmbedBatch
       THEN Dispatch(group) /\ group' = <<>>
       ELSE group' = Append(group, topic[offset + 1]) /\ UNCHANGED <<embedTasks, dispatched>>
    /\ UNCHANGED <<producerVars, thread, stopping, starts, embedded>>

\* A message joins the batch, and a full batch becomes a Celery task.
Consume ==
    /\ thread = "running" /\ ~stopping
    /\ offset < Len(topic)
    /\ offset' = offset + 1
    /\ LET more == Append(group, topic[offset + 1])
       IN  IF Len(more) >= EmbedBatch
           THEN Dispatch(more) /\ group' = <<>>
           ELSE group' = more /\ UNCHANGED <<embedTasks, dispatched>>
    /\ UNCHANGED <<producerVars, thread, stopping, starts, embedded>>

\* A message that fails its schema, or a task that cannot be sent, raises in the
\* thread, which nobody watches.
ThreadDies ==
    /\ thread = "running"
    /\ thread' = "dead"
    /\ UNCHANGED <<producerVars, stopping, offset, group, embedTasks, starts, embedded,
                   dispatched>>

\* stop_consumer sets the event ...
StopConsumer ==
    /\ thread # "off" /\ ~stopping
    /\ stopping' = TRUE
    /\ UNCHANGED <<producerVars, thread, offset, group, embedTasks, starts, embedded,
                   dispatched>>

\* ... and the thread leaves its loop, at the next message or when the consumer
\* is closed, and dispatches what it has ...
Drain ==
    /\ thread = "running" /\ stopping
    /\ thread' = "off"
    /\ offset' \in {offset, IF offset < Len(topic) THEN offset + 1 ELSE offset}
    /\ IF group = <<>> THEN UNCHANGED <<embedTasks, dispatched>> ELSE Dispatch(group)
    /\ group' = <<>>
    /\ UNCHANGED <<producerVars, stopping, starts, embedded>>

\* ... unless the process ends first.
Kill ==
    /\ thread # "off"
    /\ thread' = "off"
    /\ group' = <<>>
    /\ UNCHANGED <<producerVars, stopping, offset, embedTasks, starts, embedded,
                   dispatched>>

\* batch_embed commits all its embeddings, or raises or dies and none.
Embed ==
    /\ embedTasks # <<>>
    /\ embedTasks' = Tail(embedTasks)
    /\ embedded' \in {embedded, Plus(embedded, Head(embedTasks))}
    /\ UNCHANGED <<producerVars, thread, stopping, offset, group, starts, dispatched>>

IngestNext ==
    \/ \E w \in Workers :
         \/ StartIngest(w) \/ NotModified(w) \/ Answer(w) \/ RequestFails(w)
         \/ CheckSeen(w) \/ MarkSeen(w) \/ Save(w) \/ Announce(w) \/ EndIngest(w)
         \/ RaiseInTask(w) \/ Crash(w) \/ Deliver(w)
    \/ IngestJob \/ Ingest \/ Change \/ Tick
    \/ StartConsumer \/ Consume \/ ThreadDies \/ StopConsumer \/ Drain \/ Kill \/ Embed

IngestSpec == IngestInit /\ [][IngestNext]_ingestVars

-----------------------------------------------------------------------------
(***************************************************************************)
(* What arrives, and how often.                                            *)
(***************************************************************************)

IngestTypeOK ==
    /\ version \in DOMAIN Offers /\ etag \in DOMAIN Offers \union {NoTag}
    /\ marked \subseteq Signals /\ ttl \in 0 .. DedupTtl
    /\ signalRows \subseteq Signals /\ written \in [Signals -> Nat]
    /\ step \in [Workers -> {"idle", "request", "check", "mark", "announce"}]
    /\ sent \in [Workers -> DOMAIN Offers \union {NoTag}]
    /\ attempt \in [Workers -> 0 .. Retries]
    /\ page \in [Workers -> Seq(Signals)] /\ batch \in [Workers -> Seq(Signals)]
    /\ \A w \in Workers : step[w] = "mark" => page[w] # <<>>
    /\ buffer \in [Workers -> Seq(Signals)] /\ topic \in Seq(Signals)
    /\ thread \in {"off", "running", "dead"} /\ stopping \in BOOLEAN
    /\ offset \in 0 .. Len(topic) /\ group \in Seq(Signals)
    /\ embedTasks \in Seq(Seq(Signals))
    /\ runs \in 0 .. MaxRuns /\ queued \in 0 .. runs /\ expiries \in Nat /\ starts \in Nat /\ expiries + starts <= MaxEvents
    /\ embedded \in [Signals -> Nat] /\ dispatched \in [Signals -> Nat]

\* How often a signal is in the sequences that are held, whoever holds them.
Among(held, s) == UNION {{x} \X Places(held[x], s) : x \in DOMAIN held}
Total(held, s) == Cardinality(Among(held, s))

\* A message is about a row that was committed before it, one message a row at
\* the most, whatever raises, dies or is retried on the way.
AnnouncedStored ==
    \A s \in Signals :
        InSeq(topic, s) + Total(buffer, s) <= written[s]

\* The check of a mark and the mark are two calls, so each process may store a
\* signal once, and once more each time the marks have expired; never more.
StoredOncePerMark ==
    \A s \in Signals : written[s] <= Cardinality(Workers) * (1 + expiries)

\* A running consumer has dispatched, or holds in its batch, each message it has
\* passed, once: a batch is never dropped, and never dispatched twice.
ConsumedOnce ==
    thread = "running" /\ ~stopping =>
        \A s \in Signals :
            dispatched[s] + InSeq(group, s) = InSeq(SubSeq(topic, 1, offset), s)

\* A message is embedded once for each start of the scoring engine at the most,
\* though every start reads the topic from its beginning.
EmbeddedOncePerStart ==
    \A s \in Signals : embedded[s] <= starts * InSeq(topic, s)

\* However fetches, expiries and crashes interleave, what is announced is stored, and
\* what is stored was new to the marks.
SignalsAccounted == AnnouncedStored /\ StoredOncePerMark

\* The batches of the consumer thread neither lose nor repeat a message, and none is
\* embedded more often than the thread was started.
BatchesAccounted == ConsumedOnce /\ EmbeddedOncePerStart
=============================================================================
