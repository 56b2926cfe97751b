------------------------------ MODULE LogRelay ------------------------------
(***************************************************************************)
(* The relay of verbose log records to Python (logging/logger.rs): any     *)
(* thread puts records into one bounded channel; the threads that flush    *)
(* pop them in batches and call the Python loggers.  Records are numbered  *)
(* in the order they are made.                                             *)
(***************************************************************************)
EXTENDS Naturals, Sequences, SequencesExt

CONSTANTS Threads,
          Capacity,     \* CHANNEL_BUFFER_SIZE
          Batch,        \* records popped at once without the GIL
          MaxRecords,   \* bound: records made
          MaxFlushes    \* bound: flushes begun

VARIABLES
  stage,      \* "off", "channel" (CHANNEL is set) or "on" (the logger is)
  channel,    \* the records in the channel
  made,       \* number of records made so far
  flow,       \* flow[t]: what thread t does with the relay
  delivered,  \* <<record, thread>> in the order the loggers were called
  lost,       \* the records nobody will see
  flushes     \* number of flushes so far

lvars == <<stage, channel, made, flow, delivered, lost, flushes>>

Rest == [pc |-> "idle"]

LInit == /\ stage = "off" /\ channel = <<>> /\ made = 0
         /\ flow = [t \in Threads |-> Rest]
         /\ delivered = <<>> /\ lost = {} /\ flushes = 0

Do(t, f) == flow' = [flow EXCEPT ![t] = f]

(* init_verbose_logging: who finds the channel set does not wait for the    *)
(* thread that set it to install the logger.                                *)
InitLogging(t) == /\ flow[t].pc = "idle"
                  /\ Do(t, [pc |-> IF stage = "off" THEN "create" ELSE "inited"])
                  /\ UNCHANGED <<stage, channel, made, delivered, lost, flushes>>

SetChannel(t) == /\ flow[t].pc = "create"
                 /\ IF stage = "off" THEN stage' = "channel" /\ Do(t, [pc |-> "install"])
                                     ELSE stage' = stage /\ Do(t, [pc |-> "inited"])
                 /\ UNCHANGED <<channel, made, delivered, lost, flushes>>

InstallLogger(t) == /\ flow[t].pc = "install"
                    /\ stage' = "on" /\ Do(t, [pc |-> "inited"])
                    /\ UNCHANGED <<channel, made, delivered, lost, flushes>>

(* init_verbose_logging returns. *)
InitDone(t) == /\ flow[t].pc = "inited" /\ Do(t, Rest)
               /\ UNCHANGED <<stage, channel, made, delivered, lost, flushes>>

(* log: the record is dropped before the logger is on, and when the channel *)
(* is full.                                                                 *)
Log == /\ made < MaxRecords
       /\ made' = made + 1
       /\ IF stage = "on" /\ Len(channel) < Capacity
            THEN channel' = Append(channel, made + 1) /\ lost' = lost
            ELSE lost' = lost \union {made + 1} /\ channel' = channel
       /\ UNCHANGED <<stage, flow, delivered, flushes>>
----------------------------------------------------------------------------
(* A flush, by flush_logs or close() with all records at once, or by the    *)
(* permit of a request with batches.  owed is history: the records that     *)
(* were in the channel when the flush began.                                *)
BeginFlush(t, all) == /\ flow[t].pc = "idle" /\ stage # "off" /\ flushes < MaxFlushes
                      /\ flushes' = flushes + 1
                      /\ Do(t, [pc |-> "pop", all |-> all, batch |-> <<>>, owed |-> ToSet(channel)])
                      /\ UNCHANGED <<stage, channel, made, delivered, lost>>

Limit(t) == IF flow[t].all \/ Len(channel) < Batch THEN Len(channel) ELSE Batch

(* A wrong pop_entries, which receives one more record before it counts. *)
PopBatchCountsLate(t) ==
  /\ flow[t].pc = "pop" /\ channel # <<>>
  /\ Do(t, [flow[t] EXCEPT !.pc = "deliver", !.batch = SubSeq(channel, 1, Limit(t))])
  /\ channel' = SubSeq(channel, Limit(t) + 2, Len(channel))
  /\ UNCHANGED <<stage, made, delivered, lost, flushes>>

(* pop_entries, under the mutex of the receiver. *)
PopBatch(t) == /\ flow[t].pc = "pop" /\ channel # <<>>
               /\ Do(t, [flow[t] EXCEPT !.pc = "deliver", !.batch = SubSeq(channel, 1, Limit(t))])
               /\ channel' = SubSeq(channel, Limit(t) + 1, Len(channel))
               /\ UNCHANGED <<stage, made, delivered, lost, flushes>>

(* The logger of a record is called; it runs Python code, and other threads *)
(* run meanwhile.                                                           *)
Deliver(t) == /\ flow[t].pc = "deliver" /\ flow[t].batch # <<>>
              /\ delivered' = Append(delivered, <<Head(flow[t].batch), t>>)
              /\ Do(t, [flow[t] EXCEPT !.batch = Tail(@)])
              /\ UNCHANGED <<stage, channel, made, lost, flushes>>

(* A logger that raises ends the flush: the batch is gone. *)
DeliverFails(t) == /\ flow[t].pc = "deliver" /\ flow[t].batch # <<>>
                   /\ lost' = lost \union ToSet(flow[t].batch)
                   /\ Do(t, Rest)
                   /\ UNCHANGED <<stage, channel, made, delivered, flushes>>

(* A wrong flush_logs_no_gil, which delivers one batch. *)
EndBatchAtOnce(t) ==
  /\ flow[t].pc = "deliver" /\ flow[t].batch = <<>>
  /\ Do(t, Rest)
  /\ UNCHANGED <<stage, channel, made, delivered, lost, flushes>>

(* With batches the flush goes on until the channel is empty. *)
EndBatch(t) == /\ flow[t].pc = "deliver" /\ flow[t].batch = <<>>
               /\ Do(t, IF flow[t].all THEN Rest ELSE [flow[t] EXCEPT !.pc = "pop"])
               /\ UNCHANGED <<stage, channel, made, delivered, lost, flushes>>

PopNothing(t) == /\ flow[t].pc = "pop" /\ channel = <<>>
                 /\ Do(t, Rest)
                 /\ UNCHANGED <<stage, channel, made, delivered, lost, flushes>>

LInitStep(t) == SetChannel(t) \/ InstallLogger(t)
FlushStep(t) == \/ PopBatch(t) \/ PopNothing(t) \/ EndBatch(t)
                \/ Deliver(t) \/ DeliverFails(t)
----------------------------------------------------------------------------
Batches == {flow[t].batch: t \in {u \in Threads: flow[u].pc = "deliver"}}
Seen == [i \in DOMAIN delivered |-> delivered[i][1]]

LTypeOK == /\ stage \in {"off", "channel", "on"}
           /\ channel \in Seq(1..made) /\ Len(channel) <= Capacity
           /\ made \in 0..MaxRecords /\ lost \subseteq 1..made /\ flushes \in 0..MaxFlushes
           /\ \A t, u \in Threads: flow[t].pc = "install" /\ flow[u].pc = "install" => t = u

(* Every record is in one place, once: in the channel, in the batch of one  *)
(* flush, delivered, or lost because logging was not on, the channel was    *)
(* full or a logger raised.  Two flushes never deliver the same record.     *)
RecordsAccounted ==
  LET places == <<channel, Seen, SetToSeq(lost)>> \o SetToSeq({b \in Batches: b # <<>>})
      all == FlattenSeq(places)
  IN Len(all) = made /\ ToSet(all) = 1..made

(* Each flush delivers in the order the records were made, and what waits   *)
(* in the channel is younger than what any flush has taken out.             *)
OrderKept ==
  /\ \A i, j \in DOMAIN delivered: i < j /\ delivered[i][2] = delivered[j][2] => Seen[i] < Seen[j]
  /\ \A r \in ToSet(channel): \A s \in ToSet(Seen) \union UNION {ToSet(b): b \in Batches}: s < r

(* A flush that returns leaves nothing in the channel of what was there     *)
(* when it began: it is delivered, lost, or in the hands of another flush.  *)
FlushReaches == [][\A t \in Threads: flow[t].pc \in {"pop", "deliver"} /\ flow'[t] = Rest /\ lost' = lost
                                     => ToSet(channel') \intersect flow[t].owed = {}]_lvars
=============================================================================
