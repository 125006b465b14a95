---------------------------- MODULE FlowExporter ----------------------------
(***************************************************************************)
(* observability.RingBufferExporter (pkg/observability/flowlog.go).  Start,*)
(* Stop and Export are atomic under e.mu; every Start that is not a no-op  *)
(* spawns a goroutine that ranges over the records channel without the     *)
(* lock.  Stop closes the channel, and nothing makes a new one.            *)
(***************************************************************************)
EXTENDS Integers, Sequences, SequencesExt, FiniteSets

CONSTANTS BufSize,       \* capacity of the channel
          MaxRecords,    \* bound on the number of calls of Export
          MaxStarts      \* bound on the number of goroutines

ASSUME BoundsAssumption == BufSize \in Nat \ {0} /\ MaxRecords \in Nat /\ MaxStarts \in Nat

VARIABLES flowRunning,   \* e.running
          records,       \* the channel's buffer
          closed,        \* the channel is closed
          readers,       \* readers[g]: state of goroutine g, see ReaderStates
          inHand,        \* inHand[g]: the record goroutine g is busy with
          exported,      \* history: records Export was called with
          accepted,      \* history: records Export returned nil for, in order
          processed,     \* history: records a goroutine is done with
          panicked       \* a send on the closed channel ended the process

flowVars == <<flowRunning, records, closed, readers, inHand, exported, accepted, processed, panicked>>

Goroutines == 1 .. MaxStarts
Records == 1 .. MaxRecords

NoRecord == 0

ReaderStates == {"none", "receiving", "busy", "returned"}

FlowInit ==
  /\ flowRunning = FALSE
  /\ records = <<>>
  /\ closed = FALSE
  /\ readers = [g \in Goroutines |-> "none"]
  /\ inHand = [g \in Goroutines |-> NoRecord]
  /\ exported = 0
  /\ accepted = <<>>
  /\ processed = {}
  /\ panicked = FALSE

\* A second Start while running returns nil and does nothing.
Start ==
  /\ ~panicked /\ ~flowRunning
  /\ flowRunning' = TRUE
  /\ \E g \in Goroutines :
       /\ readers[g] = "none" /\ \A h \in 1 .. (g - 1) : readers[h] # "none"
       /\ readers' = [readers EXCEPT ![g] = "receiving"]
  /\ UNCHANGED <<records, closed, inHand, exported, accepted, processed, panicked>>

\* Closing the closed channel again, after a second Start, panics too.
\* (Bug: what is buffered goes away with the channel.)
Stop_Discards ==
  /\ ~panicked /\ flowRunning
  /\ flowRunning' = FALSE
  /\ IF closed THEN panicked' = TRUE /\ UNCHANGED <<closed, records>>
               ELSE closed' = TRUE /\ records' = <<>> /\ UNCHANGED panicked
  /\ UNCHANGED <<readers, inHand, exported, accepted, processed>>

Stop ==
  /\ ~panicked /\ flowRunning
  /\ flowRunning' = FALSE
  /\ IF closed THEN panicked' = TRUE /\ UNCHANGED closed
               ELSE closed' = TRUE /\ UNCHANGED panicked
  /\ UNCHANGED <<records, readers, inHand, exported, accepted, processed>>

\* Bug: running is not looked at.
Export_Unchecked ==
  /\ ~panicked /\ exported < MaxRecords
  /\ exported' = exported + 1
  /\ IF closed THEN panicked' = TRUE /\ UNCHANGED <<records, accepted>>
     ELSE /\ UNCHANGED panicked
          /\ IF Len(records) < BufSize
             THEN /\ records' = Append(records, exported + 1)
                  /\ accepted' = Append(accepted, exported + 1)
             ELSE UNCHANGED <<records, accepted>>
  /\ UNCHANGED <<flowRunning, closed, readers, inHand, processed>>

\* An error when not running; dropped, with an error, when the buffer is full.
Export ==
  /\ ~panicked /\ exported < MaxRecords
  /\ exported' = exported + 1
  /\ IF ~flowRunning THEN UNCHANGED <<records, accepted, panicked>>
     ELSE IF closed THEN panicked' = TRUE /\ UNCHANGED <<records, accepted>>
     ELSE /\ UNCHANGED panicked
          /\ IF Len(records) < BufSize
             THEN /\ records' = Append(records, exported + 1)
                  /\ accepted' = Append(accepted, exported + 1)
             ELSE UNCHANGED <<records, accepted>>
  /\ UNCHANGED <<flowRunning, closed, readers, inHand, processed>>

-----------------------------------------------------------------------------
(* The goroutine: for range e.records.                                     *)

Receive(g) ==
  /\ ~panicked /\ readers[g] = "receiving" /\ records # <<>>
  /\ readers' = [readers EXCEPT ![g] = "busy"]
  /\ inHand' = [inHand EXCEPT ![g] = Head(records)]
  /\ records' = Tail(records)
  /\ UNCHANGED <<flowRunning, closed, exported, accepted, processed, panicked>>

Process(g) ==
  /\ ~panicked /\ readers[g] = "busy"
  /\ readers' = [readers EXCEPT ![g] = "receiving"]
  /\ processed' = processed \cup {inHand[g]}
  /\ inHand' = [inHand EXCEPT ![g] = NoRecord]
  /\ UNCHANGED <<flowRunning, records, closed, exported, accepted, panicked>>

\* Bug: the goroutine leaves as soon as the exporter does not run.
Return_AtOnce(g) ==
  /\ ~panicked /\ readers[g] = "receiving" /\ closed
  /\ readers' = [readers EXCEPT ![g] = "returned"]
  /\ UNCHANGED <<flowRunning, records, closed, inHand, exported, accepted, processed, panicked>>

\* range ends when the channel is closed and empty.
Return(g) ==
  /\ ~panicked /\ readers[g] = "receiving" /\ closed /\ records = <<>>
  /\ readers' = [readers EXCEPT ![g] = "returned"]
  /\ UNCHANGED <<flowRunning, records, closed, inHand, exported, accepted, processed, panicked>>

Reader(g) == Receive(g) \/ Process(g) \/ Return(g)

FlowNext == Start \/ Stop \/ Export \/ \E g \in Goroutines : Reader(g)

\* The Go scheduler runs the goroutines; nobody has to call anything.
Fairness == \A g \in Goroutines : WF_flowVars(Reader(g))

FlowSpec == FlowInit /\ [][FlowNext]_flowVars
FlowFairSpec == FlowSpec /\ Fairness

-----------------------------------------------------------------------------
(* Properties.                                                             *)

InHand == {inHand[g] : g \in Goroutines} \ {NoRecord}

\* No record that Export accepted is lost, none is processed that it refused or
\* dropped, and none twice: an accepted record is in exactly one of the buffer,
\* a goroutine's hand and the processed ones, across Stop and a second Start.
AcceptedIsAccountedFor ==
  /\ ToSet(accepted) = ToSet(records) \cup InHand \cup processed
  /\ Len(accepted) = Len(records) + Cardinality(InHand) + Cardinality(processed)

\* Stop racing Export and Stop called twice never send on, or close, a closed
\* channel: only a Start after a Stop leads to a panic.
OnlyRestartPanics ==
  panicked => Cardinality({g \in Goroutines : readers[g] # "none"}) > 1

\* Whatever Export accepted is processed, also when Stop comes right after it:
\* the closed channel is drained.
AcceptedIsProcessed ==
  \A r \in Records : (r \in ToSet(accepted)) ~> (r \in processed \/ panicked)
=============================================================================
