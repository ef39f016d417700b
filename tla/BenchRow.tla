------------------------------ MODULE BenchRow ------------------------------
(***************************************************************************)
(* How one benchmark row comes about (bench/vllm_client.py, sampler.py,    *)
(* apple_sampler.py, metrics/compute.py and costmodel.py, bundle.py): a    *)
(* sampler reads power and an energy counter while one request after the   *)
(* other is streamed, and from the samples and the answers the energy, its *)
(* share for each item and the latencies are computed, and it is decided   *)
(* whether the row may leave the box.                                      *)
(*                                                                         *)
(* Time is in ticks of the sampler, energy in the draw of one of them.     *)
(***************************************************************************)
EXTENDS Integers, Sequences, FiniteSetsExt

CONSTANTS
  Meters,      \* what may be there to measure with
  Items,       \* requests of the task
  MaxPieces,   \* chunks that bear text, in all streams
  Busy, Idle,  \* draw with a request under way, and without
  Nap,         \* ticks that the box sleeps
  Before,      \* what NVML's counter shows when the run begins
  MaxNow, MaxFaults

ASSUME MetersAssumption == Meters \subseteq {"nvml", "no counter", "stuck counter", "apple"}
ASSUME RowNumbersAssumption ==
  {Items, MaxPieces, Busy, Idle, Nap, Before, MaxNow, MaxFaults} \subseteq Nat

VARIABLES
  meter,
  now, drawn,   \* what the card has drawn since the run began
  base,         \* the counter stands at drawn + base
  samples,
  phase,
  item, items,  \* the request under way, and those answered
  streaming_used,
  row, fate,
  faults

rowVars == <<meter, now, drawn, base, samples, phase, item, items, streaming_used, row, fate, faults>>

Nil == -1

(* f[1] + ... + f[n], for every n.  A recursive function, and no sum of a    *)
(* library, so that proofs can go by its index.                             *)
Totals(f) == LET T[i \in 0 .. Len(f)] == IF i = 0 THEN 0 ELSE T[i - 1] + f[i] IN T
Total(f) == Totals(f)[Len(f)]

(* A piece: the channel of a chunk that has text, and whether it is blank *)
Pieces == {<<"content", "word">>, <<"content", "blank">>, <<"reasoning", "word">>}

(* at: when the pieces arrived; tokens: by the usage of the answer *)
Item == [mode : {"stream", "plain"}, start : Nat, end : Nat \cup {Nil},
         pieces : Seq(Pieces), at : Seq(Nat), tokens : Nat, text : {"", "content", "reasoning"}]
NoItem == [mode |-> "stream", start |-> 0, end |-> Nil, pieces |-> <<>>, at |-> <<>>,
           tokens |-> 0, text |-> ""]
Sample == [ts : Nat, power : {Nil, Idle, Busy}, energy : Nat \cup {Nil}]
NoRow == [counter |-> Nil, integral2 |-> Nil, energy |-> <<>>, ttft |-> <<>>, gaps |-> <<>>]

RowTypeOK ==
  /\ meter \in Meters /\ now \in Nat /\ drawn \in Nat
  /\ base \in Int /\ drawn + base >= 0
  /\ samples \in Seq(Sample)
  /\ phase \in {"start", "item", "stream", "plain", "compute", "export", "over"}
  /\ item \in Item /\ items \in Seq(Item)
  /\ streaming_used \in BOOLEAN
  /\ row \in [counter : Int, integral2 : Int, energy : Seq(Int), ttft : Seq(Int), gaps : Seq(Seq(Int))]
  /\ fate \in {"none", "no row", "raised", "held", "sent"}
  /\ faults \in 0 .. MaxFaults

RowInit ==
  /\ meter \in Meters /\ now = 0 /\ drawn = 0
  /\ base = IF meter = "apple" THEN 0 ELSE Before
  /\ samples = <<>> /\ phase = "start" /\ item = NoItem /\ items = <<>>
  /\ streaming_used = TRUE /\ row = NoRow /\ fate = "none" /\ faults = 0

Fault == faults < MaxFaults /\ faults' = faults + 1
NoFault == UNCHANGED faults

Measuring == phase \in {"item", "stream", "plain"}
Draw == IF phase \in {"stream", "plain"} THEN Busy ELSE Idle

-----------------------------------------------------------------------------
(* The sampler *)

Energy(total) ==
  CASE meter \in {"nvml", "apple"} -> total
    [] meter = "no counter" -> Nil
    [] meter = "stuck counter" -> 0

Takes(power, energy) ==
  samples' = Append(samples, [ts |-> now', power |-> power, energy |-> energy])

(* start: the first request is stamped before the loop gets to run and NVML *)
(* is read.  Apple's totals start again, and its first window has to end    *)
(* before it is a sample.                                                   *)
Start ==
  /\ phase = "start" /\ phase' = "stream" /\ NoFault
  /\ item' = [NoItem EXCEPT !.start = now]
  /\ IF meter = "apple"
       THEN UNCHANGED <<now, drawn, samples>>
       ELSE now' = now + 1 /\ drawn' = drawn + Busy /\ Takes(Busy, Energy(drawn' + base))
  /\ UNCHANGED <<meter, base, items, streaming_used, row, fate>>

(* The next tick *)
Tick ==
  /\ Measuring /\ now < MaxNow /\ now' = now + 1
  /\ drawn' = drawn + Draw
  /\ UNCHANGED <<meter, phase, item, items, streaming_used, row, fate>>

(* NVML answers everything, or not the counter, or not the power, or the     *)
(* tick is late and there is no sample                                      *)
SampleNvml ==
  /\ meter # "apple" /\ Tick /\ UNCHANGED base
  /\ \/ Takes(Draw, Energy(drawn' + base)) /\ NoFault
     \/ Takes(Draw, Nil) /\ Fault
     \/ Takes(Nil, Energy(drawn' + base)) /\ Fault
     \/ UNCHANGED samples /\ Fault

(* A window that has no reading of a channel has neither power nor energy,   *)
(* and its energy is missing from the total                                 *)
SampleApple ==
  /\ meter = "apple" /\ Tick
  /\ \/ Takes(Draw, Energy(drawn' + base)) /\ UNCHANGED base /\ NoFault
     \/ Takes(Nil, Nil) /\ base' = base - Draw /\ Fault

(* The driver is loaded again: its counter starts at zero *)
Reload ==
  /\ Measuring /\ meter = "nvml" /\ Fault
  /\ base' = -drawn /\ base' # base
  /\ UNCHANGED <<meter, now, drawn, samples, phase, item, items, streaming_used, row, fate>>

(* The lid is closed between or during requests: no draw and no sample *)
Sleep ==
  /\ Measuring /\ Fault
  /\ now + Nap <= MaxNow /\ now' = now + Nap
  /\ UNCHANGED <<meter, drawn, base, samples, phase, item, items, streaming_used, row, fate>>

-----------------------------------------------------------------------------
(* The client *)

Words(pieces, channel) == \E i \in DOMAIN pieces : pieces[i] = <<channel, "word">>

(* Mutant: any piece of content hides the reasoning *)
StreamedTextPieces(pieces) ==
  IF \E i \in DOMAIN pieces : pieces[i][1] = "content"
    THEN IF Words(pieces, "content") THEN "content" ELSE ""
  ELSE IF Words(pieces, "reasoning") THEN "reasoning" ELSE ""

(* _stream_sse: the pieces of each channel joined, without blanks around     *)
(* them; the reasoning if that leaves no content                            *)
StreamedText(pieces) ==
  IF Words(pieces, "content") THEN "content"
  ELSE IF Words(pieces, "reasoning") THEN "reasoning" ELSE ""

(* _message_text of the message that those pieces are the chunks of *)
MessageText(pieces) ==
  LET Field(channel) == {i \in DOMAIN pieces : pieces[i][1] = channel}
      Strip(text)    == {i \in text : pieces[i][2] # "blank"}
  IN  IF Strip(Field("content")) # {} THEN "content"
      ELSE IF Strip(Field("reasoning")) # {} THEN "reasoning" ELSE ""

Request ==
  /\ phase = "item" /\ Len(items) < Items /\ phase' = "stream" /\ NoFault
  /\ item' = [NoItem EXCEPT !.start = now]
  /\ UNCHANGED <<meter, now, drawn, base, samples, items, streaming_used, row, fate>>

Streamed == Len(item.pieces) + Total([i \in DOMAIN items |-> Len(items[i].at)])

(* A chunk with text on either channel is a generated token, and is timed *)
Chunk ==
  /\ phase = "stream" /\ Streamed < MaxPieces /\ NoFault
  /\ \E p \in Pieces : item' = [item EXCEPT !.pieces = Append(@, p), !.at = Append(@, now)]
  /\ UNCHANGED <<meter, now, drawn, base, samples, phase, items, streaming_used, row, fate>>

Answered(answer) ==
  /\ items' = Append(items, answer) /\ item' = NoItem
  /\ phase' = IF Len(items') = Items THEN "compute" ELSE "item"

(* The end of a stream.  The usage comes in a chunk of its own: an engine    *)
(* that sends none, or an error in its place, leaves a count of zero.       *)
StreamEnds ==
  /\ phase = "stream" /\ now > item.start
  /\ \E usage \in BOOLEAN :
       /\ IF usage THEN NoFault ELSE Fault
       /\ Answered([item EXCEPT !.end = now, !.text = StreamedText(item.pieces),
                                !.tokens = IF usage THEN Len(item.pieces) ELSE 0])
  /\ UNCHANGED <<meter, now, drawn, base, samples, streaming_used, row, fate>>

(* Mutant: the run is still counted as streamed *)
StreamFailsUnnoticed ==
  /\ phase = "stream" /\ Fault /\ phase' = "plain"
  /\ item' = [NoItem EXCEPT !.mode = "plain", !.start = now]
  /\ UNCHANGED <<meter, now, drawn, base, samples, items, streaming_used, row, fate>>

(* Not available, malformed or timed out: the item is asked for again *)
StreamFails ==
  /\ phase = "stream" /\ Fault /\ phase' = "plain"
  /\ item' = [NoItem EXCEPT !.mode = "plain", !.start = now]
  /\ streaming_used' = FALSE
  /\ UNCHANGED <<meter, now, drawn, base, samples, items, row, fate>>

PlainEnds ==
  /\ phase = "plain" /\ now > item.start /\ NoFault
  /\ \E p \in Pieces :
       Answered([item EXCEPT !.end = now, !.pieces = <<p>>, !.text = MessageText(<<p>>),
                             !.tokens = 1])
  /\ UNCHANGED <<meter, now, drawn, base, samples, streaming_used, row, fate>>

-----------------------------------------------------------------------------
(* compute_metrics *)

(* The samples that have a reading of the counter *)
Readings == {i \in DOMAIN samples : samples[i].energy # Nil}
TwoReadings == \E i, j \in Readings : i # j

(* compute_counter_energy: the last reading less the first; a negative one   *)
(* is a counter that was reset                                              *)
CounterEnergy ==
  IF ~TwoReadings THEN Nil
  ELSE LET joules == samples[Max(Readings)].energy - samples[Min(Readings)].energy
       IN  IF joules < 0 THEN Nil ELSE joules

(* Twice the trapezoids under the power samples *)
Integral2 ==
  Total([i \in 1 .. Len(samples) - 1 |->
           (samples[i].power + samples[i + 1].power) * (samples[i + 1].ts - samples[i].ts)])

(* Mutant: the readings around the time, whichever is nearer to the outside *)
ItemEnergyAround(it) ==
  LET before == {i \in Readings : samples[i].ts < it.start}
      after  == {i \in Readings : samples[i].ts >= it.end}
  IN  IF before = {} \/ after = {} THEN Nil
      ELSE samples[Min(after)].energy - samples[Max(before)].energy

ReadBefore(ts) == {i \in Readings : samples[i].ts <= ts}
ReadAfter(ts) == {i \in Readings : samples[i].ts >= ts}

(* What is read t0 of the way of t1 along an energy from e0 to e1 *)
Between(e0, e1, t0, t1) == e0 + (t0 * (e1 - e0)) \div t1

(* _interpolate: nothing outside the readings *)
Interpolate(ts) ==
  IF ReadBefore(ts) = {} \/ ReadAfter(ts) = {} THEN Nil
  ELSE LET lo == Max(ReadBefore(ts))   hi == Min(ReadAfter(ts))
       IN  IF lo = hi THEN samples[lo].energy
           ELSE Between(samples[lo].energy, samples[hi].energy,
                        ts - samples[lo].ts, samples[hi].ts - samples[lo].ts)

(* _item_energy_j *)
ItemEnergy(it) ==
  LET from == Interpolate(it.start)   to == Interpolate(it.end)
  IN  IF ~TwoReadings \/ from = Nil \/ to = Nil \/ to < from THEN Nil ELSE to - from

(* compute_streaming_latency: of the run, if all of it was streamed; an      *)
(* item without a piece counts as answered at once                          *)
Ttfts == [i \in DOMAIN items |->
            IF items[i].at = <<>> THEN 0 ELSE items[i].at[1] - items[i].start]
Gaps(it) == [i \in 1 .. Len(it.at) - 1 |-> it.at[i + 1] - it.at[i]]

Tokens == Total([i \in DOMAIN items |-> items[i].tokens])

Computed ==
  [counter |-> CounterEnergy, integral2 |-> Integral2,
   energy |-> [i \in DOMAIN items |-> ItemEnergy(items[i])],
   ttft |-> IF streaming_used THEN Ttfts ELSE <<>>,
   gaps |-> IF streaming_used THEN [i \in DOMAIN items |-> Gaps(items[i])] ELSE <<>>]

Compute ==
  /\ phase = "compute" /\ NoFault
  /\ IF samples = <<>> \/ Tokens = 0
       THEN fate' = "no row" /\ phase' = "over" /\ UNCHANGED row
     ELSE IF \E i \in DOMAIN samples : samples[i].power = Nil
       THEN fate' = "raised" /\ phase' = "over" /\ UNCHANGED row
     ELSE row' = Computed /\ phase' = "export" /\ UNCHANGED fate
  /\ UNCHANGED <<meter, now, drawn, base, samples, item, items, streaming_used>>

(* Mutant: only a counter that is too large holds a row back *)
GatedUnder(r) == r.counter > 0 /\ (2 * r.counter - r.integral2) * 10 > 2 * r.counter

(* submission_gate_reason: the two totals differ by more than a tenth, in    *)
(* either direction.  A counter that did not move is not compared.          *)
Distance(a, b) == IF a < b THEN b - a ELSE a - b
Gated(r) == r.counter > 0 /\ Distance(r.integral2, 2 * r.counter) * 10 > 2 * r.counter

Export ==
  /\ phase = "export" /\ phase' = "over" /\ NoFault
  /\ fate' = IF Gated(row) THEN "held" ELSE "sent"
  /\ UNCHANGED <<meter, now, drawn, base, samples, item, items, streaming_used, row>>

RowNext ==
  \/ Start \/ SampleNvml \/ SampleApple \/ Reload \/ Sleep \/ Request \/ Chunk \/ StreamEnds \/ StreamFails
  \/ PlainEnds \/ Compute \/ Export

RowSpec == RowInit /\ [][RowNext]_rowVars

-----------------------------------------------------------------------------
Known(e) == IF e = Nil THEN 0 ELSE e

(* The energy of a row, and of its items.  By the counter a row never costs  *)
(* more than the card drew during the run, through sleeps, late and missing  *)
(* samples and a driver that was loaded again; and unless the counter        *)
(* started again, the energies of the items that are known add up to no more *)
(* than the row's.                                                           *)
ItemsShareTheRow ==
  /\ row.counter <= drawn
  /\ (row.counter # Nil /\ (meter = "nvml" => base = Before)) =>
       Total([i \in DOMAIN row.energy |-> Known(row.energy[i])]) <= row.counter

(* Wherever there is a counter that moves, a row that leaves the box has not *)
(* been inflated by a sleep or by samples that were missed: the energy under *)
(* its power samples is within a tenth of what the card drew, or below it.   *)
SentNotInflated ==
  (fate = "sent" /\ row.counter > 0) => 10 * row.integral2 <= 22 * drawn

(* Latencies are reported of what was really streamed: no placeholder of an  *)
(* item that was asked for again is among them, and the times of an item     *)
(* fit into it.                                                              *)
LatencyIsMeasured ==
  \A i \in DOMAIN row.ttft :
    /\ items[i].mode = "stream"
    /\ row.ttft[i] + Total(row.gaps[i]) <= items[i].end - items[i].start

(* An answer is scored alike streamed and not.                              *)
StreamedAsPlain == \A i \in DOMAIN items : items[i].text = MessageText(items[i].pieces)
=============================================================================
