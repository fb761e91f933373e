------------------------------- MODULE AudioQueue -------------------------------
(***************************************************************************)
(* The packets of system audio between the thread that captures them and    *)
(* the pump that writes PCM.  Until the first video frame gives the epoch   *)
(* the queue keeps the latest packets; then it keeps what the pump has not  *)
(* reached yet.  The pump places each packet where its clock says it        *)
(* belongs, lets packets of one device run follow each other, fills what is *)
(* missing, and accounts for every frame that it could not place.           *)
(* recorder/src/native/audio/capture.rs and mod.rs.                         *)
(***************************************************************************)
EXTENDS Integers, Sequences, SequencesExt

CONSTANTS Sizes,         \* frames of a packet
          PreRoll,       \* capacity of the queue before the epoch
          Capacity,      \* LEAD: capacity afterwards
          Pool,          \* buffers of packets
          Block,         \* frames of a write
          PerFrame,      \* clock units of a frame
          MaxTime, MaxPackets, MaxReopens     \* bounds of a run

\* What the constants must satisfy.
QueueAssumption ==
    /\ Sizes \subseteq Nat \ {0} /\ \A n \in Sizes : n <= Capacity
    /\ PreRoll \in Nat /\ Capacity <= PreRoll /\ Pool \in Nat \ {0}
    /\ Block \in Nat \ {0} /\ PerFrame \in Nat \ {0}

VARIABLES clock,      \* the performance counter
          device,     \* the client: its generation, position and last timestamp
          queue,      \* State::queue
          epoch,      \* State::epoch, or None
          loss,       \* overwritten_end_qpc and startup_loss_until
          pump,       \* cursor and run, and whether it has ended
          tally,      \* the summary, and what it does not name
          output      \* the captured frame at each position, 0 for a fill

vars == <<clock, device, queue, epoch, loss, pump, tally, output>>

None == -1
NoRun == <<>>
Most(a, b) == IF a >= b THEN a ELSE b
Least(a, b) == IF a <= b THEN a ELSE b

Init ==
    /\ clock = 1
    /\ device = [generation |-> 0, position |-> 0, last |-> 0, packets |-> 0]
    /\ queue = <<>> /\ epoch = None
    /\ loss = [overwritten |-> None, until |-> 0]
    /\ pump = [cursor |-> 0, run |-> NoRun, ended |-> FALSE]
    /\ tally = [observed |-> 0, rejected |-> 0, lost |-> 0, overwritten |-> 0, trimmed |-> 0,
                late |-> 0, discarded |-> 0, valid |-> 0, startup |-> 0, idle |-> 0]
    /\ output = <<>>

\* sample_slot: the nearest frame, the even one of two that are as near.
SampleSlot(qpc, from) ==
    LET quotient == (qpc - from) \div PerFrame
        rest == (qpc - from) % PerFrame
    IN  IF 2 * rest > PerFrame \/ (2 * rest = PerFrame /\ quotient % 2 # 0)
        THEN quotient + 1 ELSE quotient

SlotIn(packet, from) == IF packet.slot # None THEN packet.slot ELSE SampleSlot(packet.qpc, from)
FramesOf(packets) == FoldLeft(LAMBDA sum, packet : sum + packet.frames, 0, packets)
Queued == FramesOf(queue)

\* A packet without its first n frames.
Advanced(packet, n) ==
    [packet EXCEPT !.device = @ + n, !.frames = @ - n, !.first = @ + n]

-----------------------------------------------------------------------------
(* capture.                                                                  *)

Tick ==
    /\ clock < MaxTime
    /\ clock' = clock + 1
    /\ UNCHANGED <<device, queue, epoch, loss, pump, tally, output>>

\* How many of the oldest packets give way to one of n frames.
Room == IF epoch = None THEN PreRoll ELSE Capacity
Evicted(n) ==
    CHOOSE k \in 0 .. Len(queue) :
        /\ k = Len(queue) \/ (FramesOf(SubSeq(queue, k + 1, Len(queue))) + n <= Room /\ Pool > Len(queue) - k)
        /\ \A j \in 0 .. k - 1 :
            ~(FramesOf(SubSeq(queue, j + 1, Len(queue))) + n <= Room /\ Pool > Len(queue) - j)

EndOf(packet) == packet.qpc + packet.frames * PerFrame
Latest(packets) == FoldLeft(LAMBDA end, packet : Most(end, EndOf(packet)), loss.overwritten, packets)

\* accept: the packet is queued, unless the driver gives no samples for it.
Accept ==
    /\ device.packets < MaxPackets
    /\ \E n \in Sizes, qpc \in device.last + 1 .. clock, gap \in 0 .. 1, jump \in BOOLEAN, null \in BOOLEAN :
        LET k == Evicted(n)
            gone == SubSeq(queue, 1, k)
            kept == SubSeq(queue, k + 1, Len(queue))
            packet == [qpc |-> qpc, device |-> device.position + gap, frames |-> n, slot |-> None,
                       jump |-> jump, generation |-> device.generation,
                       first |-> tally.observed + 1]
        IN  /\ device' = [device EXCEPT !.position = @ + gap + n, !.last = qpc, !.packets = @ + 1]
            /\ queue' = IF null THEN kept ELSE Append(kept, packet)
            /\ loss' = IF epoch = None /\ k > 0 THEN [loss EXCEPT !.overwritten = Latest(gone)] ELSE loss
            /\ tally' = [tally EXCEPT
                !.observed = @ + n,
                !.lost = IF null THEN @ + n ELSE @,
                !.overwritten = IF epoch = None THEN @ + FramesOf(gone) ELSE @,
                !.discarded = IF epoch = None THEN @ ELSE @ + FramesOf(gone)]
    /\ UNCHANGED <<clock, epoch, pump, output>>

\* A packet from the future, from the past or without a timestamp ends the client.
Reject ==
    /\ device.packets < MaxPackets /\ device.generation < MaxReopens
    /\ \E n \in Sizes :
        tally' = [tally EXCEPT !.rejected = @ + n, !.discarded = @ + n]
    /\ device' = [generation |-> device.generation + 1, position |-> 0, last |-> 0,
                  packets |-> device.packets + 1]
    /\ UNCHANGED <<clock, queue, epoch, loss, pump, output>>

-----------------------------------------------------------------------------
(* begin_transport: align_pre_roll.                                          *)

Before(packet, from) == Least(Most(0, 0 - SampleSlot(packet.qpc, from)), packet.frames)

\* Packets wholly before the epoch go; the first that is not is trimmed.
Trimmed(from) ==
    LET k == CHOOSE k \in 0 .. Len(queue) :
                /\ \A j \in 1 .. k : Before(queue[j], from) = queue[j].frames
                /\ k < Len(queue) => Before(queue[k + 1], from) < queue[k + 1].frames
        rest == SubSeq(queue, k + 1, Len(queue))
    IN  IF rest = <<>> \/ Before(rest[1], from) = 0 THEN rest
        ELSE <<[Advanced(rest[1], Before(rest[1], from)) EXCEPT
                    !.slot = SampleSlot(rest[1].qpc, from) + Before(rest[1], from)]>> \o Tail(rest)

\* What then exceeds the capacity is discarded.
Surplus(packets) ==
    CHOOSE k \in 0 .. Len(packets) :
        /\ FramesOf(SubSeq(packets, k + 1, Len(packets))) <= Capacity
        /\ \A j \in 0 .. k - 1 : FramesOf(SubSeq(packets, j + 1, Len(packets))) > Capacity

AlignPreRoll ==
    /\ epoch = None
    /\ \E from \in 1 .. clock :
        LET trimmed == Trimmed(from)
            k == Surplus(trimmed)
            gone == SubSeq(trimmed, 1, k)
            overwritten == IF loss.overwritten = None THEN 0
                           ELSE Most(0, SampleSlot(loss.overwritten, from))
        IN  /\ epoch' = from
            /\ queue' = SubSeq(trimmed, k + 1, Len(trimmed))
            /\ loss' = [loss EXCEPT !.until =
                FoldLeft(LAMBDA until, packet : Most(until, SlotIn(packet, from) + packet.frames),
                         overwritten, gone)]
            /\ tally' = [tally EXCEPT !.trimmed = @ + Queued - FramesOf(trimmed),
                                      !.discarded = @ + FramesOf(gone)]
    /\ UNCHANGED <<clock, device, pump, output>>

-----------------------------------------------------------------------------
(* pump: assemble.                                                           *)

Fill(n) == [k \in 1 .. n |-> 0]

\* count_fill: what was lost before the start is told apart.
CountFill(t, cursor, n) ==
    LET startup == Least(n, Most(0, loss.until - cursor))
    IN  [t EXCEPT !.startup = @ + startup, !.idle = @ + n - startup]

Follows(packet, run, start) ==
    run # NoRun /\ ~packet.jump /\ run.generation = packet.generation
        /\ run.device = packet.device /\ run.slot >= start

\* One packet: the state of the assembly before and after it.
Placed(a, packet, start, end) ==
    LET slot == IF Follows(packet, a.run, start) THEN a.run.slot ELSE SlotIn(packet, epoch)
        last == slot + packet.frames
        negative == Least(Most(0, 0 - slot), packet.frames)
        late == Least(Most(0, a.cursor - Most(slot, 0)), packet.frames - negative)
        counted == [a.tally EXCEPT !.trimmed = @ + negative, !.late = @ + late]
        gap == Least(Most(slot - a.cursor, 0), end - a.cursor)
        cursor == a.cursor + gap
        offset == Most(cursor - slot, 0)
        count == Most(Least(Most(last, 0), end) - cursor, 0)
        written == [i \in 1 .. count |-> packet.first + offset + i - 1]
    IN  IF last <= a.cursor THEN [a EXCEPT !.tally = counted, !.queue = Tail(@)]
        ELSE LET next == [a EXCEPT !.cursor = cursor + count,
                                   !.tally = [CountFill(counted, a.cursor, gap) EXCEPT !.valid = @ + count],
                                   !.output = @ \o Fill(gap) \o written]
             IN  IF last > cursor + count
                 THEN [next EXCEPT !.queue = <<[Advanced(packet, offset + count) EXCEPT
                                                    !.slot = slot + offset + count]>> \o Tail(@),
                                   !.run = NoRun]
                 ELSE [next EXCEPT !.queue = Tail(@),
                                   !.run = [generation |-> packet.generation, slot |-> last,
                                            device |-> packet.device + packet.frames]]

\* The block from the cursor to end, when the queue has been looked through.
Assembled(end) ==
    LET start == [cursor |-> pump.cursor, run |-> pump.run, queue |-> queue, tally |-> tally,
                  output |-> output]
        done == FoldLeft(LAMBDA a, packet :
                            IF a.cursor >= end THEN a
                            ELSE Placed(a, Head(a.queue), pump.cursor, end),
                         start, queue)
    IN  IF done.cursor >= end THEN done
        ELSE [done EXCEPT !.cursor = end, !.tally = CountFill(@, done.cursor, end - done.cursor),
                          !.output = @ \o Fill(end - done.cursor)]

\* The rest of an unfinished block follows in the next; the pump ends with a shorter one.
Write ==
    /\ epoch # None /\ ~pump.ended
    /\ \E end \in {pump.cursor + Block, (clock - epoch) \div PerFrame} :
        /\ end > pump.cursor /\ end <= pump.cursor + Block
        /\ end * PerFrame <= clock - epoch
        /\ LET a == Assembled(end)
           IN  /\ pump' = [cursor |-> end, run |-> a.run, ended |-> end < pump.cursor + Block]
               /\ queue' = a.queue /\ tally' = a.tally /\ output' = a.output
    /\ UNCHANGED <<clock, device, epoch, loss>>

Next == Tick \/ Accept \/ Reject \/ AlignPreRoll \/ Write
Spec == Init /\ [][Next]_vars

-----------------------------------------------------------------------------
\* Every frame that was delivered is written, still queued, or named as overwritten,
\* before the epoch, too late or discarded.
FramesAddUp ==
    tally.observed + tally.rejected
        = tally.valid + Queued + tally.overwritten + tally.trimmed + tally.late
          + tally.discarded + tally.lost

\* The PCM has exactly the frames up to the cursor, each captured or a fill.
OutputIsWhole ==
    /\ Len(output) = pump.cursor
    /\ pump.cursor = tally.valid + tally.startup + tally.idle

\* Captured frames are written in the order they were captured, each at most once.
OutputIsInOrder ==
    \A i, j \in 1 .. Len(output) :
        i < j /\ output[i] # 0 /\ output[j] # 0 => output[i] < output[j]

\* The queue keeps to its capacity and its pool.
QueueIsBounded == Queued <= Room /\ Len(queue) <= Pool

QueueIsSound == FramesAddUp /\ OutputIsWhole /\ OutputIsInOrder /\ QueueIsBounded
=================================================================================
