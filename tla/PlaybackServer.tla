---------------------------- MODULE PlaybackServer ----------------------------
(***************************************************************************)
(* Delivery of recordings to the viewer.  A page asks for a descriptor; the *)
(* app then reads the layout of the video once, keeps the index and leases  *)
(* it under a token in the video's URL.  Requests on at most MaxConnections *)
(* connections name a range of the indexed file, whose metadata are a       *)
(* prefix that does not exist on disk.  Meanwhile recordings are replaced,  *)
(* the library moves, pages reload and connections break.                   *)
(* app/src-tauri/src/playback_server.rs, playback_file.rs,                  *)
(* playback_policy.rs, and get_replay_descriptor of lib.rs.                 *)
(***************************************************************************)
EXTENDS SequencesExt, FiniteSets, Integers

CONSTANTS Roots,            \* approved roots; their recording is one game
          Callers,          \* descriptor commands that may be under way
          Sockets, MaxConnections, MaxRequests,
          LeaseCapacity, CacheCapacity, RingCapacity,
          Length,           \* bytes of a video
          Start, Prefix,    \* source_start, and the bytes of an index's prefix
          MaxFiles, MaxWrites, MaxMoves, MaxCalls   \* bounds of a run

\* What the constants must satisfy.
PlaybackAssumption ==
    /\ Roots # {} /\ Start \in Nat /\ Length \in Nat /\ Start < Length /\ Prefix \in Nat
    /\ MaxConnections \in Nat \ {0} /\ RingCapacity \in Nat \ {0}

VARIABLES path,       \* the file at each root's path, 0 when there is none
          stamp,      \* how often each file was written: with it, its FileFacts
          moves,      \* set_output_directory and reset_replay_leases, together
          directory,  \* OutputDirectory
          call,       \* get_replay_descriptor
          calls,      \* how many there were; it also names Arcs and tokens
          socket,     \* a connection and the request on it
          job,        \* open_file_blocking of a connection, which outlives it
          metrics,
          ring        \* BenchmarkRequestTelemetry

vars == <<path, stamp, moves, directory, call, calls, socket, job, metrics, ring>>

Facts(file) == <<file, stamp[file]>>
NoCall == [at |-> "idle", epoch |-> 0, root |-> 0, facts |-> <<>>, recording |-> <<>>]
NoRequest == [at |-> "closed", index |-> <<>>, root |-> 0, range |-> <<>>, facts |-> <<>>,
              left |-> 0, traced |-> FALSE]

Init ==
    /\ path = [r \in Roots |-> 0] /\ stamp = [f \in 1 .. MaxFiles |-> 0]
    /\ moves = 0
    /\ \E r \in Roots : directory = [root |-> r, indexes |-> <<>>, leases |-> {}, epoch |-> 0]
    /\ call = [c \in Callers |-> NoCall] /\ calls = 0
    /\ socket = [k \in Sockets |-> NoRequest]
    /\ job = [k \in Sockets |-> FALSE]
    /\ metrics = [requests |-> 0, connections |-> 0, streams |-> 0, started |-> 0,
                  completed |-> 0, cancelled |-> 0]
    /\ ring = [begun |-> 0, active |-> 0, records |-> 0, overwritten |-> 0, taken |-> 0]

-----------------------------------------------------------------------------
(* The library.                                                              *)

NextFile == 1 + Cardinality({f \in 1 .. MaxFiles : stamp[f] > 0})
Replaced(r) ==
    /\ NextFile <= MaxFiles
    /\ path' = [path EXCEPT ![r] = NextFile]
    /\ stamp' = [stamp EXCEPT ![NextFile] = 1]
    /\ UNCHANGED <<moves, directory, call, calls, socket, job, metrics, ring>>

Written(r) ==
    /\ path[r] # 0 /\ stamp[path[r]] < MaxWrites
    /\ stamp' = [stamp EXCEPT ![path[r]] = @ + 1]
    /\ UNCHANGED <<path, moves, directory, call, calls, socket, job, metrics, ring>>

Deleted(r) ==
    /\ path[r] # 0 /\ path' = [path EXCEPT ![r] = 0]
    /\ UNCHANGED <<stamp, moves, directory, call, calls, socket, job, metrics, ring>>

SetOutputDirectory ==
    /\ moves < MaxMoves /\ moves' = moves + 1
    /\ \E r \in Roots : directory' = [root |-> r, indexes |-> <<>>, leases |-> {},
                                      epoch |-> directory.epoch + 1]
    /\ UNCHANGED <<path, stamp, call, calls, socket, job, metrics, ring>>

\* A page begins to load.
ResetReplayLeases ==
    /\ moves < MaxMoves /\ moves' = moves + 1
    /\ directory' = [directory EXCEPT !.epoch = @ + 1, !.leases = {}]
    /\ UNCHANGED <<path, stamp, call, calls, socket, job, metrics, ring>>

ReleaseReplayIndex ==
    /\ \E lease \in directory.leases : directory' = [directory EXCEPT !.leases = @ \ {lease}]
    /\ UNCHANGED <<path, stamp, moves, call, calls, socket, job, metrics, ring>>

-----------------------------------------------------------------------------
(* get_replay_descriptor.                                                    *)

CallStep(c, next) ==
    /\ call' = [call EXCEPT ![c] = next]
    /\ UNCHANGED <<path, stamp, moves, calls, socket, job, metrics, ring>>

\* The epoch is read first; the root is the one of the library's selection, later.
Ask(c) ==
    /\ call[c].at = "idle" /\ calls < MaxCalls
    /\ calls' = calls + 1
    /\ call' = [call EXCEPT ![c] = [NoCall EXCEPT !.at = "read", !.epoch = directory.epoch]]
    /\ UNCHANGED <<path, stamp, moves, directory, socket, job, metrics, ring>>

OpenRecording(c) ==
    /\ call[c].at = "read"
    /\ LET file == path[directory.root]
       IN  CallStep(c, IF file = 0 THEN NoCall
                       ELSE [call[c] EXCEPT !.at = "look", !.root = directory.root,
                                            !.facts = Facts(file)])
    /\ UNCHANGED directory

Full == Cardinality(directory.leases) = LeaseCapacity
Known(facts) ==
    {r \in Range(directory.indexes) \cup {lease.recording : lease \in directory.leases} :
        r.facts = facts}

LookUp(c) ==
    /\ call[c].at = "look"
    /\ IF directory.root # call[c].root \/ Full THEN CallStep(c, NoCall)
       ELSE IF Known(call[c].facts) = {} THEN CallStep(c, [call[c] EXCEPT !.at = "scan"])
       ELSE \E r \in Known(call[c].facts) :
                CallStep(c, [call[c] EXCEPT !.at = "lease", !.recording = r])
    /\ UNCHANGED directory

\* The layout is read from the open file; it may not be one that can be indexed.
Scan(c) ==
    /\ call[c].at = "scan"
    /\ \/ CallStep(c, NoCall)
       \/ CallStep(c, [call[c] EXCEPT !.at = "recheck",
                            !.recording = [name |-> <<c, calls>>, of |-> Facts(call[c].facts[1]),
                                           facts |-> call[c].facts]])
    /\ UNCHANGED directory

\* Mutant: the file is not looked at again.
RecheckedNever(c) == TRUE

Rechecked(c) == Facts(call[c].facts[1]) = call[c].facts
Recheck(c) ==
    /\ call[c].at = "recheck"
    /\ CallStep(c, IF Rechecked(c) THEN [call[c] EXCEPT !.at = "lease"] ELSE NoCall)
    /\ UNCHANGED directory

\* The selection was invalidated meanwhile: the answer is an error.
Superseded(c) ==
    /\ call[c].at = "lease" /\ CallStep(c, NoCall) /\ UNCHANGED directory

\* Mutant: a root that is published again counts as the same publication.
CurrentRoot(c) == directory.root = call[c].root

Current(c) == directory.epoch = call[c].epoch /\ directory.root = call[c].root
Lease(c) ==
    /\ call[c].at = "lease"
    /\ IF ~Current(c) \/ Full THEN UNCHANGED directory
       ELSE LET r == call[c].recording
                others == SelectSeq(directory.indexes, LAMBDA o : o # r)
                kept == IF Len(others) = CacheCapacity THEN Tail(others) ELSE others
            IN  directory' = [directory EXCEPT
                    !.indexes = Append(kept, r),
                    !.leases = @ \cup {[token |-> <<c, calls>>, recording |-> r,
                                        epoch |-> call[c].epoch]}]
    /\ CallStep(c, NoCall)

-----------------------------------------------------------------------------
(* Connections and requests.                                                 *)

Step(k, next) ==
    /\ socket' = [socket EXCEPT ![k] = next]
    /\ UNCHANGED <<path, stamp, moves, directory, call, calls>>

\* A permit is that of the connection, and of the opening of a file for it.
Holding == {k \in Sockets : socket[k].at # "closed" \/ job[k]}

Accept(k) ==
    /\ k \notin Holding /\ Cardinality(Holding) < MaxConnections
    /\ metrics' = [metrics EXCEPT !.connections = @ + 1]
    /\ Step(k, [NoRequest EXCEPT !.at = "open"]) /\ UNCHANGED <<job, ring>>

\* push: the oldest record gives way.
Pushed(n) ==
    [ring EXCEPT !.active = @ - n,
                 !.records = IF n = 1 /\ @ < RingCapacity THEN @ + 1 ELSE @,
                 !.overwritten = IF n = 1 /\ ring.records = RingCapacity THEN @ + 1 ELSE @]
Traced(k) == IF socket[k].traced THEN 1 ELSE 0

\* The response is complete, or is an error; the connection may be used again.
Answered(k) ==
    /\ Step(k, [NoRequest EXCEPT !.at = "open"])
    /\ ring' = Pushed(Traced(k))

\* admit_request passes and the route is that of a recording: replay_delivery takes
\* the root and the lease from one publication.  Without a lease the file is plain.
Request(k) ==
    /\ socket[k].at = "open" /\ metrics.requests < MaxRequests
    /\ \E index \in {<<>>} \cup {lease.recording : lease \in directory.leases},
          first \in 0 .. Length + Prefix, last \in 0 .. Length + Prefix :
          Step(k, [NoRequest EXCEPT !.at = "opening", !.index = index, !.root = directory.root,
                                    !.range = <<first, last>>, !.traced = TRUE])
    /\ job' = [job EXCEPT ![k] = TRUE]
    /\ metrics' = [metrics EXCEPT !.requests = @ + 1]
    /\ ring' = [ring EXCEPT !.begun = @ + 1, !.active = @ + 1]

\* open_file_blocking ends, whether or not its connection is still there.
Verified(k, file) == socket[k].index = <<>> \/ Facts(file) = socket[k].index.facts
Opened(k) ==
    /\ job[k] /\ job' = [job EXCEPT ![k] = FALSE]
    /\ IF socket[k].at # "opening"
       THEN /\ metrics' = [metrics EXCEPT !.connections = @ - 1]
            /\ UNCHANGED <<path, stamp, moves, directory, call, calls, socket, ring>>
       ELSE LET file == path[socket[k].root]
            IN  /\ IF file = 0 \/ ~Verified(k, file) THEN Answered(k)
                   ELSE Step(k, [socket[k] EXCEPT !.at = "opened", !.facts = Facts(file)])
                        /\ UNCHANGED ring
                /\ UNCHANGED metrics

Total(k) == IF socket[k].index = <<>> THEN Length ELSE Prefix + Length - Start

\* parse_range, of a header with two numbers; others name the same ranges.
ParseRange(range, total) ==
    IF range[1] >= total \/ range[1] > range[2] THEN <<>>
    ELSE <<range[1], IF range[2] < total THEN range[2] ELSE total - 1>>

Least(a, b) == IF a <= b THEN a ELSE b

\* The bytes of the answer: those of the prefix are negative.
PrefixBytes(first, last) ==
    [i \in 1 .. Least(last + 1, Prefix) - Least(first, Prefix) |-> first + i - 1 - Prefix]
\* Mutant: the range continues where the source has as many bytes.
FileBytesInSource(first, last, n) == [i \in 1 .. n |-> first + i - 1]

FileBytes(first, last, n) ==
    LET from == Start + (IF first > Prefix THEN first - Prefix ELSE 0)
    IN  [i \in 1 .. n |-> from + i - 1]
Body(k) ==
    LET first == socket[k].range[1]
        last == socket[k].range[2]
        prefix == PrefixBytes(first, last)
    IN  IF socket[k].index = <<>> THEN [i \in 1 .. last + 1 - first |-> first + i - 1]
        ELSE prefix \o FileBytes(first, last, last + 1 - first - Len(prefix))

Respond(k) ==
    /\ socket[k].at = "opened"
    /\ LET range == ParseRange(socket[k].range, Total(k))
       IN  \/ /\ range # <<>>
              /\ Step(k, [socket[k] EXCEPT !.at = "stream", !.range = range,
                                           !.left = range[2] - range[1] + 1])
              /\ metrics' = [metrics EXCEPT !.streams = @ + 1, !.started = @ + 1]
              /\ UNCHANGED ring
           \/ Answered(k) /\ UNCHANGED metrics   \* no such range, HEAD, or seek fails
    /\ UNCHANGED job

\* The reader is polled; at the last byte the stream is complete, once.
Poll(k) ==
    /\ socket[k].at = "stream" /\ socket[k].left > 0
    /\ \E n \in 1 .. socket[k].left :
        /\ Step(k, [socket[k] EXCEPT !.left = @ - n, !.traced = n < socket[k].left])
        /\ metrics' = IF n = socket[k].left THEN [metrics EXCEPT !.completed = @ + 1] ELSE metrics
        /\ ring' = IF n = socket[k].left THEN Pushed(1) ELSE ring
    /\ UNCHANGED job

\* CountingReader::drop, and RequestTracker's: after the last byte, or before it
\* when the file ends early or cannot be read.
Dropped(k) ==
    IF socket[k].left > 0
    THEN [metrics EXCEPT !.streams = @ - 1, !.cancelled = @ + 1]
    ELSE [metrics EXCEPT !.streams = @ - 1]

EndStream(k) ==
    /\ socket[k].at = "stream"
    /\ metrics' = Dropped(k)
    /\ Answered(k) /\ UNCHANGED job

\* The peer goes: what is under way for it is dropped, but not the blocking job.
Disconnect(k) ==
    /\ socket[k].at # "closed"
    /\ LET m == IF socket[k].at = "stream" THEN Dropped(k) ELSE metrics
       IN  metrics' = IF job[k] THEN m ELSE [m EXCEPT !.connections = @ - 1]
    /\ Step(k, NoRequest)
    /\ ring' = Pushed(Traced(k))
    /\ UNCHANGED job

\* The page takes records of requests.
Take ==
    /\ ring.records > 0
    /\ \E n \in 1 .. ring.records :
        ring' = [ring EXCEPT !.records = @ - n, !.taken = @ + n]
    /\ UNCHANGED <<path, stamp, moves, directory, call, calls, socket, job, metrics>>

Library == SetOutputDirectory \/ ResetReplayLeases \/ ReleaseReplayIndex
           \/ \E r \in Roots : Replaced(r) \/ Written(r) \/ Deleted(r)
Descriptor(c) == \/ Ask(c) \/ OpenRecording(c) \/ LookUp(c) \/ Scan(c) \/ Recheck(c)
                 \/ Superseded(c) \/ Lease(c)
Connection(k) == \/ Accept(k) \/ Request(k) \/ Opened(k) \/ Respond(k) \/ Poll(k)
                 \/ EndStream(k) \/ Disconnect(k)

Next == \/ Library \/ Take
        \/ \E c \in Callers : Descriptor(c)
        \/ \E k \in Sockets : Connection(k)
Spec == Init /\ [][Next]_vars

-----------------------------------------------------------------------------
\* An index that can be leased was read from one state of its file, the one that
\* its facts name, whatever was written while it was read.
IndexesAreWhole ==
    /\ \A r \in Range(directory.indexes) : r.of = r.facts
    /\ \A lease \in directory.leases : lease.recording.of = lease.recording.facts

\* A lease belongs to the page and to the publication of the root under which it
\* was asked for: none survives, or is granted after, a reload or a move of the
\* library, even back to the same root.  There are never more than may be.
LeasesAreCurrent ==
    /\ \A lease \in directory.leases : lease.epoch = directory.epoch
    /\ \A a, b \in directory.leases : a.token = b.token => a = b
    /\ Cardinality(directory.leases) <= LeaseCapacity
    /\ Len(directory.indexes) <= CacheCapacity /\ IsInjective(directory.indexes)

\* A stream under an index is one of the very file that was indexed, and its bytes are
\* those of the prefix followed by the source from its first fragment.
StreamsAreIndexed ==
    \A k \in Sockets : socket[k].at = "stream" /\ socket[k].index # <<>> =>
        /\ socket[k].facts = socket[k].index.of
        /\ LET whole == [i \in 1 .. Total(k) |-> IF i <= Prefix THEN i - 1 - Prefix
                                                 ELSE Start + i - 1 - Prefix]
           IN  Body(k) = SubSeq(whole, socket[k].range[1] + 1, socket[k].range[2] + 1)

\* Connections are counted as long as anything is held for them, streams are open,
\* complete or cancelled, and every request is recorded once.
CountsAddUp ==
    /\ metrics.connections = Cardinality(Holding) /\ metrics.connections <= MaxConnections
    /\ metrics.streams = Cardinality({k \in Sockets : socket[k].at = "stream"})
    /\ metrics.started = metrics.completed + metrics.cancelled
            + Cardinality({k \in Sockets : socket[k].at = "stream" /\ socket[k].left > 0})
    /\ ring.begun = ring.active + ring.records + ring.overwritten + ring.taken
    /\ ring.active = Cardinality({k \in Sockets : socket[k].traced})

DeliveryIsSound ==
    IndexesAreWhole /\ LeasesAreCurrent /\ StreamsAreIndexed /\ CountsAddUp
=============================================================================
