--------------------------- MODULE NetworkMonitor ---------------------------
(***************************************************************************)
(* NetworkMonitorService: a thread captures TCP packets and keeps, under a *)
(* lock, statistics and a capture buffer for each flow; the upload route   *)
(* looks the flow of its client up twice (evaluate_transfer, then          *)
(* evaluate_flow) and saves its buffer.  One direction of each connection  *)
(* is modelled, in segments of one unit.  The network is external: it      *)
(* numbers the units modulo SeqSpace, sends segments again, and the        *)
(* capture misses some.                                                    *)
(***************************************************************************)
EXTENDS Integers, Sequences, FiniteSets

CONSTANTS
    Client, Server,
    Handler,        \* upload requests that are looked at
    SeqSpace,       \* sequence numbers (2^32)
    FirstNumber,    \* the numbers a connection may start at
    MaxTracked,     \* NETWORK_MAX_TRACKED_FLOWS
    BufferCap,      \* packets a buffer holds (5000)
    RetransmissionLimit, GapLimit, IndicatorLimit,     \* 10, 5 and 10
    MinSamples,     \* NETWORK_BASELINE_MIN_SAMPLES
    MaxBaseline,    \* samples before the baseline is cut to half (2000)
    MaxPos,         \* bound: units a client sends to a server
    MaxSeen,        \* bound: segments of one flow
    MaxBorn         \* bound: flows ever tracked

ASSUME NetworkAssumption ==
    /\ Client # {} /\ Server # {}
    /\ SeqSpace \in Nat \ {0} /\ FirstNumber \subseteq 0..(SeqSpace - 1)
    /\ BufferCap \in Nat \ {0}
    /\ RetransmissionLimit \in Nat /\ GapLimit \in Nat /\ IndicatorLimit \in Nat
    /\ MaxTracked \in Nat /\ MinSamples \in Nat /\ MaxBaseline \in Nat
    /\ MaxPos \in Nat /\ MaxSeen \in Nat /\ MaxBorn \in Nat
    /\ MinSamples + 10 <= MaxBaseline

VARIABLES
    conn,       \* start, position and incarnation of each connection
    flows,      \* _flows, Untracked for a key that is not in it
    buffers,    \* _pcap_buffers: for each packet, the flow that put it there
    born,       \* flows tracked so far
    baseline,   \* length of _baseline_data
    handler

vars == <<conn, flows, buffers, born, baseline, handler>>

Key == Client \X Server
Untracked == [born |-> 0]
NoBuffer == <<0>>               \* the key is not in the dictionary; no flow is 0
Tracked == {k \in Key : flows[k] # Untracked}

\* initialize fills the baseline with ten made-up samples more than it needs.
SyntheticBaseline == MinSamples + 10

\* A connection starts at any number.
Opened(p, i) == [start |-> p, pos |-> p, incarnation |-> i]

Init ==
    /\ conn \in [Key -> {Opened(p, 0) : p \in FirstNumber}]
    /\ flows = [k \in Key |-> Untracked]
    /\ buffers = [k \in Key |-> NoBuffer]
    /\ born = 0
    /\ baseline = SyntheticBaseline
    /\ handler = [h \in Handler |-> [pc |-> "idle", client |-> CHOOSE c \in Client : TRUE,
                                     key |-> CHOOSE k \in Key : TRUE,
                                     raised |-> {}, due |-> {}, born |-> 0, saved |-> <<>>]]

-----------------------------------------------------------------------------
(***************************************************************************)
(* FlowStats.  expected is in the numbers of the wire, 0 before the first  *)
(* segment.  high, trueLate and trueGaps are history: what the same        *)
(* segments are by their position in the stream.  exact: every segment so  *)
(* far is of one incarnation, and no sequence number has come round.       *)
(***************************************************************************)
NewFlow(k, p) ==
    [born |-> born + 1, expected |-> 0, late |-> 0, gaps |-> 0, seen |-> 0,
     incarnation |-> conn[k].incarnation, round |-> p \div SeqSpace,
     high |-> p, trueLate |-> 0, trueGaps |-> 0, exact |-> TRUE]

Count(b) == IF b THEN 1 ELSE 0

\* Mutant: the expected number follows every segment.
Advance_Follows(expected, seq) == seq + 1
Advance(expected, seq) == IF seq + 1 > expected THEN seq + 1 ELSE expected

AddPacket(f, k, p) ==
    LET seq == p % SeqSpace
    IN  [f EXCEPT
           !.seen = @ + 1,
           !.late = @ + Count(f.expected # 0 /\ seq < f.expected),
           !.gaps = @ + Count(f.expected # 0 /\ seq > f.expected),
           !.expected = Advance(@, seq),
           !.exact = @ /\ conn[k].incarnation = f.incarnation /\ p \div SeqSpace = f.round,
           !.trueLate = @ + Count(p < f.high),
           !.trueGaps = @ + Count(p > f.high),
           !.high = IF p + 1 > @ THEN p + 1 ELSE @]

\* The buffer of a defaultdict, with one more packet, without its oldest.
Captured(b, id) ==
    LET longer == Append(IF b = NoBuffer THEN <<>> ELSE b, id)
    IN  IF Len(longer) > BufferCap THEN Tail(longer) ELSE longer

\* _process_packet: no new flow when the table is full.
ProcessPacket(k, p) ==
    IF k \notin Tracked /\ Cardinality(Tracked) >= MaxTracked
    THEN UNCHANGED <<flows, buffers, born>>
    ELSE LET f == IF k \in Tracked THEN flows[k] ELSE NewFlow(k, p)
         IN  /\ k \in Tracked \/ born < MaxBorn
             /\ f.seen < MaxSeen
             /\ born' = IF k \in Tracked THEN born ELSE born + 1
             /\ flows' = [flows EXCEPT ![k] = AddPacket(f, k, p)]
             /\ buffers' = [buffers EXCEPT ![k] = Captured(@, f.born)]

-----------------------------------------------------------------------------
\* The client sends the next unit; the capture may miss it.
Send(k) ==
    /\ conn[k].pos < MaxPos
    /\ conn' = [conn EXCEPT ![k].pos = @ + 1]
    /\ \/ ProcessPacket(k, conn[k].pos)
       \/ UNCHANGED <<flows, buffers, born>>
    /\ UNCHANGED <<baseline, handler>>

\* A unit is sent again, or comes late.
Resend(k) ==
    /\ \E p \in conn[k].start..(conn[k].pos - 1) : ProcessPacket(k, p)
    /\ UNCHANGED <<conn, baseline, handler>>

\* The client's port is used again for a new connection, numbered anew.
Reopen(k) ==
    /\ conn[k].incarnation = 0
    /\ \E p \in FirstNumber : conn' = [conn EXCEPT ![k] = Opened(p, 1)]
    /\ UNCHANGED <<flows, buffers, born, baseline, handler>>

\* Mutant: only the statistics are dropped.
Dropped_KeepsBuffer(expired) ==
    /\ flows' = [k \in Key |-> IF k \in expired THEN Untracked ELSE flows[k]]
    /\ UNCHANGED buffers

Dropped(expired) ==
    /\ flows' = [k \in Key |-> IF k \in expired THEN Untracked ELSE flows[k]]
    /\ buffers' = [k \in Key |-> IF k \in expired THEN NoBuffer ELSE buffers[k]]

\* _cleanup_expired_flows: any flow may have been silent for the timeout.
CleanupExpiredFlows ==
    /\ \E expired \in SUBSET Tracked \ {{}} : Dropped(expired)
    /\ UNCHANGED <<conn, born, baseline, handler>>

-----------------------------------------------------------------------------
(***************************************************************************)
(* The upload route.  get_flow_stats_by_client takes the flow that has     *)
(* been in the dictionary longest among those of the client's address.     *)
(***************************************************************************)
FlowOf(client) ==
    LET mine == {k \in Tracked : k[1] = client}
    IN  {k \in mine : \A j \in mine : flows[k].born <= flows[j].born}

\* get_summary; out_of_order counts what sequence_gaps counts.
Summary(f) == [retransmissions |-> f.late, sequence_gaps |-> f.gaps]

\* evaluate_transfer and evaluate_flow, of so many retransmissions and gaps.
Indicators(gaps) == {s \in {"TCP_SEQUENCE_ANOMALY"} : gaps > IndicatorLimit}
Signals(late, gaps) ==
    {s \in {"EXCESSIVE_RETRANSMISSIONS"} : late > RetransmissionLimit}
        \cup {s \in {"SEQUENCE_ANOMALY"} : gaps > GapLimit}

\* due is history: what the stream itself would have raised.
Indicated(r, f) ==
    [r EXCEPT !.raised = Indicators(Summary(f).sequence_gaps),
              !.due = Indicators(IF f.exact THEN f.trueGaps ELSE f.gaps)]
Signalled(r, f) ==
    [r EXCEPT !.raised = @ \cup Signals(Summary(f).retransmissions, Summary(f).sequence_gaps),
              !.due = @ \cup IF f.exact THEN Signals(f.trueLate, f.trueGaps)
                                        ELSE Signals(f.late, f.gaps)]

SetHandler(h, r) == handler' = [handler EXCEPT ![h] = r]

EvaluateTransfer(h, client) ==
    /\ handler[h].pc = "idle"
    /\ LET r == [handler[h] EXCEPT !.pc = "indicated", !.client = client]
       IN  IF FlowOf(client) = {} THEN SetHandler(h, r)
           ELSE \E k \in FlowOf(client) : SetHandler(h, Indicated(r, flows[k]))
    /\ UNCHANGED <<conn, flows, buffers, born, baseline>>

\* add_baseline_sample: a long list is cut and the model is trained again.
Baseline == IF baseline + 1 > MaxBaseline THEN MaxBaseline \div 2 ELSE baseline + 1

EvaluateFlow(h) ==
    /\ handler[h].pc = "indicated"
    /\ IF FlowOf(handler[h].client) = {}
       THEN SetHandler(h, [handler[h] EXCEPT !.pc = "done"]) /\ UNCHANGED baseline
       ELSE /\ baseline' = Baseline
            /\ \E k \in FlowOf(handler[h].client) :
                 SetHandler(h, Signalled([handler[h] EXCEPT !.pc = "save", !.key = k, !.born = flows[k].born],
                                         flows[k]))
    /\ UNCHANGED <<conn, flows, buffers, born>>

\* save_pcap: "flow_key not in cls._pcap_buffers", without the lock.
FindBuffer(h) ==
    /\ handler[h].pc = "save"
    /\ SetHandler(h, [handler[h] EXCEPT !.pc = IF buffers[handler[h].key] = NoBuffer THEN "done" ELSE "write"])
    /\ UNCHANGED <<conn, flows, buffers, born, baseline>>

\* Under the lock.  Asking for a buffer that is gone puts an empty one back.
WriteBuffer(h) ==
    LET k == handler[h].key
        found == IF buffers[k] = NoBuffer THEN <<>> ELSE buffers[k]
    IN  /\ handler[h].pc = "write"
        /\ buffers' = [buffers EXCEPT ![k] = found]
        /\ SetHandler(h, [handler[h] EXCEPT !.pc = "done", !.saved = found])
        /\ UNCHANGED <<conn, flows, born, baseline>>

Next ==
    \/ \E k \in Key : Send(k) \/ Resend(k) \/ Reopen(k)
    \/ CleanupExpiredFlows
    \/ \E h \in Handler :
          \/ \E c \in Client : EvaluateTransfer(h, c)
          \/ EvaluateFlow(h) \/ FindBuffer(h) \/ WriteBuffer(h)

Spec == Init /\ [][Next]_vars

-----------------------------------------------------------------------------
Signal == {"TCP_SEQUENCE_ANOMALY", "EXCESSIVE_RETRANSMISSIONS", "SEQUENCE_ANOMALY"}

FlowRecord ==
    [born : 1..MaxBorn, expected : 0..SeqSpace, late : Nat, gaps : Nat,
     seen : 0..MaxSeen, incarnation : {0, 1}, round : Nat, high : Nat,
     trueLate : Nat, trueGaps : Nat, exact : BOOLEAN]

NetworkTypeOK ==
    /\ conn \in [Key -> [start : Nat, pos : Nat, incarnation : {0, 1}]]
    /\ flows \in [Key -> FlowRecord \cup {Untracked}]
    /\ buffers \in [Key -> Seq(0..MaxBorn)]
    /\ born \in 0..MaxBorn
    /\ baseline \in 0..MaxBaseline
    /\ handler \in [Handler -> [pc : {"idle", "indicated", "save", "write", "done"},
                                client : Client, key : Key,
                                raised : SUBSET Signal, due : SUBSET Signal,
                                born : 0..MaxBorn, saved : Seq(0..MaxBorn)]]

(***************************************************************************)
(* What evaluate_transfer and evaluate_flow hold against a client is what  *)
(* its packets did: until the port is used again or the sequence numbers   *)
(* come round, the counters of a flow are those of its stream, and the     *)
(* signals of a request those of its streams at the time of the look-ups.  *)
(***************************************************************************)
SignalsAreReal ==
    /\ \A k \in Tracked : flows[k].exact =>
          flows[k].late = flows[k].trueLate /\ flows[k].gaps = flows[k].trueGaps
    /\ \A h \in Handler : handler[h].raised = handler[h].due

(***************************************************************************)
(* A capture holds packets of one tracked flow, at most BufferCap, whatever *)
(* is cleaned up between the look-up and the writing: a buffer that is left *)
(* behind is empty, and what a request saves is of the flow it evaluated or *)
(* of a later one under the same key, never of an earlier one.             *)
(***************************************************************************)
OfOneFlow(b) == Len(b) <= BufferCap /\ \A i, j \in DOMAIN b : b[i] = b[j]

CaptureIsOfOneFlow ==
    /\ \A k \in Key : buffers[k] \notin {NoBuffer, <<>>} =>
          k \in Tracked /\ OfOneFlow(buffers[k]) /\ Head(buffers[k]) = flows[k].born
    /\ \A h \in Handler : handler[h].saved # <<>> =>
          OfOneFlow(handler[h].saved) /\ Head(handler[h].saved) >= handler[h].born
=============================================================================
