------------------------ MODULE NetworkMonitorProofs ------------------------
(***************************************************************************)
(* Proofs about NetworkMonitor for any sequence space, table and buffer    *)
(* size, any limits and any number of clients, servers and requests.       *)
(***************************************************************************)
EXTENDS NetworkMonitor, TLAPS

(***************************************************************************)
(* The strengthening.  While a flow is exact, what it expects next is the  *)
(* end of the stream as far as it was seen, in the numbers of this round.  *)
(***************************************************************************)
FlowIsTrue(f) ==
    /\ f.expected > 0
    /\ f.exact => /\ f.late = f.trueLate /\ f.gaps = f.trueGaps
                  /\ f.high = SeqSpace * f.round + f.expected

FlowsAreTrue == \A k \in Key : flows[k] # Untracked => FlowIsTrue(flows[k])

\* A buffer that holds packets is that of the tracked flow.
BufferOf(k) ==
    buffers[k] \notin {NoBuffer, <<>>} =>
        /\ flows[k] # Untracked
        /\ Len(buffers[k]) <= BufferCap
        /\ \A i \in 1..Len(buffers[k]) : buffers[k][i] = flows[k].born

BuffersMatch == \A k \in Key : BufferOf(k)

FlowsAreNumbered == \A k \in Key : flows[k] # Untracked => flows[k].born <= born

\* The flow under a request's key is the one it evaluated or a later one.
SavedIsOfOneFlow(h) ==
    /\ Len(handler[h].saved) <= BufferCap
    /\ \A i, j \in 1..Len(handler[h].saved) : handler[h].saved[i] = handler[h].saved[j]
    /\ handler[h].saved # <<>> => handler[h].saved[1] >= handler[h].born

HandlerOK(h) ==
    /\ handler[h].raised = handler[h].due
    /\ handler[h].born <= born
    /\ handler[h].pc \in {"save", "write"} /\ flows[handler[h].key] # Untracked =>
          flows[handler[h].key].born >= handler[h].born
    /\ handler[h].pc # "done" => handler[h].saved = <<>>
    /\ SavedIsOfOneFlow(h)

HandlersMatch == \A h \in Handler : HandlerOK(h)

NetworkInv ==
    /\ NetworkTypeOK
    /\ FlowsAreTrue
    /\ BuffersMatch
    /\ FlowsAreNumbered
    /\ HandlersMatch

-----------------------------------------------------------------------------
\* A position is its round and its number on the wire.
LEMMA RoundAndNumber ==
    ASSUME NEW p \in Nat
    PROVE  /\ p % SeqSpace \in 0..(SeqSpace - 1)
           /\ p \div SeqSpace \in Nat
           /\ SeqSpace * (p \div SeqSpace) \in Nat
           /\ p = SeqSpace * (p \div SeqSpace) + (p % SeqSpace)
  <1>1. SeqSpace \in Nat /\ SeqSpace > 0
    BY NetworkAssumption
  <1>2. p % SeqSpace \in 0..(SeqSpace - 1)
    BY <1>1
  <1>3. p \div SeqSpace \in Nat
    BY <1>1
  <1>4. p = SeqSpace * (p \div SeqSpace) + (p % SeqSpace)
    BY <1>1
  <1>5. SeqSpace * (p \div SeqSpace) \in Nat
    BY <1>1, <1>3
  <1> QED
    BY <1>2, <1>3, <1>4, <1>5

\* An untracked key has no flow record, and no buffer is mistaken for none.
LEMMA NotUntracked ==
    ASSUME NEW f \in FlowRecord
    PROVE  f # Untracked
  BY DEF FlowRecord, Untracked

\* The capture of a packet leaves a buffer of one flow, within its capacity.
LEMMA CapturedIsOfOneFlow ==
    ASSUME NEW N \in Nat, NEW b \in Seq(0..N), NEW id \in 1..N,
           b = NoBuffer \/ (Len(b) <= BufferCap /\ \A i \in 1..Len(b) : b[i] = id)
    PROVE  /\ Captured(b, id) \in Seq(0..N)
           /\ Len(Captured(b, id)) \in 1..BufferCap
           /\ \A i \in 1..Len(Captured(b, id)) : Captured(b, id)[i] = id
  <1> DEFINE kept == IF b = NoBuffer THEN <<>> ELSE b
             longer == Append(kept, id)
  <1>1. /\ kept \in Seq(0..N) /\ Len(kept) <= BufferCap
        /\ \A i \in 1..Len(kept) : kept[i] = id
    <2>1. CASE b = NoBuffer
      BY <2>1, NetworkAssumption
    <2>2. CASE b # NoBuffer
      BY <2>2
    <2> QED
      BY <2>1, <2>2
  <1> HIDE DEF kept
  <1>2. /\ longer \in Seq(0..N) /\ Len(longer) = Len(kept) + 1
        /\ \A i \in 1..Len(longer) : longer[i] = id
    BY <1>1
  <1>3. Captured(b, id) = IF Len(longer) > BufferCap THEN Tail(longer) ELSE longer
    BY DEF Captured, kept
  <1> HIDE DEF longer
  <1>4. CASE Len(longer) > BufferCap
    <2>1. /\ Tail(longer) \in Seq(0..N) /\ Len(Tail(longer)) = Len(longer) - 1
          /\ \A i \in 1..Len(Tail(longer)) : Tail(longer)[i] = longer[i + 1]
      BY <1>1, <1>2, <1>4, NetworkAssumption
    <2>2. Captured(b, id) = Tail(longer)
      BY <1>3, <1>4
    <2> QED
      BY <1>1, <1>2, <1>4, <2>1, <2>2, NetworkAssumption
  <1>5. CASE ~(Len(longer) > BufferCap)
    <2>1. Captured(b, id) = longer
      BY <1>3, <1>5
    <2> QED
      BY <1>1, <1>2, <1>5, <2>1, NetworkAssumption
  <1> QED
    BY <1>4, <1>5

\* A new flow, before its first packet is counted.
LEMMA NewFlowIs ==
    ASSUME NetworkTypeOK, NEW k \in Key, NEW p \in Nat, born < MaxBorn
    PROVE  NewFlow(k, p) \in FlowRecord
  <1>1. p \div SeqSpace \in Nat
    BY RoundAndNumber
  <1>2. born + 1 \in 1..MaxBorn /\ conn[k].incarnation \in {0, 1}
    BY NetworkAssumption DEF NetworkTypeOK
  <1>3. 0 \in 0..SeqSpace /\ 0 \in 0..MaxSeen
    BY NetworkAssumption
  <1> QED
    BY <1>1, <1>2, <1>3 DEF NewFlow, FlowRecord

\* A packet advances what is expected and the history alike, in one round.
LEMMA AddPacketIsTrue ==
    ASSUME NEW k \in Key, NEW p \in Nat, NEW f \in FlowRecord, f.seen < MaxSeen,
           FlowIsTrue(f) \/ f = NewFlow(k, p)
    PROVE  /\ AddPacket(f, k, p) \in FlowRecord
           /\ AddPacket(f, k, p).born = f.born
           /\ FlowIsTrue(AddPacket(f, k, p))
  <1> DEFINE seq == p % SeqSpace
             base == SeqSpace * (p \div SeqSpace)
             g == AddPacket(f, k, p)
  <1>1. /\ seq \in Nat /\ seq + 1 <= SeqSpace /\ base \in Nat /\ p = base + seq
        /\ SeqSpace \in Nat /\ MaxSeen \in Nat
    BY RoundAndNumber, NetworkAssumption
  <1>2. /\ f.expected \in Nat /\ f.expected <= SeqSpace
        /\ f.late \in Nat /\ f.gaps \in Nat /\ f.trueLate \in Nat /\ f.trueGaps \in Nat
        /\ f.high \in Nat /\ f.seen \in Nat /\ f.exact \in BOOLEAN
    BY <1>1 DEF FlowRecord
  <1>3. /\ g.seen = f.seen + 1
        /\ g.late = f.late + Count(f.expected # 0 /\ seq < f.expected)
        /\ g.gaps = f.gaps + Count(f.expected # 0 /\ seq > f.expected)
        /\ g.expected = Advance(f.expected, seq)
        /\ g.exact = (f.exact /\ conn[k].incarnation = f.incarnation /\ p \div SeqSpace = f.round)
        /\ g.trueLate = f.trueLate + Count(p < f.high)
        /\ g.trueGaps = f.trueGaps + Count(p > f.high)
        /\ g.high = IF p + 1 > f.high THEN p + 1 ELSE f.high
        /\ g.round = f.round /\ g.born = f.born /\ g.incarnation = f.incarnation
    BY DEF AddPacket, FlowRecord
  <1>4. Advance(f.expected, seq) \in 1..SeqSpace
    BY <1>1, <1>2 DEF Advance
  <1>5. g \in FlowRecord
    <2>1. /\ f.seen + 1 \in 0..MaxSeen
          /\ \A b \in BOOLEAN : Count(b) \in Nat
      BY <1>1, <1>2 DEF Count
    <2>2. /\ f.late + Count(f.expected # 0 /\ seq < f.expected) \in Nat
          /\ f.gaps + Count(f.expected # 0 /\ seq > f.expected) \in Nat
          /\ f.trueLate + Count(p < f.high) \in Nat
          /\ f.trueGaps + Count(p > f.high) \in Nat
      BY <1>2 DEF Count
    <2>3. (IF p + 1 > f.high THEN p + 1 ELSE f.high) \in Nat
      BY <1>2
    <2>4. (f.exact /\ conn[k].incarnation = f.incarnation /\ p \div SeqSpace = f.round) \in BOOLEAN
      OBVIOUS
    <2>5. Advance(f.expected, seq) \in 0..SeqSpace
      BY <1>4
    <2> DEFINE late == f.late + Count(f.expected # 0 /\ seq < f.expected)
               gaps == f.gaps + Count(f.expected # 0 /\ seq > f.expected)
               next == Advance(f.expected, seq)
               exact == f.exact /\ conn[k].incarnation = f.incarnation /\ p \div SeqSpace = f.round
               trueLate == f.trueLate + Count(p < f.high)
               trueGaps == f.trueGaps + Count(p > f.high)
               high == IF p + 1 > f.high THEN p + 1 ELSE f.high
    <2>6. g = [f EXCEPT !.seen = f.seen + 1, !.late = late, !.gaps = gaps, !.expected = next,
                        !.exact = exact, !.trueLate = trueLate, !.trueGaps = trueGaps, !.high = high]
      BY DEF AddPacket
    <2>7. /\ late \in Nat /\ gaps \in Nat /\ next \in 0..SeqSpace /\ exact \in BOOLEAN
          /\ trueLate \in Nat /\ trueGaps \in Nat /\ high \in Nat
      BY <2>2, <2>3, <2>4, <2>5
    <2> HIDE DEF g, late, gaps, next, exact, trueLate, trueGaps, high
    <2> QED
      BY <2>1, <2>6, <2>7 DEF FlowRecord
  <1>6. FlowIsTrue(g)
    <2>0. g.expected > 0
      BY <1>1, <1>2, <1>3, <1>4
    <2> SUFFICES ASSUME g.exact
                 PROVE  /\ g.late = g.trueLate /\ g.gaps = g.trueGaps
                        /\ g.high = SeqSpace * g.round + g.expected
      BY <2>0 DEF FlowIsTrue
    <2>1. f.exact /\ p \div SeqSpace = f.round
      BY <1>3
    <2>2. SeqSpace * f.round = base /\ SeqSpace * g.round = base
      BY <1>3, <2>1
    <2> HIDE DEF seq, base, g
    <2>3. CASE FlowIsTrue(f)
      <3>1. f.late = f.trueLate /\ f.gaps = f.trueGaps /\ f.high = base + f.expected /\ f.expected > 0
        BY <2>1, <2>2, <2>3 DEF FlowIsTrue
      <3>2. /\ (p < f.high) <=> (f.expected # 0 /\ seq < f.expected)
            /\ (p > f.high) <=> (f.expected # 0 /\ seq > f.expected)
        BY <1>1, <1>2, <3>1
      <3>3. g.late = g.trueLate /\ g.gaps = g.trueGaps
        BY <1>3, <3>1, <3>2 DEF Count
      <3>4. g.high = base + g.expected
        BY <1>1, <1>2, <1>3, <3>1 DEF Advance
      <3> QED
        BY <2>2, <3>3, <3>4
    <2>4. CASE f = NewFlow(k, p)
      <3>1. /\ f.expected = 0 /\ f.high = p
            /\ f.late = 0 /\ f.gaps = 0 /\ f.trueLate = 0 /\ f.trueGaps = 0
        BY <2>4 DEF NewFlow
      <3>2. g.late = g.trueLate /\ g.gaps = g.trueGaps
        BY <1>1, <1>3, <3>1 DEF Count
      <3>3. g.high = base + g.expected
        BY <1>1, <1>3, <3>1 DEF Advance
      <3> QED
        BY <2>2, <3>2, <3>3
    <2> QED
      BY <2>3, <2>4
  <1> QED
    BY <1>3, <1>5, <1>6

-----------------------------------------------------------------------------
\* The initial state satisfies the invariant.
LEMMA NetworkInit == Init => NetworkInv
  <1> SUFFICES ASSUME Init PROVE NetworkInv
    OBVIOUS
  <1>1. conn \in [Key -> [start : Nat, pos : Nat, incarnation : {0, 1}]]
    <2>1. \A p \in FirstNumber : Opened(p, 0) \in [start : Nat, pos : Nat, incarnation : {0, 1}]
      BY NetworkAssumption DEF Opened
    <2> QED
      BY <2>1 DEF Init
  <1>2. /\ buffers \in [Key -> Seq(0..MaxBorn)] /\ flows \in [Key -> FlowRecord \cup {Untracked}]
        /\ born \in 0..MaxBorn /\ baseline \in 0..MaxBaseline
    BY NetworkAssumption DEF Init, NoBuffer, SyntheticBaseline
  <1>3. ASSUME NEW h \in Handler
        PROVE  /\ handler[h] \in [pc : {"idle", "indicated", "save", "write", "done"},
                                  client : Client, key : Key,
                                  raised : SUBSET Signal, due : SUBSET Signal,
                                  born : 0..MaxBorn, saved : Seq(0..MaxBorn)]
               /\ HandlerOK(h)
    <2>1. (CHOOSE c \in Client : TRUE) \in Client /\ (CHOOSE k \in Key : TRUE) \in Key
      <3>1. PICK c \in Client, r \in Server : TRUE
        BY NetworkAssumption
      <3>2. <<c, r>> \in Key
        BY DEF Key
      <3> QED
        BY <3>1, <3>2, Zenon
    <2>2. handler[h] = [pc |-> "idle", client |-> CHOOSE c \in Client : TRUE,
                        key |-> CHOOSE k \in Key : TRUE,
                        raised |-> {}, due |-> {}, born |-> 0, saved |-> <<>>]
      BY DEF Init
    <2>3. <<>> \in Seq(0..MaxBorn) /\ 0 \in 0..MaxBorn /\ Len(<<>>) <= BufferCap /\ born = 0
      BY NetworkAssumption DEF Init
    <2> QED
      BY <2>1, <2>2, <2>3 DEF HandlerOK, SavedIsOfOneFlow
  <1> QED
    BY <1>1, <1>2, <1>3 DEF NetworkInv, NetworkTypeOK, FlowsAreTrue, BuffersMatch, BufferOf, FlowsAreNumbered,
       HandlersMatch, Init

-----------------------------------------------------------------------------
\* The invariant says nothing of the connections but their type.
LEMMA ConnectionStep ==
    ASSUME NetworkInv, UNCHANGED <<flows, buffers, born, baseline, handler>>,
           conn' \in [Key -> [start : Nat, pos : Nat, incarnation : {0, 1}]]
    PROVE  NetworkInv'
  <1>1. NetworkTypeOK'
    BY DEF NetworkInv, NetworkTypeOK
  <1>2. FlowsAreTrue' /\ FlowsAreNumbered'
    BY DEF NetworkInv, FlowsAreTrue, FlowIsTrue, FlowsAreNumbered
  <1>3. BuffersMatch'
    BY DEF NetworkInv, BuffersMatch, BufferOf
  <1>4. HandlersMatch'
    BY DEF NetworkInv, HandlersMatch, HandlerOK, SavedIsOfOneFlow
  <1> QED
    BY <1>1, <1>2, <1>3, <1>4 DEF NetworkInv

\* A packet that is captured, whatever the connections do.
LEMMA PacketStep ==
    ASSUME NetworkInv, NEW k \in Key, NEW p \in Nat, ProcessPacket(k, p),
           conn' \in [Key -> [start : Nat, pos : Nat, incarnation : {0, 1}]],
           UNCHANGED <<baseline, handler>>
    PROVE  NetworkInv'
  <1>1. CASE UNCHANGED <<flows, buffers, born>>
    BY <1>1, ConnectionStep
  <1>2. CASE ~UNCHANGED <<flows, buffers, born>>
    <2> DEFINE f == IF k \in Tracked THEN flows[k] ELSE NewFlow(k, p)
               g == AddPacket(f, k, p)
    <2>1. /\ k \in Tracked \/ born < MaxBorn
          /\ f.seen < MaxSeen
          /\ born' = IF k \in Tracked THEN born ELSE born + 1
          /\ flows' = [flows EXCEPT ![k] = g]
          /\ buffers' = [buffers EXCEPT ![k] = Captured(@, f.born)]
      BY <1>2 DEF ProcessPacket
    <2>2. k \in Tracked <=> flows[k] # Untracked
      BY DEF Tracked
    <2>3. /\ born \in Nat /\ MaxBorn \in Nat /\ born <= MaxBorn
          /\ flows \in [Key -> FlowRecord \cup {Untracked}] /\ buffers \in [Key -> Seq(0..MaxBorn)]
      BY NetworkAssumption DEF NetworkInv, NetworkTypeOK
    <2>4. f \in FlowRecord /\ (FlowIsTrue(f) \/ f = NewFlow(k, p))
      <3>1. CASE k \in Tracked
        BY <2>2, <2>3, <3>1 DEF NetworkInv, FlowsAreTrue
      <3>2. CASE k \notin Tracked
        BY <2>1, <3>2, NewFlowIs DEF NetworkInv
      <3> QED
        BY <3>1, <3>2
    <2>5. /\ f.born \in 1..MaxBorn /\ f.born <= born' /\ born' \in 0..MaxBorn /\ born <= born'
          /\ k \in Tracked => f.born = flows[k].born
          /\ k \notin Tracked => f.born = born + 1
      <3>1. CASE k \in Tracked
        BY <2>1, <2>2, <2>3, <2>4, <3>1 DEF NetworkInv, FlowsAreNumbered, FlowRecord
      <3>2. CASE k \notin Tracked
        BY <2>1, <2>3, <2>4, <3>2 DEF NewFlow, FlowRecord
      <3> QED
        BY <3>1, <3>2
    <2> HIDE DEF f
    <2>6. g \in FlowRecord /\ g.born = f.born /\ FlowIsTrue(g)
      BY <2>1, <2>4, AddPacketIsTrue
    <2>7. g # Untracked
      BY <2>6, NotUntracked
    <2> HIDE DEF g
    <2>8. /\ flows' \in [Key -> FlowRecord \cup {Untracked}] /\ flows'[k] = g
          /\ \A j \in Key : j # k => flows'[j] = flows[j]
      BY <2>1, <2>3, <2>6
    <2>9. /\ Captured(buffers[k], f.born) \in Seq(0..MaxBorn)
          /\ Len(Captured(buffers[k], f.born)) \in 1..BufferCap
          /\ \A i \in 1..Len(Captured(buffers[k], f.born)) : Captured(buffers[k], f.born)[i] = f.born
      <3>1. buffers[k] \in Seq(0..MaxBorn)
        BY <2>3
      <3>2. buffers[k] = NoBuffer \/ (Len(buffers[k]) <= BufferCap
                                      /\ \A i \in 1..Len(buffers[k]) : buffers[k][i] = f.born)
        <4>1. BufferOf(k)
          BY DEF NetworkInv, BuffersMatch
        <4>2. CASE buffers[k] = <<>>
          BY <4>2, NetworkAssumption
        <4>3. CASE buffers[k] # <<>>
          BY <2>2, <2>5, <4>1, <4>3 DEF BufferOf
        <4> QED
          BY <4>2, <4>3
      <3> QED
        BY <2>3, <2>5, <3>1, <3>2, CapturedIsOfOneFlow
    <2>10. /\ buffers' \in [Key -> Seq(0..MaxBorn)] /\ buffers'[k] = Captured(buffers[k], f.born)
           /\ \A j \in Key : j # k => buffers'[j] = buffers[j]
      BY <2>1, <2>3, <2>9
    <2>11. NetworkTypeOK'
      BY <2>5, <2>8, <2>10 DEF NetworkInv, NetworkTypeOK
    <2>12. FlowsAreTrue'
      BY <2>6, <2>8 DEF NetworkInv, FlowsAreTrue, FlowIsTrue
    <2>13. ASSUME NEW j \in Key PROVE BufferOf(j)'
      <3>1. CASE j = k
        BY <2>6, <2>7, <2>8, <2>9, <2>10, <3>1, NetworkAssumption DEF BufferOf
      <3>2. CASE j # k
        BY <2>8, <2>10, <3>2 DEF NetworkInv, BuffersMatch, BufferOf
      <3> QED
        BY <3>1, <3>2
    <2>14. FlowsAreNumbered'
      <3> SUFFICES ASSUME NEW j \in Key, flows'[j] # Untracked PROVE flows'[j].born <= born'
        BY DEF FlowsAreNumbered
      <3>1. CASE j = k
        BY <2>5, <2>6, <2>8, <3>1
      <3>2. CASE j # k
        <4>1. flows[j] \in FlowRecord /\ flows[j].born <= born
          BY <2>3, <2>8, <3>2 DEF NetworkInv, FlowsAreNumbered
        <4>2. flows'[j] = flows[j]
          BY <2>8, <3>2
        <4>3. flows[j].born \in Nat
          BY <4>1 DEF FlowRecord
        <4>4. born \in Nat /\ born' \in Nat /\ born <= born'
          BY <2>3, <2>5
        <4> QED
          BY <4>1, <4>2, <4>3, <4>4
      <3> QED
        BY <3>1, <3>2
    <2>15. ASSUME NEW h \in Handler PROVE HandlerOK(h)'
      <3>1. HandlerOK(h) /\ handler[h].born \in 0..MaxBorn /\ handler[h].key \in Key
        BY DEF NetworkInv, HandlersMatch, NetworkTypeOK
      <3>2. CASE handler[h].key # k
        BY <2>3, <2>5, <2>8, <3>1, <3>2 DEF HandlerOK, SavedIsOfOneFlow
      <3>3. CASE handler[h].key = k
        BY <2>2, <2>3, <2>5, <2>6, <2>8, <3>1, <3>3 DEF HandlerOK, SavedIsOfOneFlow
      <3> QED
        BY <3>2, <3>3
    <2> QED
      BY <2>11, <2>12, <2>13, <2>14, <2>15 DEF NetworkInv, BuffersMatch, HandlersMatch
  <1> QED
    BY <1>1, <1>2

\* The network sends, sends again, and opens a connection anew.
LEMMA SegmentStep ==
    ASSUME NetworkInv, NEW k \in Key, Send(k) \/ Resend(k) \/ Reopen(k)
    PROVE  NetworkInv'
  <1>1. /\ conn \in [Key -> [start : Nat, pos : Nat, incarnation : {0, 1}]]
        /\ conn[k].pos \in Nat /\ conn[k].start \in Nat
    BY DEF NetworkInv, NetworkTypeOK
  <1>2. conn' \in [Key -> [start : Nat, pos : Nat, incarnation : {0, 1}]]
    <2>1. \A p \in FirstNumber : Opened(p, 1) \in [start : Nat, pos : Nat, incarnation : {0, 1}]
      BY NetworkAssumption DEF Opened
    <2> QED
      BY <1>1, <2>1 DEF Send, Resend, Reopen
  <1>3. CASE UNCHANGED <<flows, buffers, born>> /\ UNCHANGED <<baseline, handler>>
    BY <1>2, <1>3, ConnectionStep
  <1>4. CASE Send(k)
    BY <1>1, <1>2, <1>3, <1>4, PacketStep DEF Send
  <1>5. CASE Resend(k)
    <2>1. PICK p \in conn[k].start..(conn[k].pos - 1) : ProcessPacket(k, p)
      BY <1>5 DEF Resend
    <2>2. p \in Nat
      BY <1>1
    <2> QED
      BY <1>2, <1>5, <2>1, <2>2, PacketStep DEF Resend
  <1> QED
    BY <1>3, <1>4, <1>5 DEF Reopen

\* What is dropped takes its buffer with it.
LEMMA CleanupStep ==
    ASSUME NetworkInv, CleanupExpiredFlows
    PROVE  NetworkInv'
  <1>1. PICK expired \in SUBSET Tracked :
           /\ flows' = [k \in Key |-> IF k \in expired THEN Untracked ELSE flows[k]]
           /\ buffers' = [k \in Key |-> IF k \in expired THEN NoBuffer ELSE buffers[k]]
    BY DEF CleanupExpiredFlows, Dropped
  <1>2. UNCHANGED <<conn, born, baseline, handler>>
    BY DEF CleanupExpiredFlows
  <1>3. NetworkTypeOK'
    <2>1. NoBuffer \in Seq(0..MaxBorn)
      BY NetworkAssumption DEF NoBuffer
    <2> QED
      BY <1>1, <1>2, <2>1 DEF NetworkInv, NetworkTypeOK
  <1>4. FlowsAreTrue' /\ FlowsAreNumbered'
    BY <1>1, <1>2 DEF NetworkInv, FlowsAreTrue, FlowIsTrue, FlowsAreNumbered
  <1>5. BuffersMatch'
    BY <1>1, <1>2 DEF NetworkInv, BuffersMatch, BufferOf
  <1>6. ASSUME NEW h \in Handler PROVE HandlerOK(h)'
    <2>1. HandlerOK(h) /\ handler[h].key \in Key
      BY DEF NetworkInv, NetworkTypeOK, HandlersMatch
    <2> QED
      BY <1>1, <1>2, <2>1 DEF HandlerOK, SavedIsOfOneFlow
  <1> QED
    BY <1>3, <1>4, <1>5, <1>6 DEF NetworkInv, HandlersMatch

-----------------------------------------------------------------------------
HandlerRecord ==
    [pc : {"idle", "indicated", "save", "write", "done"}, client : Client, key : Key,
     raised : SUBSET Signal, due : SUBSET Signal, born : 0..MaxBorn, saved : Seq(0..MaxBorn)]

\* A step of one request that changes neither flows nor buffers.
LEMMA RequestStep ==
    ASSUME NetworkInv, NEW h \in Handler, NEW r \in HandlerRecord, SetHandler(h, r),
           UNCHANGED <<conn, flows, buffers, born>>, baseline' \in 0..MaxBaseline,
           r.raised = r.due, r.born <= born, r.saved = handler[h].saved,
           r.pc # "done" => r.saved = <<>>,
           r.saved = <<>> \/ r.born = handler[h].born,
           r.pc \in {"save", "write"} /\ flows[r.key] # Untracked => flows[r.key].born >= r.born
    PROVE  NetworkInv'
  <1>1. /\ handler' \in [Handler -> HandlerRecord] /\ handler'[h] = r
        /\ \A g \in Handler : g # h => handler'[g] = handler[g]
    BY DEF NetworkInv, NetworkTypeOK, HandlerRecord, SetHandler
  <1>2. NetworkTypeOK'
    BY <1>1 DEF NetworkInv, NetworkTypeOK, HandlerRecord
  <1>3. FlowsAreTrue' /\ FlowsAreNumbered' /\ BuffersMatch'
    BY DEF NetworkInv, FlowsAreTrue, FlowIsTrue, FlowsAreNumbered, BuffersMatch, BufferOf
  <1>4. ASSUME NEW g \in Handler PROVE HandlerOK(g)'
    <2>1. HandlerOK(g) /\ HandlerOK(h)
      BY DEF NetworkInv, HandlersMatch
    <2>2. CASE g # h
      BY <1>1, <2>1, <2>2 DEF HandlerOK, SavedIsOfOneFlow
    <2>3. CASE g = h
      <3>1. SavedIsOfOneFlow(h)'
        BY <1>1, <2>1 DEF HandlerOK, SavedIsOfOneFlow
      <3> QED
        BY <1>1, <2>3, <3>1 DEF HandlerOK
    <2> QED
      BY <2>2, <2>3
  <1> QED
    BY <1>2, <1>3, <1>4 DEF NetworkInv, HandlersMatch

\* The flow a look-up finds is tracked, and its counters are true.
LEMMA FlowOfIsTrue ==
    ASSUME NetworkInv, NEW client, NEW k \in FlowOf(client)
    PROVE  /\ k \in Key /\ flows[k] \in FlowRecord /\ FlowIsTrue(flows[k])
           /\ flows[k].born <= born
  <1>1. k \in Key /\ flows[k] # Untracked
    BY DEF FlowOf, Tracked
  <1> QED
    BY <1>1 DEF NetworkInv, NetworkTypeOK, FlowsAreTrue, FlowsAreNumbered

\* What a request knows before its step.
LEMMA HandlerIs ==
    ASSUME NetworkInv, NEW h \in Handler
    PROVE  handler[h] \in HandlerRecord /\ HandlerOK(h) /\ born \in Nat
  BY NetworkAssumption DEF NetworkInv, NetworkTypeOK, HandlersMatch, HandlerRecord

\* evaluate_transfer raises what the stream would.
LEMMA EvaluateTransferStep ==
    ASSUME NetworkInv, NEW h \in Handler, NEW client \in Client, EvaluateTransfer(h, client)
    PROVE  NetworkInv'
  <1> DEFINE r == [handler[h] EXCEPT !.pc = "indicated", !.client = client]
  <1>1. /\ handler[h] \in HandlerRecord /\ HandlerOK(h) /\ baseline \in 0..MaxBaseline
        /\ handler[h].pc = "idle" /\ handler[h].saved = <<>>
    BY HandlerIs DEF NetworkInv, NetworkTypeOK, EvaluateTransfer, HandlerOK
  <1>2. /\ r \in HandlerRecord /\ r.pc = "indicated" /\ r.raised = r.due
        /\ r.born = handler[h].born /\ r.saved = handler[h].saved /\ r.born <= born
    BY <1>1 DEF HandlerRecord, HandlerOK
  <1>3. UNCHANGED <<conn, flows, buffers, born, baseline>>
    BY DEF EvaluateTransfer
  <1>4. CASE SetHandler(h, r)
    BY <1>1, <1>2, <1>3, <1>4, RequestStep
  <1>5. ASSUME NEW k \in FlowOf(client), SetHandler(h, Indicated(r, flows[k]))
        PROVE  NetworkInv'
    <2>1. flows[k] \in FlowRecord /\ FlowIsTrue(flows[k])
      BY FlowOfIsTrue
    <2> DEFINE f == flows[k]
               s == Indicated(r, f)
    <2>2. (IF f.exact THEN f.trueGaps ELSE f.gaps) = f.gaps
      BY <2>1 DEF FlowIsTrue
    <2> HIDE DEF r
    <2>3. Indicators(f.gaps) \in SUBSET Signal
      BY DEF Indicators, Signal
    <2>4. s = [r EXCEPT !.raised = Indicators(f.gaps), !.due = Indicators(f.gaps)]
      BY <2>2 DEF Indicated, Summary
    <2> HIDE DEF s, f
    <2>5. /\ s \in HandlerRecord /\ s.pc = "indicated" /\ s.raised = s.due
          /\ s.born = r.born /\ s.saved = r.saved
      BY <1>2, <2>3, <2>4 DEF HandlerRecord
    <2>6. SetHandler(h, s)
      BY <1>5 DEF s, f
    <2> QED
      BY <1>1, <1>2, <1>3, <2>5, <2>6, RequestStep
  <1> QED
    BY <1>4, <1>5 DEF EvaluateTransfer

\* evaluate_flow adds what the stream would, and remembers the flow.
LEMMA EvaluateFlowStep ==
    ASSUME NetworkInv, NEW h \in Handler, EvaluateFlow(h)
    PROVE  NetworkInv'
  <1>1. /\ handler[h] \in HandlerRecord /\ HandlerOK(h) /\ baseline \in 0..MaxBaseline
        /\ handler[h].pc = "indicated" /\ handler[h].saved \in Seq(0..MaxBorn)
    BY HandlerIs DEF NetworkInv, NetworkTypeOK, EvaluateFlow, HandlerRecord
  <1>2. UNCHANGED <<conn, flows, buffers, born>>
    BY DEF EvaluateFlow
  <1>3. CASE SetHandler(h, [handler[h] EXCEPT !.pc = "done"]) /\ UNCHANGED baseline
    <2> DEFINE r == [handler[h] EXCEPT !.pc = "done"]
    <2>1. /\ r \in HandlerRecord /\ r.pc = "done" /\ r.raised = r.due
          /\ r.born = handler[h].born /\ r.saved = handler[h].saved /\ r.born <= born
      BY <1>1 DEF HandlerRecord, HandlerOK
    <2> QED
      BY <1>1, <1>2, <1>3, <2>1, RequestStep
  <1>4. ASSUME NEW k \in FlowOf(handler[h].client), baseline' = Baseline,
               SetHandler(h, Signalled([handler[h] EXCEPT !.pc = "save", !.key = k, !.born = flows[k].born],
                                       flows[k]))
        PROVE  NetworkInv'
    <2> DEFINE f == flows[k]
               r == [handler[h] EXCEPT !.pc = "save", !.key = k, !.born = f.born]
               s == Signalled(r, f)
    <2>1. /\ k \in Key /\ f \in FlowRecord /\ FlowIsTrue(f) /\ f.born <= born
          /\ f.born \in 0..MaxBorn /\ f.born \in Nat
      BY FlowOfIsTrue, NetworkAssumption DEF FlowRecord
    <2>2. baseline' \in 0..MaxBaseline
      <3>1. MaxBaseline \div 2 \in 0..MaxBaseline
        BY NetworkAssumption
      <3>2. Baseline \in 0..MaxBaseline
        BY <1>1, <3>1, NetworkAssumption DEF Baseline
      <3> QED
        BY <1>4, <3>2
    <2>3. (IF f.exact THEN Signals(f.trueLate, f.trueGaps) ELSE Signals(f.late, f.gaps))
             = Signals(f.late, f.gaps)
      BY <2>1 DEF FlowIsTrue
    <2>4. Signals(f.late, f.gaps) \in SUBSET Signal
      BY DEF Signals, Signal
    <2> HIDE DEF f
    <2>5. /\ r \in HandlerRecord /\ r.pc = "save" /\ r.raised = r.due /\ r.key = k
          /\ r.born = f.born /\ r.saved = handler[h].saved
      BY <1>1, <2>1 DEF HandlerRecord, HandlerOK
    <2> HIDE DEF r
    <2>6. s = [r EXCEPT !.raised = @ \cup Signals(f.late, f.gaps), !.due = @ \cup Signals(f.late, f.gaps)]
      BY <2>3 DEF Signalled, Summary
    <2> HIDE DEF s
    <2>7. /\ s \in HandlerRecord /\ s.pc = "save" /\ s.raised = s.due /\ s.key = k
          /\ s.born = f.born /\ s.saved = handler[h].saved
      BY <2>4, <2>5, <2>6 DEF HandlerRecord
    <2>8. SetHandler(h, s)
      BY <1>4 DEF s, r, f
    <2>9. handler[h].saved = <<>>
      BY <1>1 DEF HandlerOK
    <2> QED
      BY <1>2, <2>1, <2>2, <2>7, <2>8, <2>9, RequestStep DEF f
  <1> QED
    BY <1>3, <1>4 DEF EvaluateFlow

\* save_pcap looks for the buffer without the lock.
LEMMA FindBufferStep ==
    ASSUME NetworkInv, NEW h \in Handler, FindBuffer(h)
    PROVE  NetworkInv'
  <1>1. /\ handler[h] \in HandlerRecord /\ HandlerOK(h) /\ baseline \in 0..MaxBaseline
        /\ handler[h].pc = "save" /\ handler[h].saved = <<>>
    BY HandlerIs DEF NetworkInv, NetworkTypeOK, FindBuffer, HandlerOK
  <1>2. UNCHANGED <<conn, flows, buffers, born, baseline>>
    BY DEF FindBuffer
  <1>3. PICK pc \in {"done", "write"} : SetHandler(h, [handler[h] EXCEPT !.pc = pc])
    BY DEF FindBuffer
  <1> DEFINE r == [handler[h] EXCEPT !.pc = pc]
  <1>4. /\ r \in HandlerRecord /\ r.pc = pc /\ r.raised = r.due /\ r.key = handler[h].key
        /\ r.born = handler[h].born /\ r.saved = <<>> /\ r.born <= born
    BY <1>1 DEF HandlerRecord, HandlerOK
  <1>5. flows[r.key] # Untracked => flows[r.key].born >= r.born
    BY <1>1, <1>4 DEF HandlerOK
  <1> HIDE DEF r
  <1>6. SetHandler(h, r)
    BY <1>3 DEF r
  <1> QED
    BY <1>1, <1>2, <1>4, <1>5, <1>6, RequestStep

\* What is written under the lock is the buffer of one flow, or nothing.
LEMMA WriteBufferStep ==
    ASSUME NetworkInv, NEW h \in Handler, WriteBuffer(h)
    PROVE  NetworkInv'
  <1> DEFINE k == handler[h].key
             found == IF buffers[k] = NoBuffer THEN <<>> ELSE buffers[k]
             r == [handler[h] EXCEPT !.pc = "done", !.saved = found]
  <1>1. /\ handler[h] \in HandlerRecord /\ HandlerOK(h) /\ born \in Nat
        /\ handler[h].pc = "write" /\ k \in Key
    BY HandlerIs DEF WriteBuffer, HandlerRecord
  <1>2. /\ UNCHANGED <<conn, flows, born, baseline>>
        /\ buffers' = [buffers EXCEPT ![k] = found] /\ SetHandler(h, r)
    BY DEF WriteBuffer
  <1>3. found \in Seq(0..MaxBorn) /\ buffers \in [Key -> Seq(0..MaxBorn)]
    <2>1. buffers \in [Key -> Seq(0..MaxBorn)] /\ buffers[k] \in Seq(0..MaxBorn)
      BY <1>1 DEF NetworkInv, NetworkTypeOK
    <2>2. <<>> \in Seq(0..MaxBorn)
      OBVIOUS
    <2> HIDE DEF k
    <2> QED
      BY <2>1, <2>2, Zenon
  <1>4. BufferOf(k)
    BY <1>1 DEF NetworkInv, BuffersMatch
  <1>5. /\ Len(found) <= BufferCap
        /\ \A i, j \in 1..Len(found) : found[i] = found[j]
        /\ found # <<>> => found[1] >= handler[h].born
    <2>1. CASE buffers[k] \in {NoBuffer, <<>>}
      BY <2>1, NetworkAssumption
    <2>2. CASE buffers[k] \notin {NoBuffer, <<>>}
      <3>1. /\ found = buffers[k] /\ flows[k] # Untracked /\ Len(found) <= BufferCap
            /\ \A i \in 1..Len(found) : found[i] = flows[k].born
        BY <1>4, <2>2 DEF BufferOf
      <3>2. 1 \in 1..Len(found)
        BY <1>3, <2>2, <3>1
      <3>3. flows[k].born >= handler[h].born
        BY <1>1, <3>1 DEF HandlerOK
      <3> QED
        BY <3>1, <3>2, <3>3
    <2> QED
      BY <2>1, <2>2
  <1> HIDE DEF found
  <1>6. /\ r \in HandlerRecord /\ r.pc = "done" /\ r.raised = r.due /\ r.saved = found
        /\ r.born = handler[h].born /\ r.born <= born
    BY <1>1, <1>3 DEF HandlerRecord, HandlerOK
  <1> HIDE DEF r
  <1>7. /\ handler' \in [Handler -> HandlerRecord] /\ handler'[h] = r
        /\ \A g \in Handler : g # h => handler'[g] = handler[g]
    BY <1>2, <1>6 DEF NetworkInv, NetworkTypeOK, HandlerRecord, SetHandler
  <1>8. /\ buffers' \in [Key -> Seq(0..MaxBorn)] /\ buffers'[k] = found
        /\ \A j \in Key : j # k => buffers'[j] = buffers[j]
    BY <1>1, <1>2, <1>3
  <1>9. NetworkTypeOK'
    BY <1>2, <1>7, <1>8 DEF NetworkInv, NetworkTypeOK, HandlerRecord
  <1>10. FlowsAreTrue' /\ FlowsAreNumbered'
    BY <1>2 DEF NetworkInv, FlowsAreTrue, FlowIsTrue, FlowsAreNumbered
  <1>11. ASSUME NEW j \in Key PROVE BufferOf(j)'
    <2>1. BufferOf(j)
      BY DEF NetworkInv, BuffersMatch
    <2>2. CASE j = k
      BY <1>2, <1>8, <2>1, <2>2 DEF BufferOf, found
    <2>3. CASE j # k
      BY <1>2, <1>8, <2>1, <2>3 DEF BufferOf
    <2> QED
      BY <2>2, <2>3
  <1>12. ASSUME NEW g \in Handler PROVE HandlerOK(g)'
    <2>1. HandlerOK(g)
      BY DEF NetworkInv, HandlersMatch
    <2>2. CASE g # h
      BY <1>2, <1>7, <2>1, <2>2 DEF HandlerOK, SavedIsOfOneFlow
    <2>3. CASE g = h
      BY <1>2, <1>5, <1>6, <1>7, <2>3 DEF HandlerOK, SavedIsOfOneFlow
    <2> QED
      BY <2>2, <2>3
  <1> QED
    BY <1>9, <1>10, <1>11, <1>12 DEF NetworkInv, BuffersMatch, HandlersMatch

-----------------------------------------------------------------------------
\* Every step preserves the invariant.
LEMMA NetworkInvStep == NetworkInv /\ [Next]_vars => NetworkInv'
  <1> SUFFICES ASSUME NetworkInv, [Next]_vars PROVE NetworkInv'
    OBVIOUS
  <1>1. ASSUME NEW k \in Key, Send(k) \/ Resend(k) \/ Reopen(k) PROVE NetworkInv'
    BY <1>1, SegmentStep
  <1>2. CASE CleanupExpiredFlows
    BY <1>2, CleanupStep
  <1>3. ASSUME NEW h \in Handler, NEW c \in Client, EvaluateTransfer(h, c) PROVE NetworkInv'
    BY <1>3, EvaluateTransferStep
  <1>4. ASSUME NEW h \in Handler, EvaluateFlow(h) \/ FindBuffer(h) \/ WriteBuffer(h) PROVE NetworkInv'
    BY <1>4, EvaluateFlowStep, FindBufferStep, WriteBufferStep
  <1>5. CASE UNCHANGED vars
    <2>1. conn' \in [Key -> [start : Nat, pos : Nat, incarnation : {0, 1}]]
      BY <1>5 DEF vars, NetworkInv, NetworkTypeOK
    <2> QED
      BY <1>5, <2>1, ConnectionStep DEF vars
  <1> QED
    BY <1>1, <1>2, <1>3, <1>4, <1>5 DEF Next

LEMMA NetworkAlways == Spec => []NetworkInv
  <1>1. Init => NetworkInv
    BY NetworkInit
  <1>2. NetworkInv /\ [Next]_vars => NetworkInv'
    BY NetworkInvStep
  <1> QED
    BY <1>1, <1>2, PTL DEF Spec

\* The monitor, its baseline and the requests keep their state in range.
THEOREM NetworkTypes == Spec => []NetworkTypeOK
  <1>1. NetworkInv => NetworkTypeOK
    BY DEF NetworkInv
  <1> QED
    BY <1>1, NetworkAlways, PTL

\* FlowStats.add_packet counts, and the two evaluations raise, what the
\* stream did, until a port is used again or the numbers come round.
THEOREM SignalsAreOfTheStream == Spec => []SignalsAreReal
  <1>1. NetworkInv => SignalsAreReal
    BY DEF NetworkInv, FlowsAreTrue, FlowIsTrue, HandlersMatch, HandlerOK, SignalsAreReal, Tracked
  <1> QED
    BY <1>1, NetworkAlways, PTL

\* save_pcap, whose check and reading are apart, saves packets of one flow:
\* the one that was evaluated or a later one under its key.
THEOREM CapturesAreOfOneFlow == Spec => []CaptureIsOfOneFlow
  <1>1. NetworkInv => CaptureIsOfOneFlow
    <2> SUFFICES ASSUME NetworkInv PROVE CaptureIsOfOneFlow
      OBVIOUS
    <2>1. ASSUME NEW k \in Key, buffers[k] \notin {NoBuffer, <<>>}
          PROVE  k \in Tracked /\ OfOneFlow(buffers[k]) /\ Head(buffers[k]) = flows[k].born
      <3>1. BufferOf(k) /\ buffers[k] \in Seq(0..MaxBorn)
        BY DEF NetworkInv, NetworkTypeOK, BuffersMatch
      <3>2. DOMAIN buffers[k] = 1..Len(buffers[k]) /\ 1 \in 1..Len(buffers[k])
            /\ Head(buffers[k]) = buffers[k][1]
        BY <2>1, <3>1
      <3> QED
        BY <2>1, <3>1, <3>2 DEF BufferOf, OfOneFlow, Tracked
    <2>2. ASSUME NEW h \in Handler, handler[h].saved # <<>>
          PROVE  OfOneFlow(handler[h].saved) /\ Head(handler[h].saved) >= handler[h].born
      <3>1. HandlerOK(h) /\ handler[h].saved \in Seq(0..MaxBorn)
        BY DEF NetworkInv, NetworkTypeOK, HandlersMatch
      <3>2. DOMAIN handler[h].saved = 1..Len(handler[h].saved) /\ Head(handler[h].saved) = handler[h].saved[1]
        BY <2>2, <3>1
      <3> QED
        BY <2>2, <3>1, <3>2 DEF HandlerOK, SavedIsOfOneFlow, OfOneFlow
    <2> QED
      BY <2>1, <2>2 DEF CaptureIsOfOneFlow
  <1> QED
    BY <1>1, NetworkAlways, PTL
=============================================================================
