------------------------ MODULE PrivacyBudgetProofs ------------------------
(***************************************************************************)
(* What the privacy accountant guarantees whatever the uploads, outages,   *)
(* restarts and epochs: theorems of UploadSpec for every value of the      *)
(* constants.  The argument has two parts: a step of the system either     *)
(* leaves the accountant alone or is one of its operations (OnlyCharges),  *)
(* and each operation preserves BudgetInv.                                 *)
(***************************************************************************)
EXTENDS UploadPipeline, TLAPS

\* The integers of the bound: each loss, of a dictionary with the process or of
\* charges by Redis, is worth one more ceiling.
LEMMA Arithmetic ==
    /\ Ceiling \in Nat
    /\ \A n \in Nat :
          /\ n * Ceiling \in Nat
          /\ (n + 1) * Ceiling = n * Ceiling + Ceiling
          /\ (2 + n) * Ceiling = n * Ceiling + Ceiling + Ceiling
  <1>1. Ceiling \in Nat
    BY BudgetAssumption DEF Ceiling
  <1> HIDE DEF Ceiling
  <1> QED BY <1>1

\* The lost stores, as a number.
LEMMA LostIs ==
    ASSUME BudgetTypeOK
    PROVE  /\ starts \in Nat /\ losses \in Nat /\ starts + losses \in Nat
           /\ (starts + losses) * Ceiling \in Nat
           /\ (starts + losses + 1) * Ceiling = (starts + losses) * Ceiling + Ceiling
  <1>1. starts \in Nat /\ losses \in Nat /\ starts + losses \in Nat
    BY DEF BudgetTypeOK, AmountsOK
  <1> QED BY <1>1, Arithmetic

\* An analysis touches the accountant only through consume_budget, and always
\* as a PERIODIC one.
LEMMA AnalyseCharges ==
    ASSUME Analyse
    PROVE  \/ UNCHANGED budgetVars
           \/ \E u : \E granted \in BOOLEAN : ConsumeBudget(u, "PERIODIC", granted)
  <1>1. \/ UNCHANGED budgetVars
        \/ ConsumeBudget(up.user, "PERIODIC", TRUE)
        \/ ConsumeBudget(up.user, "PERIODIC", FALSE)
    BY Zenon DEF Analyse, Analysis, PrivatizeFeatures
  <1> QED BY <1>1, Zenon

\* The same for the analyses between fragments.
LEMMA FragmentCharges ==
    ASSUME NEW elapsed \in BOOLEAN, Fragment(elapsed)
    PROVE  \/ UNCHANGED budgetVars
           \/ \E u : \E granted \in BOOLEAN : ConsumeBudget(u, "PERIODIC", granted)
  <1> DEFINE r == [up EXCEPT !.chunks = @ + 1]
  <1>1. \/ UNCHANGED budgetVars
        \/ ConsumeBudget(r.user, "PERIODIC", TRUE)
        \/ ConsumeBudget(r.user, "PERIODIC", FALSE)
    BY Zenon DEF Fragment, Analysis, PrivatizeFeatures
  <1> QED BY <1>1, Zenon

\* No step of an upload, of Redis, of the clock or of the process changes the
\* accountant except through the operations of PrivacyBudget.
LEMMA OnlyCharges ==
    ASSUME UploadNext
    PROVE  \/ UNCHANGED budgetVars
           \/ \E u : \E granted \in BOOLEAN : ConsumeBudget(u, "PERIODIC", granted)
           \/ RedisStep
           \/ EngineRestart
  <1>1. CASE Analyse
    BY <1>1, AnalyseCharges
  <1>2. CASE \E elapsed \in BOOLEAN : Fragment(elapsed)
    BY <1>2, FragmentCharges
  <1>3. CASE Environment
    BY <1>3 DEF Environment
  <1>4. CASE Restart
    BY <1>4 DEF Restart
  <1>5. CASE \E u \in User, ext \in {"critical", "archive", "media", "other"}, trusted \in BOOLEAN :
               Receive(u, ext, trusted)
    BY <1>5, Zenon DEF Receive
  <1>6. CASE RefuseExtension \/ RefuseRequest \/ Accept \/ Startup
               \/ EncryptionFails \/ Package \/ Uncaught \/ Answer
    BY <1>6, Zenon DEF RefuseExtension, RefuseRequest, Accept, Startup,
                       EncryptionFails, Package, Uncaught, Answer
  <1>7. CASE Scan
    BY <1>7, Zenon DEF Scan, Malicious, NotMalicious
  <1> QED
    BY <1>1, <1>2, <1>3, <1>4, <1>5, <1>6, <1>7 DEF UploadNext, UploadStep

\* Adding a cost to one entry, of a user of the system or not, keeps amounts.
LEMMA ChargedAmounts ==
    ASSUME NEW f \in [User -> Nat], NEW u
    PROVE  [f EXCEPT ![u] = @ + Cost] \in [User -> Nat]
  <1> DEFINE g == [f EXCEPT ![u] = @ + Cost]
  <1>1. \A v \in User : g[v] = IF v = u THEN f[v] + Cost ELSE f[v]
    OBVIOUS
  <1>2. \A v \in User : g[v] \in Nat
    <2> SUFFICES ASSUME NEW v \in User PROVE g[v] \in Nat
      OBVIOUS
    <2>1. f[v] \in Nat /\ f[v] + Cost \in Nat
      BY BudgetAssumption
    <2> HIDE DEF g
    <2> QED BY <1>1, <2>1, Zenon
  <1>3. g = [v \in User |-> g[v]]
    OBVIOUS
  <1> HIDE DEF g
  <1>4. g \in [User -> Nat]
    BY <1>2, <1>3
  <1> QED BY <1>4 DEF g

\* Charging the stores keeps each under the ceiling and records in one of them
\* what is granted, for any user; a late answer charges both.
LEMMA ChargeKeepsInv ==
    ASSUME BudgetInv, NEW u, NEW granted \in BOOLEAN,
           ConsumeBudget(u, "PERIODIC", granted)
    PROVE  BudgetInv'
  <1> USE BudgetAssumption
  <1>1. SwitchesOK'
    BY Zenon DEF BudgetInv, BudgetTypeOK, SwitchesOK, ConsumeBudget,
                 RunScript, InMemoryConsume, clock
  <1>2. /\ consumed \in [User -> Nat] /\ local \in [User -> Nat]
        /\ released \in [User -> Nat]
        /\ epoch \in Nat /\ outages \in Nat /\ starts \in Nat /\ losses \in Nat
        /\ (starts + losses) * Ceiling \in Nat /\ Ceiling \in Nat
    BY Arithmetic, LostIs DEF BudgetInv, BudgetTypeOK, AmountsOK
  <1>3. /\ lastSecond' = lastSecond /\ epoch' = epoch /\ outages' = outages
        /\ starts' = starts /\ losses' = losses
    BY Zenon DEF ConsumeBudget, clock
  <1> DEFINE Up(f) == [f EXCEPT ![u] = @ + Cost]
  <1>4. \/ consumed' = consumed
        \/ Admits(consumed[u], "PERIODIC") /\ consumed' = Up(consumed)
    BY <1>2 DEF ConsumeBudget, RunScript
  <1>5. \/ local' = local
        \/ Admits(local[u], "PERIODIC") /\ local' = Up(local)
    BY <1>2 DEF ConsumeBudget, InMemoryConsume
  <1>6. \/ released' = released
        \/ /\ released' = Up(released)
           /\ lastSecond \/ consumed' = Up(consumed) \/ local' = Up(local)
    BY <1>2 DEF ConsumeBudget, RunScript, InMemoryConsume
  <1>7. AmountsOK'
    <2>1. \A f \in [User -> Nat] : Up(f) \in [User -> Nat]
      BY ChargedAmounts
    <2> HIDE DEF Up
    <2>2. consumed' \in [User -> Nat]
      BY <1>2, <1>4, <2>1
    <2>3. local' \in [User -> Nat]
      BY <1>2, <1>5, <2>1
    <2>4. released' \in [User -> Nat]
      BY <1>2, <1>6, <2>1
    <2> QED BY <1>2, <1>3, <2>2, <2>3, <2>4, Zenon DEF AmountsOK
  <1>8. \A v \in User : consumed'[v] <= Ceiling /\ local'[v] <= Ceiling
    BY <1>2, <1>4, <1>5 DEF BudgetInv, ReserveUntouched, Admits, Ceiling
  <1>9. ASSUME ~lastSecond', NEW v \in User
        PROVE  released'[v] <= consumed'[v] + local'[v] + (starts' + losses') * Ceiling
    <2>1. PICK lost \in Nat : lost = (starts + losses) * Ceiling
      BY <1>2
    <2>2. (starts' + losses') * Ceiling = lost
      BY <1>3, <2>1
    <2>3. released[v] <= consumed[v] + local[v] + lost
      BY <1>3, <1>9, <2>1 DEF BudgetInv
    <2> QED
      BY <1>2, <1>3, <1>4, <1>5, <1>6, <1>9, <2>2, <2>3
  <1> QED
    BY <1>1, <1>7, <1>8, <1>9 DEF BudgetInv, BudgetTypeOK, ReserveUntouched, Ceiling

\* Redis coming back: with its charges, or with a loss of at most a ceiling.
LEMMA StartKeepsInv ==
    ASSUME BudgetInv, RedisStarts
    PROVE  BudgetInv'
  <1>1. PICK kept \in [User -> 0..TotalEpsilon] :
          /\ \A u \in User : kept[u] \in Earlier(consumed[u])
          /\ consumed' = kept
          /\ losses' = IF kept = consumed THEN losses ELSE losses + 1
    BY DEF RedisStarts
  <1>2. /\ local' = local /\ released' = released /\ epoch' = epoch /\ outages' = outages
        /\ starts' = starts /\ lastSecond' = lastSecond
    BY Zenon DEF RedisStarts, process
  <1>3. /\ consumed \in [User -> Nat] /\ local \in [User -> Nat] /\ released \in [User -> Nat]
        /\ epoch \in Nat /\ outages \in Nat
    BY DEF BudgetInv, BudgetTypeOK, AmountsOK
  <1>4. kept \in [User -> Nat] /\ \A u \in User : kept[u] <= consumed[u]
    BY <1>1, <1>3, BudgetAssumption DEF Earlier
  <1>5. BudgetTypeOK'
    <2>1. losses' \in Nat /\ starts \in Nat
      BY <1>1, LostIs DEF BudgetInv
    <2>2. AmountsOK'
      BY <1>1, <1>2, <1>3, <1>4, <2>1, Zenon DEF AmountsOK
    <2>3. SwitchesOK'
      BY Zenon DEF BudgetInv, BudgetTypeOK, SwitchesOK, RedisStarts, process
    <2> QED BY <2>2, <2>3 DEF BudgetTypeOK
  <1>6. Ceiling \in Nat /\ \A u \in User : consumed[u] <= Ceiling /\ local[u] <= Ceiling
    BY Arithmetic DEF BudgetInv, ReserveUntouched
  <1>7. \A u \in User : consumed'[u] <= Ceiling /\ local'[u] <= Ceiling
    <2> HIDE DEF Ceiling
    <2> QED BY <1>1, <1>2, <1>3, <1>4, <1>6
  <1>8. ASSUME ~lastSecond', NEW u \in User
        PROVE  released'[u] <= consumed'[u] + local'[u] + (starts' + losses') * Ceiling
    <2>1. PICK lost \in Nat : lost = (starts + losses) * Ceiling
      BY LostIs DEF BudgetInv
    <2>2. released[u] <= consumed[u] + local[u] + lost
      BY <1>2, <1>8, <2>1 DEF BudgetInv
    <2>3. /\ consumed[u] \in Nat /\ local[u] \in Nat /\ released[u] \in Nat
          /\ kept[u] \in Nat /\ consumed[u] <= Ceiling /\ Ceiling \in Nat
      BY <1>3, <1>4, <1>6
    <2>4. CASE kept = consumed
      BY <1>1, <1>2, <2>1, <2>2, <2>4
    <2>5. CASE kept # consumed
      <3>1. (starts' + losses') * Ceiling = lost + Ceiling
        <4>1. losses' = losses + 1 /\ starts' = starts
          BY <1>1, <1>2, <2>5
        <4>2. starts + (losses + 1) = starts + losses + 1
          BY LostIs DEF BudgetInv
        <4> QED BY <2>1, <4>1, <4>2, LostIs DEF BudgetInv
      <3> HIDE DEF Ceiling
      <3> QED BY <1>1, <1>2, <2>2, <2>3, <3>1
    <2> QED BY <2>4, <2>5
  <1> QED BY <1>5, <1>7, <1>8 DEF BudgetInv, ReserveUntouched, Ceiling

\* Redis stopping, starting and expiring keys, and the epochs.
LEMMA RedisKeepsInv ==
    ASSUME BudgetInv, RedisStep
    PROVE  BudgetInv'
  <1> USE DEF BudgetInv, BudgetTypeOK, ReserveUntouched, Ceiling
  <1>1. SwitchesOK'
    BY Zenon DEF SwitchesOK, RedisStep, RedisStops, RedisStarts, LastSecond, NewEpoch,
                 Expire, process, clock
  <1>2. CASE RedisStops
    BY <1>1, <1>2 DEF AmountsOK, RedisStops, process
  <1>3. CASE RedisStarts
    BY <1>3, StartKeepsInv
  <1>4. CASE LastSecond
    BY <1>1, <1>4 DEF AmountsOK, LastSecond, process
  <1>5. CASE NewEpoch
    BY <1>1, <1>5, BudgetAssumption DEF AmountsOK, NewEpoch
  <1>6. CASE \E u \in User : Expire(u)
    BY <1>1, <1>6, BudgetAssumption DEF AmountsOK, Expire, process, clock
  <1> QED BY <1>2, <1>3, <1>4, <1>5, <1>6 DEF RedisStep

\* A restart of the engine loses the dictionary, never more than a ceiling.
LEMMA RestartKeepsInv ==
    ASSUME BudgetInv, EngineRestart
    PROVE  BudgetInv'
  <1>1. BudgetTypeOK'
    <2>1. AmountsOK'
      BY DEF BudgetInv, BudgetTypeOK, AmountsOK, EngineRestart
    <2>2. SwitchesOK'
      BY Zenon DEF BudgetInv, BudgetTypeOK, SwitchesOK, EngineRestart
    <2> QED BY <2>1, <2>2 DEF BudgetTypeOK
  <1>2. ReserveUntouched'
    BY BudgetAssumption DEF BudgetInv, ReserveUntouched, Ceiling, EngineRestart
  <1>3. ASSUME ~lastSecond', NEW u \in User
        PROVE  released'[u] <= consumed'[u] + local'[u] + (starts' + losses') * Ceiling
    <2>1. PICK lost \in Nat : lost = (starts + losses) * Ceiling
      BY LostIs DEF BudgetInv
    <2>2. released[u] <= consumed[u] + local[u] + lost /\ local[u] <= Ceiling
      BY <1>3, <2>1 DEF BudgetInv, ReserveUntouched, EngineRestart
    <2>3. (starts' + losses') * Ceiling = lost + Ceiling
      <3>1. starts' = starts + 1 /\ losses' = losses
        BY DEF EngineRestart
      <3>2. (starts + 1) + losses = starts + losses + 1
        BY LostIs DEF BudgetInv
      <3> QED BY <2>1, <3>1, <3>2, LostIs DEF BudgetInv
    <2>4. /\ consumed' = consumed /\ released' = released /\ local'[u] = 0
          /\ consumed[u] \in Nat /\ local[u] \in Nat /\ released[u] \in Nat
          /\ Ceiling \in Nat
      BY Arithmetic DEF BudgetInv, BudgetTypeOK, AmountsOK, EngineRestart
    <2> HIDE DEF Ceiling
    <2> QED BY <2>1, <2>2, <2>3, <2>4
  <1> QED BY <1>1, <1>2, <1>3 DEF BudgetInv, Ceiling

\* The inductive invariant of the accountant holds in every state of the
\* engine: it is established by the initial state and kept by every step.
THEOREM BudgetInvariant == UploadSpec => []BudgetInv
  <1>1. UploadInit => BudgetInv
    <2> SUFFICES ASSUME BudgetInit PROVE BudgetInv
      BY DEF UploadInit
    <2>1. AmountsOK
      BY DEF BudgetInit, AmountsOK
    <2>2. SwitchesOK
      BY Zenon DEF BudgetInit, SwitchesOK
    <2>3. \A u \in User : /\ consumed[u] = 0 /\ local[u] = 0
                          /\ released[u] = 0 /\ starts = 0 /\ losses = 0
      BY DEF BudgetInit
    <2> QED
      BY <2>1, <2>2, <2>3, BudgetAssumption, Arithmetic
      DEF BudgetInv, BudgetTypeOK, ReserveUntouched, Ceiling
  <1>2. BudgetInv /\ [UploadNext]_uploadVars => BudgetInv'
    <2>1. CASE UNCHANGED budgetVars
      BY <2>1, Zenon DEF BudgetInv, BudgetTypeOK, AmountsOK, SwitchesOK,
                         ReserveUntouched, Ceiling, budgetVars, process, clock
    <2>2. CASE UNCHANGED uploadVars
      BY <2>1, <2>2 DEF uploadVars
    <2> QED
      BY <2>1, <2>2, OnlyCharges, ChargeKeepsInv, RedisKeepsInv, RestartKeepsInv
  <1> QED BY <1>1, <1>2, PTL DEF UploadSpec

\* consume_budget never charges a store into the reserve: PERIODIC analyses
\* leave ReservedEpsilon of Redis' budget and of the dictionary's untouched,
\* in every epoch and through every outage.
THEOREM ReserveIsUntouched == UploadSpec => []ReserveUntouched
  <1>1. BudgetInv => ReserveUntouched
    BY DEF BudgetInv
  <1> QED BY <1>1, BudgetInvariant, PTL

\* The price of the fallback and of a Redis that persists nothing: before the
\* last second of an epoch no user has been granted more than one budget of
\* Redis, one for each time it came back with less, and one of the dictionary
\* per process of the epoch, however often Redis fails and comes back.
THEOREM OutagesCostBoundedBudget == UploadSpec => []OutageBound
  <1>1. BudgetInv => OutageBound
    <2> SUFFICES ASSUME BudgetInv, ~lastSecond, NEW u \in User
                 PROVE  released[u] <= (2 + starts + losses) * Ceiling
      BY DEF OutageBound
    <2>1. PICK lost \in Nat : lost = (starts + losses) * Ceiling
      BY LostIs DEF BudgetInv
    <2>2. /\ released[u] <= consumed[u] + local[u] + lost
          /\ consumed[u] <= Ceiling /\ local[u] <= Ceiling
      BY <2>1 DEF BudgetInv, ReserveUntouched
    <2>3. (2 + starts + losses) * Ceiling = lost + Ceiling + Ceiling
      <3>1. 2 + starts + losses = 2 + (starts + losses) /\ starts + losses \in Nat
        BY LostIs DEF BudgetInv
      <3> QED BY <2>1, <3>1, Arithmetic
    <2>4. /\ Ceiling \in Nat
          /\ consumed[u] \in Nat /\ local[u] \in Nat /\ released[u] \in Nat
      BY Arithmetic DEF BudgetInv, BudgetTypeOK, AmountsOK
    <2> HIDE DEF Ceiling
    <2> QED BY <2>1, <2>2, <2>3, <2>4
  <1> QED BY <1>1, BudgetInvariant, PTL
=============================================================================
