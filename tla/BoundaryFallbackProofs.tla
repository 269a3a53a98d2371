----------------------- MODULE BoundaryFallbackProofs -----------------------
(***************************************************************************)
(* Proofs about BoundaryFallback, for any number of activations, functions *)
(* and thresholds.                                                         *)
(***************************************************************************)
EXTENDS BoundaryFallback, TLAPS

\* Whatever the variable holds, a call compares against a natural number.
LEMMA EffectiveThresholdNat ==
    ASSUME NEW raw \in EnvThresholds, NEW default \in Int
    PROVE  EffectiveThreshold(raw, default) \in Nat
BY ThresholdAssumption DEF EffectiveThreshold, ValidDefault

LEMMA ThresholdsNat == Thresholds \subseteq Nat
BY EffectiveThresholdNat, ThresholdAssumption DEF Thresholds

-----------------------------------------------------------------------------
(* Type correctness and the names of the calls in flight *)

LEMMA TypeInit == Init => TypeOK /\ NamedInv
BY ThresholdAssumption DEF Init, TypeOK, NamedInv, Points, LockedPoints, LimitedPoints

LEMMA TypeStep == TypeOK /\ NamedInv /\ [Next]_vars => TypeOK' /\ NamedInv'
<1> SUFFICES ASSUME TypeOK, NamedInv, [Next]_vars PROVE TypeOK' /\ NamedInv'
  OBVIOUS
<1> USE DEF TypeOK, NamedInv, Points, LockedPoints, LimitedPoints, Goto, Answer,
            vars, env, shared, locals, history
<1>1. ASSUME NEW c \in Calls, NEW f \in Functions, NEW default \in EmbeddedThresholds,
             Call(c, f, default)
      PROVE  TypeOK' /\ NamedInv'
  BY <1>1, ThresholdAssumption DEF Call
<1>2. ASSUME NEW c \in Calls, ReadThreshold(c) PROVE TypeOK' /\ NamedInv'
  <2>1. EffectiveThreshold(env_threshold, default_threshold[c]) \in Nat
    BY EffectiveThresholdNat
  <2> QED BY <1>2, <2>1 DEF ReadThreshold
<1>3. ASSUME NEW c \in Calls, ReadDisable(c) \/ FastPath(c) \/ Recheck(c)
      PROVE  TypeOK' /\ NamedInv'
  BY <1>3 DEF ReadDisable, FastPath, Recheck
<1>4. ASSUME NEW c \in Calls, AcquireLock(c) \/ AcquireCount(c) \/ AcquireReset(c)
      PROVE  TypeOK' /\ NamedInv'
  BY <1>4 DEF AcquireLock, AcquireCount, AcquireReset, Acquire
<1>5. ASSUME NEW c \in Calls, GetCount(c) \/ ReadCount(c) PROVE TypeOK' /\ NamedInv'
  BY <1>5 DEF GetCount, ReadCount
<1>6. ASSUME NEW c \in Calls, StoreCount(c) PROVE TypeOK' /\ NamedInv'
  BY <1>6 DEF StoreCount
<1>7. ASSUME NEW c \in Calls, Compare(c) PROVE TypeOK' /\ NamedInv'
  <2>1. CASE count[c] > threshold[c]
    BY <1>7, <2>1 DEF Compare
  <2>2. CASE ~(count[c] > threshold[c])
    <3>1. admitted' \in [Functions -> Nat]
      BY <1>7, <2>2 DEF Compare
    <3>2. pc' \in [Calls -> Points] /\ answer' \in [Calls -> BOOLEAN]
      BY <1>7, <2>2 DEF Compare
    <3> QED BY <1>7, <2>2, <3>1, <3>2 DEF Compare
  <2> QED BY <2>1, <2>2
<1>8. ASSUME NEW c \in Calls, Latch(c) PROVE TypeOK' /\ NamedInv'
  BY <1>8 DEF Latch
<1>9. ASSUME NEW c \in Calls, ReleaseLock(c) PROVE TypeOK' /\ NamedInv'
  BY <1>9 DEF ReleaseLock
<1>14. ASSUME NEW c \in Calls, Return(c) PROVE TypeOK' /\ NamedInv'
  BY <1>14 DEF Return
<1>10. ASSUME NEW c \in Calls, NEW f \in Functions, CallCount(c, f)
       PROVE  TypeOK' /\ NamedInv'
  BY <1>10 DEF CallCount
<1>11. ASSUME NEW c \in Calls, CallReset(c) \/ ClearCounts(c) \/ ClearFunctions(c)
       PROVE  TypeOK' /\ NamedInv'
  BY <1>11 DEF CallReset, ClearCounts, ClearFunctions
<1>12. CASE SetEnv
  BY <1>12, ThresholdAssumption DEF SetEnv
<1>13. CASE UNCHANGED vars
  BY <1>13
<1> QED
  BY <1>1, <1>2, <1>3, <1>4, <1>5, <1>6, <1>7, <1>8, <1>9, <1>10, <1>11, <1>12, <1>13, <1>14
  DEF Next, CallStep

\* Every reachable state is well typed: no dictionary entry, program point or
\* local of boundary_fallback.py ever holds anything but what the code puts there.
THEOREM TypeCorrect == Spec => []TypeOK
<1> QED BY TypeInit, TypeStep, PTL DEF Spec

-----------------------------------------------------------------------------
(* Mutual exclusion *)

LEMMA LockStep == TypeOK /\ LockInv /\ [Next]_vars => LockInv'
<1> SUFFICES ASSUME TypeOK, LockInv, [Next]_vars PROVE LockInv'
  OBVIOUS
<1> USE CallsAssumption
    DEF TypeOK, LockInv, Points, LockedPoints, Goto, Answer,
        vars, env, shared, locals, history
<1>1. ASSUME NEW c \in Calls, NEW f \in Functions, NEW default \in EmbeddedThresholds,
             Call(c, f, default) \/ CallCount(c, f) \/ CallReset(c)
      PROVE  LockInv'
  BY <1>1 DEF Call, CallCount, CallReset
<1>2. ASSUME NEW c \in Calls, ReadThreshold(c) \/ ReadDisable(c) \/ FastPath(c) \/ Return(c)
      PROVE  LockInv'
  BY <1>2 DEF ReadThreshold, ReadDisable, FastPath, Return
<1>3. ASSUME NEW c \in Calls, AcquireLock(c) \/ AcquireCount(c) \/ AcquireReset(c)
      PROVE  LockInv'
  BY <1>3 DEF AcquireLock, AcquireCount, AcquireReset, Acquire
<1>4. ASSUME NEW c \in Calls, Recheck(c) \/ GetCount(c) \/ StoreCount(c) \/ ReadCount(c)
      PROVE  LockInv'
  BY <1>4 DEF Recheck, GetCount, StoreCount, ReadCount
<1>5. ASSUME NEW c \in Calls, Compare(c) \/ Latch(c) \/ ClearCounts(c) \/ ClearFunctions(c)
      PROVE  LockInv'
  BY <1>5 DEF Compare, Latch, ClearCounts, ClearFunctions
<1>6. ASSUME NEW c \in Calls, ReleaseLock(c) PROVE LockInv'
  BY <1>6 DEF ReleaseLock
<1>7. CASE SetEnv \/ UNCHANGED vars
  BY <1>7 DEF SetEnv
<1>8. ASSUME NEW c \in Calls, NEW f \in Functions, CallCount(c, f) PROVE LockInv'
  BY <1>8 DEF CallCount
<1>9. ASSUME NEW c \in Calls, CallReset(c) PROVE LockInv'
  BY <1>9 DEF CallReset
<1> QED
  BY <1>1, <1>2, <1>3, <1>4, <1>5, <1>6, <1>7, <1>8, <1>9 DEF Next, CallStep

-----------------------------------------------------------------------------
(* The locals of a call *)

LEMMA LimitStep == TypeOK /\ LimitInv /\ [Next]_vars => LimitInv'
<1> SUFFICES ASSUME TypeOK, LimitInv, [Next]_vars PROVE LimitInv'
  OBVIOUS
<1> USE DEF TypeOK, LimitInv, LimitedPoints, Goto, Answer,
            vars, env, shared, locals, history
<1>1. ASSUME NEW c \in Calls, NEW f \in Functions, NEW default \in EmbeddedThresholds,
             Call(c, f, default)
      PROVE  LimitInv'
  BY <1>1, ThresholdAssumption DEF Call
<1>2. ASSUME NEW c \in Calls, ReadThreshold(c) PROVE LimitInv'
  <2>1. EffectiveThreshold(env_threshold, default_threshold[c]) \in Thresholds
    BY <1>2 DEF ReadThreshold, Thresholds
  <2> QED BY <1>2, <2>1 DEF ReadThreshold
<1>3. ASSUME NEW c \in Calls, ReadDisable(c) \/ FastPath(c) \/ AcquireLock(c) \/ Recheck(c)
      PROVE  LimitInv'
  BY <1>3 DEF ReadDisable, FastPath, AcquireLock, Acquire, Recheck
<1>4. ASSUME NEW c \in Calls, GetCount(c) \/ StoreCount(c) \/ Compare(c) \/ Latch(c)
      PROVE  LimitInv'
  BY <1>4 DEF GetCount, StoreCount, Compare, Latch
<1>5. ASSUME NEW c \in Calls, ReleaseLock(c) \/ Return(c) PROVE LimitInv'
  BY <1>5 DEF ReleaseLock, Return
<1>6. ASSUME NEW c \in Calls, AcquireCount(c) \/ ReadCount(c) PROVE LimitInv'
  BY <1>6 DEF AcquireCount, Acquire, ReadCount
<1>7. ASSUME NEW c \in Calls,
             AcquireReset(c) \/ ClearCounts(c) \/ ClearFunctions(c) \/ CallReset(c)
      PROVE  LimitInv'
  BY <1>7 DEF AcquireReset, Acquire, ClearCounts, ClearFunctions, CallReset
<1>8. ASSUME NEW c \in Calls, NEW f \in Functions, CallCount(c, f) PROVE LimitInv'
  BY <1>8 DEF CallCount
<1>9. CASE SetEnv \/ UNCHANGED vars
  BY <1>9 DEF SetEnv
<1> QED
  BY <1>1, <1>2, <1>3, <1>4, <1>5, <1>6, <1>7, <1>8, <1>9 DEF Next, CallStep

LEMMA FreshStep == TypeOK /\ FreshInv /\ [Next]_vars => FreshInv'
<1> SUFFICES ASSUME TypeOK, FreshInv, [Next]_vars PROVE FreshInv'
  OBVIOUS
<1> USE DEF TypeOK, FreshInv, FreshPoints, Goto, Answer,
            vars, env, shared, locals, history
<1>1. ASSUME NEW c \in Calls, NEW f \in Functions, NEW default \in EmbeddedThresholds,
             Call(c, f, default)
      PROVE  FreshInv'
  BY <1>1 DEF Call
<1>2. ASSUME NEW c \in Calls, ReadThreshold(c) \/ ReadDisable(c) \/ FastPath(c)
      PROVE  FreshInv'
  BY <1>2 DEF ReadThreshold, ReadDisable, FastPath
<1>3. ASSUME NEW c \in Calls, AcquireLock(c) \/ AcquireCount(c) \/ AcquireReset(c)
      PROVE  FreshInv'
  BY <1>3 DEF AcquireLock, AcquireCount, AcquireReset, Acquire
<1>4. ASSUME NEW c \in Calls,
             Recheck(c) \/ GetCount(c) \/ StoreCount(c) \/ Compare(c) \/ Latch(c)
      PROVE  FreshInv'
  BY <1>4 DEF Recheck, GetCount, StoreCount, Compare, Latch
<1>5. ASSUME NEW c \in Calls, ReleaseLock(c) \/ Return(c) \/ ReadCount(c)
      PROVE  FreshInv'
  BY <1>5 DEF ReleaseLock, Return, ReadCount
<1>6. ASSUME NEW c \in Calls, CallReset(c) \/ ClearCounts(c) \/ ClearFunctions(c)
      PROVE  FreshInv'
  BY <1>6 DEF CallReset, ClearCounts, ClearFunctions
<1>7. ASSUME NEW c \in Calls, NEW f \in Functions, CallCount(c, f) PROVE FreshInv'
  BY <1>7 DEF CallCount
<1>8. CASE SetEnv \/ UNCHANGED vars
  BY <1>8 DEF SetEnv
<1> QED
  BY <1>1, <1>2, <1>3, <1>4, <1>5, <1>6, <1>7, <1>8 DEF Next, CallStep

\* Two calls at locked points are the same call.
LEMMA LockExcludes ==
    ASSUME LockInv, NEW c \in Calls, NEW d \in Calls,
           pc[c] \in LockedPoints, pc[d] \in LockedPoints
    PROVE  c = d
BY DEF LockInv

LEMMA SlowPathStep ==
    TypeOK /\ NamedInv /\ LockInv /\ SlowPathInv /\ [Next]_vars => SlowPathInv'
<1> SUFFICES ASSUME TypeOK, NamedInv, LockInv, SlowPathInv, [Next]_vars
             PROVE  SlowPathInv'
  OBVIOUS
<1> USE DEF TypeOK, NamedInv, SlowPathInv, NativePoints, LimitedPoints, LockedPoints,
            Goto, Answer, vars, env, shared, locals, history
<1>1. ASSUME NEW c \in Calls, NEW f \in Functions, NEW default \in EmbeddedThresholds,
             Call(c, f, default)
      PROVE  SlowPathInv'
  BY <1>1 DEF Call
<1>2. ASSUME NEW c \in Calls, ReadThreshold(c) \/ ReadDisable(c) \/ FastPath(c)
      PROVE  SlowPathInv'
  BY <1>2 DEF ReadThreshold, ReadDisable, FastPath
<1>3. ASSUME NEW c \in Calls, AcquireLock(c) \/ AcquireCount(c) \/ AcquireReset(c)
      PROVE  SlowPathInv'
  BY <1>3 DEF AcquireLock, AcquireCount, AcquireReset, Acquire
<1>4. ASSUME NEW c \in Calls, Recheck(c) \/ GetCount(c) \/ Compare(c)
      PROVE  SlowPathInv'
  BY <1>4 DEF Recheck, GetCount, Compare
<1>5. ASSUME NEW c \in Calls, StoreCount(c) PROVE SlowPathInv'
  BY <1>5, LockExcludes DEF StoreCount
<1>6. ASSUME NEW c \in Calls, Latch(c) PROVE SlowPathInv'
  BY <1>6, LockExcludes DEF Latch
<1>7. ASSUME NEW c \in Calls, ReleaseLock(c) \/ Return(c) \/ ReadCount(c) \/ CallReset(c)
      PROVE  SlowPathInv'
  BY <1>7 DEF ReleaseLock, Return, ReadCount, CallReset
<1>8. ASSUME NEW c \in Calls, ClearCounts(c) PROVE SlowPathInv'
  BY <1>8, LockExcludes DEF ClearCounts
<1>9. ASSUME NEW c \in Calls, ClearFunctions(c) PROVE SlowPathInv'
  BY <1>9, LockExcludes DEF ClearFunctions
<1>10. ASSUME NEW c \in Calls, NEW f \in Functions, CallCount(c, f) PROVE SlowPathInv'
  BY <1>10 DEF CallCount
<1>11. CASE SetEnv \/ UNCHANGED vars
  BY <1>11 DEF SetEnv
<1> QED
  BY <1>1, <1>2, <1>3, <1>4, <1>5, <1>6, <1>7, <1>8, <1>9, <1>10, <1>11 DEF Next, CallStep

-----------------------------------------------------------------------------
(* The ledger: counters, admissions and demotions *)

Ledger ==
    /\ CountsExact /\ LedgerInv
    /\ CountBounded /\ AdmittedWithinThreshold /\ DemotedExactly

Locals == TypeOK /\ NamedInv /\ LockInv /\ LimitInv /\ SlowPathInv

\* A step that leaves the counters, the set and the pending demotions alone
\* leaves the ledger alone.
LEMMA QuietStep ==
    ASSUME Ledger, UNCHANGED <<counts, fallback_functions, crossings, admitted>>,
           \A d \in Calls : pc'[d] = "clear_functions" <=> pc[d] = "clear_functions",
           \A f \in Functions : Demoting(f)' <=> Demoting(f)
    PROVE  Ledger'
<1>1. CountsExact'
  BY DEF Ledger, CountsExact
<1>2. LedgerInv' /\ DemotedExactly'
  BY DEF Ledger, LedgerInv, DemotedExactly
<1>3. CountBounded' /\ AdmittedWithinThreshold'
  BY DEF Ledger, CountBounded, AdmittedWithinThreshold
<1> QED BY <1>1, <1>2, <1>3 DEF Ledger

\* While one call is about to settle a crossing nobody else is, and no reset runs.
LEMMA SettlingAlone ==
    ASSUME Locals, Ledger, NEW c \in Calls, pc[c] \in NativePoints
    PROVE  /\ function_name[c] \in Functions
           /\ counts = crossings
           /\ \A d \in Calls : pc[d] \in LockedPoints => d = c
           /\ \A f \in Functions : Demoting(f) <=> /\ pc[c] \in {"compare", "latch"}
                                                   /\ f = function_name[c]
<1>1. \A d \in Calls : pc[d] \in LockedPoints => d = c
  BY LockExcludes DEF Locals, NativePoints, LockedPoints
<1>2. function_name[c] \in Functions
  BY DEF Locals, NamedInv, NativePoints, LimitedPoints
<1>3. counts = crossings
  BY <1>1 DEF Ledger, CountsExact, NativePoints, LockedPoints
<1> QED BY <1>1, <1>2, <1>3 DEF Demoting, LockedPoints

LEMMA StoreLedger ==
    ASSUME Locals, Ledger, NEW c \in Calls, StoreCount(c) PROVE Ledger'
<1> DEFINE g == function_name[c]
<1> USE DEF StoreCount, Goto, Locals, TypeOK, history, env, locals
<1>1. /\ g \in Functions /\ counts = crossings
      /\ \A f \in Functions : ~Demoting(f)
      /\ \A d \in Calls : pc[d] \in LockedPoints => d = c
  BY SettlingAlone DEF NativePoints
<1>2. /\ g \notin fallback_functions /\ count[c] = counts[g] + 1
      /\ threshold[c] \in Thresholds /\ threshold[c] \in Nat
  BY DEF SlowPathInv, NativePoints, LimitInv, LimitedPoints
<1>3. crossings' = [crossings EXCEPT ![g] = @ + 1] /\ counts' = crossings'
  BY <1>1, <1>2
<1>4. \A f \in Functions : Demoting(f)' <=> f = g
  BY <1>1 DEF Demoting, LockedPoints
<1>5. crossings[g] > 0 => \E t \in Thresholds : crossings[g] <= t
  BY <1>1, <1>2 DEF Ledger, DemotedExactly
<1>6. LedgerInv'
  BY <1>1, <1>3, <1>4 DEF Ledger, LedgerInv
<1>7. CountBounded'
  <2>1. \E t \in Thresholds : crossings[g] + 1 <= t + 1
    <3>1. CASE crossings[g] > 0
      BY <1>5, <3>1, ThresholdsNat, <1>1
    <3>2. CASE crossings[g] = 0
      BY <1>2, <3>2
    <3> QED BY <1>1, <3>1, <3>2
  <2> QED BY <1>1, <1>3, <2>1 DEF Ledger, CountBounded
<1>8. AdmittedWithinThreshold'
  BY DEF Ledger, AdmittedWithinThreshold
<1>9. DemotedExactly'
  BY <1>1, <1>2, <1>3, <1>4 DEF Ledger, DemotedExactly
<1> QED BY <1>3, <1>6, <1>7, <1>8, <1>9 DEF Ledger, CountsExact

LEMMA CompareLedger ==
    ASSUME Locals, Ledger, NEW c \in Calls, Compare(c) PROVE Ledger'
<1> DEFINE g == function_name[c]
<1> USE DEF Compare, Goto, Answer, Locals, TypeOK, shared, env
<1>1. /\ g \in Functions /\ counts = crossings
      /\ \A f \in Functions : Demoting(f) <=> f = g
      /\ \A d \in Calls : pc[d] \in LockedPoints => d = c
  BY SettlingAlone DEF NativePoints
<1>2. /\ g \notin fallback_functions /\ count[c] = crossings[g]
      /\ threshold[c] \in Thresholds /\ threshold[c] \in Nat
  BY <1>1 DEF SlowPathInv, NativePoints, LimitInv, LimitedPoints
<1>3. CASE count[c] > threshold[c]
  <2>1. \A f \in Functions : Demoting(f)' <=> Demoting(f)
    BY <1>3 DEF Demoting
  <2> QED BY <1>3, <2>1, QuietStep
<1>4. CASE ~(count[c] > threshold[c])
  <2>1. admitted' = [admitted EXCEPT ![g] = @ + 1] /\ crossings[g] <= threshold[c]
    BY <1>2, <1>4
  <2>2. \A f \in Functions : ~Demoting(f)'
    BY <1>1, <1>4 DEF Demoting, LockedPoints
  <2>3. admitted[g] < crossings[g]
    BY <1>1 DEF Ledger, LedgerInv
  <2>4. LedgerInv'
    BY <1>1, <1>4, <2>1, <2>2, <2>3 DEF Ledger, LedgerInv
  <2>5. AdmittedWithinThreshold'
    BY <1>1, <1>2, <2>1, <2>3 DEF Ledger, AdmittedWithinThreshold
  <2>6. CountBounded' /\ CountsExact'
    BY <1>4, <1>1 DEF Ledger, CountBounded, CountsExact
  <2>7. DemotedExactly'
    BY <1>1, <1>2, <1>4, <2>1, <2>2 DEF Ledger, DemotedExactly
  <2> QED BY <2>4, <2>5, <2>6, <2>7 DEF Ledger
<1> QED BY <1>3, <1>4

LEMMA LatchLedger ==
    ASSUME Locals, Ledger, NEW c \in Calls, Latch(c) PROVE Ledger'
<1> DEFINE g == function_name[c]
<1> USE DEF Latch, Goto, Answer, Locals, TypeOK, history, env
<1>1. /\ g \in Functions /\ counts = crossings
      /\ \A f \in Functions : Demoting(f) <=> f = g
      /\ \A d \in Calls : pc[d] \in LockedPoints => d = c
  BY SettlingAlone DEF NativePoints
<1>2. /\ threshold[c] \in Thresholds \ {0} /\ crossings[g] > threshold[c]
  BY <1>1 DEF SlowPathInv, LimitInv, LimitedPoints
<1>3. \A f \in Functions : ~Demoting(f)'
  BY <1>1 DEF Demoting, LockedPoints
<1>4. LedgerInv' /\ CountBounded' /\ AdmittedWithinThreshold' /\ CountsExact'
  BY <1>1, <1>3 DEF Ledger, LedgerInv, CountBounded, AdmittedWithinThreshold, CountsExact
<1>5. DemotedExactly'
  BY <1>1, <1>2, <1>3 DEF Ledger, DemotedExactly
<1> QED BY <1>4, <1>5 DEF Ledger

LEMMA ClearLedger ==
    ASSUME Locals, Ledger, NEW c \in Calls, ClearCounts(c) \/ ClearFunctions(c)
    PROVE  Ledger'
<1> USE DEF ClearCounts, ClearFunctions, Goto, Locals, TypeOK, history, env, locals
<1>1. \A d \in Calls : pc[d] \in LockedPoints => d = c
  BY LockExcludes DEF LockedPoints
<1>2. \A f \in Functions : ~Demoting(f) /\ ~Demoting(f)'
  BY <1>1 DEF Demoting, LockedPoints
<1>3. CASE ClearCounts(c)
  BY <1>2, <1>3
  DEF Ledger, CountsExact, LedgerInv, CountBounded, AdmittedWithinThreshold, DemotedExactly
<1>4. CASE ClearFunctions(c)
  <2>1. counts' = crossings'
    BY <1>4 DEF SlowPathInv
  <2> QED BY <1>2, <1>4, <2>1
      DEF Ledger, CountsExact, LedgerInv, CountBounded, AdmittedWithinThreshold, DemotedExactly
<1> QED BY <1>3, <1>4

LEMMA LedgerStep == Locals /\ Ledger /\ [Next]_vars => Ledger'
<1> SUFFICES ASSUME Locals, Ledger, [Next]_vars PROVE Ledger'
  OBVIOUS
<1> DEFINE Quiet ==
      /\ UNCHANGED <<counts, fallback_functions, crossings, admitted>>
      /\ \A d \in Calls : pc'[d] = "clear_functions" <=> pc[d] = "clear_functions"
      /\ \A f \in Functions : Demoting(f)' <=> Demoting(f)
<1> USE DEF Locals, TypeOK, Goto, Answer, Demoting, vars, env, shared, locals, history
<1>1. ASSUME NEW c \in Calls, NEW f \in Functions, NEW default \in EmbeddedThresholds,
             Call(c, f, default)
      PROVE  Quiet
  BY <1>1 DEF Call
<1>2. ASSUME NEW c \in Calls, ReadThreshold(c) \/ ReadDisable(c) \/ FastPath(c)
      PROVE  Quiet
  BY <1>2 DEF ReadThreshold, ReadDisable, FastPath
<1>3. ASSUME NEW c \in Calls, AcquireLock(c) \/ AcquireCount(c) \/ AcquireReset(c)
      PROVE  Quiet
  BY <1>3 DEF AcquireLock, AcquireCount, AcquireReset, Acquire
<1>4. ASSUME NEW c \in Calls, Recheck(c) \/ GetCount(c) \/ ReadCount(c)
      PROVE  Quiet
  BY <1>4 DEF Recheck, GetCount, ReadCount
<1>5. ASSUME NEW c \in Calls, ReleaseLock(c) \/ Return(c) \/ CallReset(c)
      PROVE  Quiet
  BY <1>5 DEF ReleaseLock, Return, CallReset
<1>6. ASSUME NEW c \in Calls, NEW f \in Functions, CallCount(c, f) PROVE Quiet
  BY <1>6 DEF CallCount
<1>7. CASE SetEnv \/ UNCHANGED vars
  <2>1. Quiet
    BY <1>7 DEF SetEnv
  <2> QED BY <2>1, QuietStep
<1>8. ASSUME Quiet PROVE Ledger'
  BY <1>8, QuietStep
<1> HIDE DEF Quiet
<1> QED
  BY <1>1, <1>2, <1>3, <1>4, <1>5, <1>6, <1>7, <1>8,
     StoreLedger, CompareLedger, LatchLedger, ClearLedger
  DEF Next, CallStep

-----------------------------------------------------------------------------
(* The inductive invariant *)

LEMMA InvInit == Init => IInv
<1> SUFFICES ASSUME Init PROVE IInv
  OBVIOUS
<1>1. TypeOK /\ NamedInv
  BY TypeInit
<1>2. LockInv /\ LimitInv /\ FreshInv /\ SlowPathInv
  BY CallsAssumption
  DEF Init, LockInv, LimitInv, FreshInv, SlowPathInv,
      LimitedPoints, NativePoints, LockedPoints
<1>3. Ledger
  BY DEF Init, Ledger, CountsExact, LedgerInv, CountBounded, AdmittedWithinThreshold,
         DemotedExactly, Demoting
<1> QED BY <1>1, <1>2, <1>3 DEF IInv, Ledger

LEMMA InvStep == IInv /\ [Next]_vars => IInv'
BY TypeStep, LockStep, LimitStep, FreshStep, SlowPathStep, LedgerStep DEF IInv, Locals, Ledger

THEOREM Invariance == Spec => []IInv
<1> QED BY InvInit, InvStep, PTL DEF Spec

\* No crossing is lost: outside a reset the counter is the number of crossings
\* stored, for any number of threads in any interleaving.
THEOREM NoCrossingLost == Spec => []CountsExact
<1>1. IInv => CountsExact
  BY DEF IInv
<1> QED BY <1>1, Invariance, PTL

\* A counter passes the largest threshold in force by one at most, however many
\* calls were queueing for the lock when the function was demoted.
THEOREM CounterBounded == Spec => []CountBounded
<1>1. IInv => CountBounded
  BY DEF IInv
<1> QED BY <1>1, Invariance, PTL

\* No more native calls are admitted against a counter than a threshold in force.
THEOREM AdmissionBounded == Spec => []AdmittedWithinThreshold
<1>1. IInv => AdmittedWithinThreshold
  BY DEF IInv
<1> QED BY <1>1, Invariance, PTL

\* A function is on fallback only if its crossings exceeded a threshold in force,
\* and stays native only while they do not exceed all of them.
THEOREM DemotionExact == Spec => []DemotedExactly
<1>1. IInv => DemotedExactly
  BY DEF IInv
<1> QED BY <1>1, Invariance, PTL

-----------------------------------------------------------------------------
(* Demotion is permanent *)

\* Only a completed reset takes a function off the fallback set, and it takes off
\* all of them together with every counter.
THEOREM DemotionIsPermanent == Spec => DemotionPermanent
<1> DEFINE Permanent ==
      \A f \in Functions :
          f \in fallback_functions /\ f \notin fallback_functions'
              => fallback_functions' = {} /\ \A g \in Functions : counts'[g] = 0
<1>1. IInv /\ [Next]_vars => [Permanent]_vars
  <2> SUFFICES ASSUME IInv, [Next]_vars PROVE Permanent
    OBVIOUS
  <2>1. CASE fallback_functions \subseteq fallback_functions'
    BY <2>1
  <2>2. CASE \E c \in Calls : ClearFunctions(c)
    BY <2>2 DEF IInv, SlowPathInv, ClearFunctions
  <2>3. (\E c \in Calls : ClearFunctions(c)) \/ fallback_functions \subseteq fallback_functions'
    BY DEF Next, CallStep, Call, ReadThreshold, ReadDisable, FastPath, AcquireLock,
           AcquireCount, AcquireReset, Acquire, Recheck, GetCount, StoreCount, Compare,
           Latch, ReleaseLock, Return, CallCount, ReadCount, CallReset, ClearCounts,
           SetEnv, vars, shared
  <2> QED BY <2>1, <2>2, <2>3
<1> QED BY <1>1, Invariance, PTL DEF Spec, DemotionPermanent

-----------------------------------------------------------------------------
(* Refinement of Demotion *)

LEMMA SameThreshold ==
    ASSUME NEW raw, NEW default
    PROVE  Abstract!EffectiveThreshold(raw, default) = EffectiveThreshold(raw, default)
BY DEF Abstract!EffectiveThreshold, EffectiveThreshold, Abstract!ValidDefault, ValidDefault

LEMMA RefinementInit == Init => Abstract!Init
BY DEF Init, Abstract!Init, SettledCrossings, Demoting, PhaseOf, Reading

\* The steps that only move a call forward between two points of one phase.
LEMMA StutterStep ==
    ASSUME TypeOK, FreshInv, NEW c \in Calls, NEW point \in Points,
           UNCHANGED <<env, fallback_functions, crossings, function_name,
                       default_threshold, threshold, answer>>,
           Goto(c, point), PhaseOf(point) = PhaseOf(pc[c]),
           \A f \in Functions : Demoting(f)' <=> Demoting(f),
           Reading' = Reading
    PROVE  UNCHANGED Abstract!vars
<1>1. [d \in Calls |-> PhaseOf(pc[d])]' = [d \in Calls |-> PhaseOf(pc[d])]
  BY DEF Goto, TypeOK
<1>2. SettledCrossings' = SettledCrossings
  BY DEF SettledCrossings
<1> QED BY <1>1, <1>2
    DEF Abstract!vars, Abstract!env, Abstract!ledger, Abstract!request, env

\* A step of a call between two phases is a step of the abstract phases.
LEMMA PhaseStep ==
    ASSUME TypeOK, NEW c \in Calls, NEW point \in Points, Goto(c, point)
    PROVE  Abstract!Step(c, PhaseOf(pc[c]), PhaseOf(point))
<1>1. [d \in Calls |-> PhaseOf(pc[d])]'
        = [[d \in Calls |-> PhaseOf(pc[d])] EXCEPT ![c] = PhaseOf(point)]
  BY DEF Goto, TypeOK
<1> QED BY <1>1 DEF Abstract!Step

\* A call that replies while it stays silent about the counters.
LEMMA ReplyStep ==
    ASSUME TypeOK, NEW c \in Calls, NEW value, NEW point \in {"release", "return"},
           Answer(c, value, point), Reading' = Reading,
           UNCHANGED <<env, function_name, default_threshold>>
    PROVE  Abstract!Reply(c, PhaseOf(pc[c]), value)
<1>1. Abstract!Step(c, PhaseOf(pc[c]), "done")
  <2>1. PhaseOf(point) = "done" /\ point \in Points
    BY DEF PhaseOf, Points, LockedPoints
  <2> QED BY <2>1, PhaseStep DEF Answer
<1> QED BY <1>1 DEF Abstract!Reply, Answer, Abstract!env, env, Abstract!request

LEMMA RefinementCallStep ==
    ASSUME IInv, NEW c \in Calls, CallStep(c)
    PROVE  Abstract!CallNext(c) \/ UNCHANGED Abstract!vars
<1> DEFINE g == function_name[c]
<1> USE DEF IInv
<1>1. CASE ReadThreshold(c)
  <2> DEFINE effective == EffectiveThreshold(env_threshold, default_threshold[c])
  <2>1. SettledCrossings' = SettledCrossings
    BY <1>1 DEF ReadThreshold, SettledCrossings, Demoting, TypeOK, Goto, Answer, history
  <2>2. Reading' = Reading
    BY <1>1 DEF ReadThreshold, Reading, TypeOK, Goto, Answer, FreshInv, FreshPoints
  <2>3. PhaseOf(pc[c]) = "asked" /\ PhaseOf("disable") = "limited"
    BY <1>1 DEF ReadThreshold, PhaseOf
  <2>4. CASE effective = 0
    <3>1. Abstract!Reply(c, "asked", FALSE)
      BY <1>1, <2>2, <2>3, <2>4, ReplyStep DEF ReadThreshold
    <3> QED BY <1>1, <2>1, <2>4, <3>1, SameThreshold
        DEF ReadThreshold, Abstract!Configure, Abstract!CallNext, Abstract!ledger, shared
  <2>5. CASE effective # 0
    <3>1. Abstract!Step(c, "asked", "limited")
      BY <1>1, <2>3, <2>5, PhaseStep DEF ReadThreshold, Points
    <3> QED BY <1>1, <2>1, <2>2, <2>5, <3>1, SameThreshold
        DEF ReadThreshold, Abstract!Configure, Abstract!CallNext, Abstract!ledger,
            Abstract!env, env, Abstract!request, shared
  <2> QED BY <2>4, <2>5
<1>2. CASE ReadDisable(c)
  <2>1. SettledCrossings' = SettledCrossings
    BY <1>2 DEF ReadDisable, SettledCrossings, Demoting, TypeOK, Goto, Answer, history
  <2>2. Reading' = Reading
    BY <1>2 DEF ReadDisable, Reading, TypeOK, Goto, Answer, LimitInv, LimitedPoints
  <2>3. PhaseOf(pc[c]) = "limited"
    BY <1>2 DEF ReadDisable, PhaseOf
  <2>4. CASE env_disable
    <3>1. Abstract!Reply(c, "limited", FALSE)
      BY <1>2, <2>2, <2>3, <2>4, ReplyStep DEF ReadDisable
    <3> QED BY <1>2, <2>1, <2>4, <3>1
        DEF ReadDisable, Abstract!Bypass, Abstract!CallNext, Abstract!ledger, shared
  <2>5. CASE ~env_disable
    <3>1. Goto(c, "fast") /\ "fast" \in Points /\ PhaseOf("fast") = PhaseOf(pc[c])
      BY <1>2, <2>3, <2>5 DEF ReadDisable, Points, PhaseOf
    <3>2. \A f \in Functions : Demoting(f)' <=> Demoting(f)
      BY <1>2, <2>5 DEF ReadDisable, Demoting, Goto, TypeOK
    <3> QED BY <1>2, <2>2, <2>5, <3>1, <3>2, StutterStep
        DEF ReadDisable, shared, history
  <2> QED BY <2>4, <2>5
<1>3. CASE FastPath(c) \/ Recheck(c)
  <2>1. SettledCrossings' = SettledCrossings
    BY <1>3 DEF FastPath, Recheck, SettledCrossings, Demoting, TypeOK, Goto, Answer, history
  <2>2. Reading' = Reading
    BY <1>3 DEF FastPath, Recheck, Reading, TypeOK, Goto, Answer, LimitInv, LimitedPoints
  <2>3. PhaseOf(pc[c]) = "limited"
    BY <1>3 DEF FastPath, Recheck, PhaseOf
  <2>4. CASE g \in fallback_functions
    <3>1. Abstract!Reply(c, "limited", TRUE)
      BY <1>3, <2>2, <2>3, <2>4, ReplyStep DEF FastPath, Recheck
    <3> QED BY <1>3, <2>1, <2>4, <3>1
        DEF FastPath, Recheck, Abstract!SeeDemoted, Abstract!CallNext, Abstract!ledger, shared
  <2>5. CASE g \notin fallback_functions
    <3>1. PICK point \in {"lock", "get"} : Goto(c, point)
      BY <1>3, <2>5 DEF FastPath, Recheck
    <3>2. point \in Points /\ PhaseOf(point) = PhaseOf(pc[c])
      BY <2>3 DEF Points, LockedPoints, PhaseOf
    <3>3. \A f \in Functions : Demoting(f)' <=> Demoting(f)
      BY <1>3, <2>5 DEF FastPath, Recheck, Demoting, Goto, TypeOK
    <3> QED BY <1>3, <2>2, <2>5, <3>1, <3>2, <3>3, StutterStep
        DEF FastPath, Recheck, shared, history
  <2> QED BY <2>4, <2>5
<1>4. CASE AcquireLock(c) \/ AcquireCount(c) \/ AcquireReset(c)
  <2>1. PICK point \in {"recheck", "read", "clear_counts"} :
            Goto(c, point) /\ PhaseOf(point) = PhaseOf(pc[c])
    BY <1>4 DEF AcquireLock, AcquireCount, AcquireReset, Acquire, PhaseOf
  <2>2. Reading' = Reading /\ \A f \in Functions : Demoting(f)' <=> Demoting(f)
    BY <1>4 DEF AcquireLock, AcquireCount, AcquireReset, Acquire, Reading, Demoting,
                Goto, TypeOK, locals
  <2>3. point \in Points
    BY DEF Points, LockedPoints
  <2> QED BY <1>4, <2>1, <2>2, <2>3, StutterStep
      DEF AcquireLock, AcquireCount, AcquireReset, Acquire, locals, history
<1>5. CASE GetCount(c) \/ ReleaseLock(c) \/ ClearCounts(c)
  <2>1. PICK point \in {"store", "return", "clear_functions"} :
            Goto(c, point) /\ PhaseOf(point) = PhaseOf(pc[c])
    BY <1>5 DEF GetCount, ReleaseLock, ClearCounts, PhaseOf
  <2>2. Reading' = Reading
    BY <1>5 DEF GetCount, ReleaseLock, ClearCounts, Reading, Goto, TypeOK, locals
  <2>3. \A f \in Functions : Demoting(f)' <=> Demoting(f)
    BY <1>5 DEF GetCount, ReleaseLock, ClearCounts, Demoting, Goto, TypeOK, locals
  <2>4. point \in Points
    BY DEF Points, LockedPoints
  <2> QED BY <1>5, <2>1, <2>2, <2>3, <2>4, StutterStep
      DEF GetCount, ReleaseLock, ClearCounts, locals, shared, history
<1>6. CASE StoreCount(c)
  <2>1. /\ g \in Functions
        /\ \A f \in Functions : ~Demoting(f)
        /\ \A d \in Calls : pc[d] \in LockedPoints => d = c
    BY <1>6, SettlingAlone DEF StoreCount, NativePoints, Locals, Ledger
  <2>2. \A f \in Functions : Demoting(f)' <=> f = g
    BY <1>6, <2>1 DEF StoreCount, Demoting, LockedPoints, Goto, TypeOK, locals
  <2>3. SettledCrossings' = SettledCrossings
    BY <1>6, <2>1, <2>2 DEF StoreCount, SettledCrossings, TypeOK
  <2>4. Reading' = Reading
    BY <1>6 DEF StoreCount, Reading, Goto, TypeOK, locals
  <2>5. [d \in Calls |-> PhaseOf(pc[d])]' = [d \in Calls |-> PhaseOf(pc[d])]
    BY <1>6 DEF StoreCount, Goto, PhaseOf, TypeOK
  <2> QED BY <1>6, <2>3, <2>4, <2>5
      DEF StoreCount, Abstract!vars, Abstract!env, env, Abstract!ledger, Abstract!request, locals
<1>7. CASE Compare(c) \/ Latch(c)
  <2>1. /\ g \in Functions /\ counts = crossings
        /\ \A f \in Functions : Demoting(f) <=> f = g
        /\ \A d \in Calls : pc[d] \in LockedPoints => d = c
    BY <1>7, SettlingAlone DEF Compare, Latch, NativePoints, Locals, Ledger
  <2>2. /\ g \notin fallback_functions /\ count[c] = crossings[g]
        /\ crossings[g] \in Nat /\ threshold[c] \in Nat /\ threshold[c] # 0
    BY <1>7, <2>1 DEF Compare, Latch, SlowPathInv, NativePoints, LimitInv, LimitedPoints, TypeOK
  <2>3. PhaseOf(pc[c]) = "limited"
    BY <1>7 DEF Compare, Latch, PhaseOf
  <2>4. Reading' = Reading
    BY <1>7, <2>2 DEF Compare, Latch, Reading, Goto, Answer, TypeOK
  <2>5. SettledCrossings[g] + 1 = crossings[g]
    BY <2>1, <2>2 DEF SettledCrossings
  <2>6. CASE Compare(c) /\ count[c] > threshold[c]
    <3>1. ~(count[c] <= threshold[c])
      BY <2>2, <2>6
    <3>2. Goto(c, "latch") /\ UNCHANGED <<answer, admitted>>
      BY <2>6, <3>1 DEF Compare
    <3>3. "latch" \in Points /\ PhaseOf("latch") = PhaseOf(pc[c])
      BY <2>3 DEF Points, LockedPoints, PhaseOf
    <3>4. \A f \in Functions : Demoting(f)' <=> Demoting(f)
      BY <2>6, <3>2 DEF Compare, Demoting, Goto, TypeOK
    <3> QED BY <2>4, <2>6, <3>2, <3>3, <3>4, StutterStep DEF Compare, shared
  <2>7. CASE Latch(c) \/ (Compare(c) /\ ~(count[c] > threshold[c]))
    <3> DEFINE over == SettledCrossings[g] + 1 > threshold[c]
    <3>1. Abstract!Reply(c, "limited", over)
      <4>1. CASE Latch(c)
        <5>1. over = TRUE
          BY <2>1, <2>2, <2>5, <4>1 DEF SlowPathInv, Latch
        <5>2. Abstract!Reply(c, "limited", TRUE)
          BY <2>3, <2>4, <4>1, ReplyStep DEF Latch
        <5> QED BY <5>1, <5>2
      <4>2. CASE Compare(c) /\ ~(count[c] > threshold[c])
        <5>1. over = FALSE
          BY <2>2, <2>5, <4>2
        <5>2. Abstract!Reply(c, "limited", FALSE)
          BY <2>3, <2>4, <4>2, ReplyStep DEF Compare
        <5> QED BY <5>1, <5>2
      <4> QED BY <2>7, <4>1, <4>2
    <3>2. \A f \in Functions : ~Demoting(f)'
      BY <2>1, <2>2, <2>7 DEF Latch, Compare, Demoting, LockedPoints, Goto, Answer, TypeOK
    <3>3. SettledCrossings' = [SettledCrossings EXCEPT ![g] = @ + 1]
      BY <2>1, <2>5, <2>7, <3>2 DEF Latch, Compare, SettledCrossings, history
    <3>4. fallback_functions' = IF over THEN fallback_functions \cup {g} ELSE fallback_functions
      BY <2>2, <2>5, <2>7 DEF Latch, Compare, SlowPathInv, shared
    <3>5. Abstract!Decide(c)
      <4>1. threshold' = threshold
        BY <2>7 DEF Latch, Compare
      <4> QED BY <2>2, <2>3, <3>1, <3>3, <3>4, <4>1 DEF Abstract!Decide
    <3> QED BY <3>5 DEF Abstract!CallNext
  <2> QED BY <1>7, <2>6, <2>7
<1>8. CASE Return(c)
  <2>1. SettledCrossings' = SettledCrossings
    BY <1>8 DEF Return, SettledCrossings, Demoting, Goto, TypeOK, history
  <2>2. Reading' = [Reading EXCEPT ![c] = 0]
    BY <1>8 DEF Return, Reading, Goto, TypeOK
  <2>3. Abstract!Step(c, "done", "idle")
    BY <1>8, PhaseStep DEF Return, PhaseOf, Points
  <2> QED BY <1>8, <2>1, <2>2, <2>3
      DEF Return, Abstract!End, Abstract!CallNext, Abstract!env, env, Abstract!ledger, shared
<1>9. CASE ReadCount(c)
  <2>1. \A d \in Calls : pc[d] \in LockedPoints => d = c
    BY <1>9, LockExcludes DEF ReadCount, LockedPoints
  <2>2. \A f \in Functions : ~Demoting(f) /\ ~Demoting(f)'
    BY <1>9, <2>1 DEF ReadCount, Demoting, LockedPoints, Goto, TypeOK
  <2>3. counts = crossings
    BY <1>9, <2>1 DEF ReadCount, CountsExact, LockedPoints
  <2>4. g \in Functions /\ threshold[c] = 0
    BY <1>9 DEF ReadCount, NamedInv, FreshInv, FreshPoints
  <2>5. SettledCrossings' = SettledCrossings /\ SettledCrossings[g] = counts[g]
    BY <1>9, <2>2, <2>3, <2>4 DEF ReadCount, SettledCrossings, history
  <2>6. Reading' = [Reading EXCEPT ![c] = counts[g]]
    BY <1>9, <2>4 DEF ReadCount, Reading, Goto, TypeOK
  <2>7. Abstract!Step(c, "counting", "done")
    BY <1>9, PhaseStep DEF ReadCount, PhaseOf, Points, LockedPoints
  <2> QED BY <1>9, <2>5, <2>6, <2>7
      DEF ReadCount, Abstract!Count, Abstract!CallNext, Abstract!env, env,
          Abstract!ledger, Abstract!request, shared
<1>10. CASE ClearFunctions(c)
  <2>1. \A f \in Functions : ~Demoting(f)'
    BY <1>10, LockExcludes DEF ClearFunctions, Demoting, LockedPoints, Goto, TypeOK, locals
  <2>2. SettledCrossings' = [f \in Functions |-> 0]
    BY <1>10, <2>1 DEF ClearFunctions, SettledCrossings
  <2>3. Reading' = Reading
    BY <1>10 DEF ClearFunctions, Reading, Goto, TypeOK, FreshInv, FreshPoints, locals
  <2>4. Abstract!Step(c, "resetting", "done")
    BY <1>10, PhaseStep DEF ClearFunctions, PhaseOf, Points, LockedPoints
  <2> QED BY <1>10, <2>2, <2>3, <2>4
      DEF ClearFunctions, Abstract!Reset, Abstract!CallNext, Abstract!env, env,
          Abstract!request, locals
<1> QED
  BY <1>1, <1>2, <1>3, <1>4, <1>5, <1>6, <1>7, <1>8, <1>9, <1>10 DEF CallStep

\* The steps that make a call, and the environment's.
LEMMA RefinementStep == IInv /\ [Next]_vars => [Abstract!Next]_Abstract!vars
<1> SUFFICES ASSUME IInv, [Next]_vars PROVE [Abstract!Next]_Abstract!vars
  OBVIOUS
<1> USE DEF IInv
<1>1. ASSUME NEW c \in Calls, CallStep(c) PROVE Abstract!Next \/ UNCHANGED Abstract!vars
  BY <1>1, RefinementCallStep DEF Abstract!Next
<1>2. ASSUME NEW c \in Calls, NEW f \in Functions, NEW default \in EmbeddedThresholds,
             Call(c, f, default)
      PROVE  Abstract!Next
  <2>1. SettledCrossings' = SettledCrossings /\ Reading' = Reading
    BY <1>2 DEF Call, SettledCrossings, Reading, Demoting, Goto, TypeOK, FreshInv,
                FreshPoints, history
  <2>2. Abstract!Step(c, "idle", "asked")
    BY <1>2, PhaseStep DEF Call, PhaseOf, Points
  <2>3. Abstract!Ask(c, f, default)
    BY <1>2, <2>1, <2>2 DEF Call, Abstract!Ask, Abstract!env, env, Abstract!ledger, shared
  <2> QED BY <2>3 DEF Abstract!Next, Abstract!CallNext
<1>3. ASSUME NEW c \in Calls, NEW f \in Functions, CallCount(c, f) PROVE Abstract!Next
  <2>1. SettledCrossings' = SettledCrossings /\ Reading' = Reading
    BY <1>3 DEF CallCount, SettledCrossings, Reading, Demoting, Goto, TypeOK, FreshInv,
                FreshPoints, history
  <2>2. Abstract!Step(c, "idle", "counting")
    BY <1>3, PhaseStep DEF CallCount, PhaseOf, Points
  <2>3. Abstract!AskCount(c, f)
    BY <1>3, <2>1, <2>2
    DEF CallCount, Abstract!AskCount, Abstract!env, env, Abstract!ledger, shared
  <2> QED BY <2>3 DEF Abstract!Next, Abstract!CallNext
<1>4. ASSUME NEW c \in Calls, CallReset(c) PROVE Abstract!Next
  <2>1. SettledCrossings' = SettledCrossings /\ Reading' = Reading
    BY <1>4 DEF CallReset, SettledCrossings, Reading, Demoting, Goto, TypeOK, history, locals
  <2>2. Abstract!Step(c, "idle", "resetting")
    BY <1>4, PhaseStep DEF CallReset, PhaseOf, Points
  <2>3. Abstract!AskReset(c)
    BY <1>4, <2>1, <2>2
    DEF CallReset, Abstract!AskReset, Abstract!env, env, Abstract!ledger,
        Abstract!request, shared, locals
  <2> QED BY <2>3 DEF Abstract!Next, Abstract!CallNext
<1>5. CASE SetEnv
  <2>1. /\ SettledCrossings' = SettledCrossings /\ Reading' = Reading
        /\ [d \in Calls |-> PhaseOf(pc[d])]' = [d \in Calls |-> PhaseOf(pc[d])]
    BY <1>5 DEF SetEnv, SettledCrossings, Reading, Demoting, PhaseOf, history, locals
  <2>2. Abstract!SetEnv
    BY <1>5, <2>1
    DEF SetEnv, Abstract!SetEnv, Abstract!ledger, Abstract!request, shared, locals
  <2> QED BY <2>2 DEF Abstract!Next
<1>6. CASE UNCHANGED vars
  <2>1. /\ SettledCrossings' = SettledCrossings /\ Reading' = Reading
        /\ [d \in Calls |-> PhaseOf(pc[d])]' = [d \in Calls |-> PhaseOf(pc[d])]
    BY <1>6 DEF vars, SettledCrossings, Reading, Demoting, PhaseOf, history, locals
  <2> QED BY <1>6, <2>1
      DEF vars, env, shared, locals, Abstract!vars, Abstract!env, Abstract!ledger,
          Abstract!request
<1> QED BY <1>1, <1>2, <1>3, <1>4, <1>5, <1>6 DEF Next

\* Every call to boundary_fallback.py answers as if it read the set, counted,
\* compared and demoted at one instant: the lock-free fast path and the double
\* check never show.
THEOREM CounterImplementsDemotion == Spec => ImplementsDemotion
<1> QED
  BY RefinementInit, RefinementStep, Invariance, PTL DEF Spec, ImplementsDemotion, Abstract!Spec

=============================================================================
