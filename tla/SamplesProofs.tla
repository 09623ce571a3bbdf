--------------------------- MODULE SamplesProofs ---------------------------
(***************************************************************************)
(* Proofs about the samples with threads, for any number of threads, any   *)
(* threshold and any limit: no increment and no signal is lost, no line is *)
(* left out or printed twice, the count runs over the limit by less than   *)
(* there are threads, and the form does not lose two clicks in a row.      *)
(*                                                                         *)
(* Sums over a set are defined by recursion; what they are is proved by    *)
(* the least set for which it fails.                                       *)
(***************************************************************************)
EXTENDS Samples, FiniteSetTheorems, WellFoundedInduction, TLAPS

-----------------------------------------------------------------------------
(* Sums                                                                    *)

LEMMA Smallest ==
    ASSUME NEW B, B \subseteq Nat, B # {}
    PROVE  \E m \in B : \A k \in B : m <= k
<1>1. ASSUME NEW R, R = OpToRel(<, Nat)
      PROVE  \A k, m \in Nat : k < m => <<k, m>> \in R
    BY <1>1 DEF OpToRel
<1>2. PICK R : IsWellFoundedOn(R, Nat) /\ \A k, m \in Nat : k < m => <<k, m>> \in R
    BY <1>1, NatLessThanWellFounded, ZenonT(60)
<1>3. PICK m \in B : \A k \in B : ~ (<<k, m>> \in R)
    BY <1>2, WFMin, ZenonT(60)
<1>4. ASSUME NEW k \in B PROVE m <= k
    <2>1. k \in Nat /\ m \in Nat /\ ~(k < m)
        BY <1>2, <1>3
    <2> QED BY <2>1
<1> QED BY <1>4

Pick(s) == CHOOSE x \in s : TRUE

Sums(f, S, F) ==
    F = [s \in SUBSET S |-> IF s = {} THEN 0 ELSE f[Pick(s)] + F[s \ {Pick(s)}]]

LEMMA SumsExist ==
    ASSUME NEW S, IsFiniteSet(S), NEW f
    PROVE  \E F : Sums(f, S, F)
<1> DEFINE Small(n) == {s \in SUBSET S : Cardinality(s) <= n}
           Value(F, s) == IF s = {} THEN 0 ELSE f[Pick(s)] + F[s \ {Pick(s)}]
           Good(n) == \E F : F = [s \in Small(n) |-> Value(F, s)]
<1>1. \A s \in SUBSET S : IsFiniteSet(s) /\ Cardinality(s) \in Nat
    BY FS_Subset, FS_CardinalityType
<1>2. \A s \in SUBSET S : s # {} => Pick(s) \in s
    BY DEF Pick
<1>3. Good(0)
    <2>1. \A s \in Small(0) : s = {}
        BY <1>1, FS_EmptySet
    <2> DEFINE F == [s \in Small(0) |-> 0]
    <2>2. F = [s \in Small(0) |-> Value(F, s)]
        BY <2>1
    <2> QED BY <2>2
<1>4. ASSUME NEW n \in Nat, Good(n) PROVE Good(n + 1)
    <2>1. PICK F : F = [s \in Small(n) |-> Value(F, s)]
        BY <1>4
    <2> DEFINE G == [s \in Small(n + 1) |-> Value(F, s)]
    <2>2. ASSUME NEW s \in Small(n + 1) PROVE Value(F, s) = Value(G, s)
        <3>1. CASE s = {}
            BY <3>1
        <3>2. CASE s # {}
            <4> DEFINE u == s \ {Pick(s)}
            <4>1. Pick(s) \in s /\ IsFiniteSet(s) /\ Cardinality(s) \in Nat /\ Cardinality(s) <= n + 1
                BY <1>1, <1>2, <3>2
            <4>2. Cardinality(u) = Cardinality(s) - 1
                BY <4>1, FS_RemoveElement
            <4>3. u \in Small(n) /\ u \in Small(n + 1)
                BY <4>1, <4>2, <1>1
            <4>4. F[u] = Value(F, u) /\ G[u] = Value(F, u)
                <5> HIDE DEF u, Value
                <5> QED BY <2>1, <4>3
            <4> QED BY <3>2, <4>4
        <3> QED BY <3>1, <3>2
    <2>3. G = [s \in Small(n + 1) |-> Value(G, s)]
        <3> HIDE DEF Value, Small
        <3> QED BY <2>2
    <2> QED BY <2>3
<1>5. Good(Cardinality(S))
    <2> DEFINE Bad == {n \in Nat : ~Good(n)}
    <2> HIDE DEF Good
    <2>1. SUFFICES ASSUME Bad # {} PROVE FALSE
        BY <1>1
    <2>2. PICK m \in Bad : \A k \in Bad : m <= k
        BY <2>1, Smallest
    <2>3. m \in Nat /\ m # 0 /\ ~Good(m)
        BY <2>2, <1>3
    <2>4. m - 1 \in Nat /\ Good(m - 1)
        BY <2>2, <2>3
    <2> QED BY <1>4, <2>3, <2>4
<1>6. Small(Cardinality(S)) = SUBSET S
    BY FS_Subset
<1> QED BY <1>5, <1>6 DEF Sums

LEMMA Least ==
    ASSUME NEW S, IsFiniteSet(S), NEW T, T \subseteq SUBSET S, T # {}
    PROVE  \E m \in T : \A x \in m : m \ {x} \notin T
<1> DEFINE B == {Cardinality(s) : s \in T}
<1>1. \A s \in SUBSET S : IsFiniteSet(s) /\ Cardinality(s) \in Nat
    BY FS_Subset, FS_CardinalityType
<1>2. PICK n \in B : \A k \in B : n <= k
    <2>1. B \subseteq Nat /\ B # {}
        BY <1>1
    <2> QED BY <2>1, Smallest
<1>3. PICK m \in T : Cardinality(m) = n
    BY <1>2
<1>4. ASSUME NEW x \in m, m \ {x} \in T PROVE FALSE
    <2>1. Cardinality(m \ {x}) = Cardinality(m) - 1 /\ Cardinality(m) \in Nat
        BY <1>1, FS_RemoveElement
    <2>2. n <= Cardinality(m \ {x})
        BY <1>2, <1>4
    <2> QED BY <1>3, <2>1, <2>2
<1> QED BY <1>4

LEMMA SumsType ==
    ASSUME NEW S, IsFiniteSet(S), NEW f \in [S -> Nat], NEW F, Sums(f, S, F)
    PROVE  F \in [SUBSET S -> Nat]
<1> DEFINE T == {s \in SUBSET S : F[s] \notin Nat}
<1>1. SUFFICES ASSUME T # {} PROVE FALSE
    BY DEF Sums
<1>2. PICK m \in T : \A x \in m : m \ {x} \notin T
    <2> HIDE DEF T
    <2>1. T \subseteq SUBSET S
        BY DEF T
    <2> QED BY <1>1, <2>1, Least
<1>3. CASE m = {}
    BY <1>2, <1>3 DEF Sums
<1>4. CASE m # {}
    <2>1. Pick(m) \in m /\ Pick(m) \in S
        BY <1>2, <1>4 DEF Pick
    <2>2. F[m] = f[Pick(m)] + F[m \ {Pick(m)}]
        BY <1>2, <1>4 DEF Sums
    <2>3. F[m \ {Pick(m)}] \in Nat
        BY <1>2, <2>1
    <2> QED BY <1>2, <2>1, <2>2, <2>3
<1> QED BY <1>3, <1>4

LEMMA SumsDiffer ==
    ASSUME NEW S, IsFiniteSet(S), NEW f \in [S -> Nat], NEW g \in [S -> Nat],
           NEW F, Sums(f, S, F), NEW G, Sums(g, S, G),
           NEW t \in S, \A u \in S \ {t} : g[u] = f[u]
    PROVE  G[S] - F[S] = g[t] - f[t]
<1> DEFINE Right(s) == G[s] = F[s] + (IF t \in s THEN g[t] - f[t] ELSE 0)
           T == {s \in SUBSET S : ~Right(s)}
<1>0. F \in [SUBSET S -> Nat] /\ G \in [SUBSET S -> Nat]
    BY SumsType
<1>1. T = {}
    <2>1. SUFFICES ASSUME T # {} PROVE FALSE
        OBVIOUS
    <2>2. PICK m \in T : \A x \in m : m \ {x} \notin T
        <3> HIDE DEF T
        <3>1. T \subseteq SUBSET S
            BY DEF T
        <3> QED BY <2>1, <3>1, Least
    <2>3. CASE m = {}
        BY <2>2, <2>3 DEF Sums
    <2>4. CASE m # {}
        <3> DEFINE p == Pick(m)
                   l == m \ {p}
        <3>1. p \in m /\ p \in S /\ l \in SUBSET S
            BY <2>2, <2>4 DEF Pick
        <3>2. F[m] = f[p] + F[l] /\ G[m] = g[p] + G[l]
            BY <2>2, <2>4 DEF Sums
        <3>3. Right(l)
            BY <2>2, <3>1
        <3>4. t \in l <=> t \in m /\ t # p
            BY <3>1
        <3>5. f[p] \in Nat /\ g[p] \in Nat /\ F[l] \in Nat /\ G[l] \in Nat
            BY <3>1, <1>0
        <3>6. f[t] \in Nat /\ g[t] \in Nat /\ (p # t => g[p] = f[p])
            BY <3>1
        <3> HIDE DEF p, l
        <3>7. Right(m)
            BY <3>1, <3>2, <3>3, <3>4, <3>5, <3>6
        <3> QED BY <2>2, <3>7
    <2> QED BY <2>3, <2>4
<1>2. Right(S)
    BY <1>1
<1>3. F[S] \in Nat /\ G[S] \in Nat /\ f[t] \in Nat /\ g[t] \in Nat
    BY <1>0
<1> QED BY <1>2, <1>3

-----------------------------------------------------------------------------
(* The threads that count to a threshold (pthread_cond_test)               *)

\* Who holds the lock.
Within == {"read", "write", "signal", "unlock"}
Locked ==
    /\ \A t \in Counters : pc[t] \in Within <=> lock = t
    /\ watch = "check" <=> lock = "watcher"

\* A counter within the lock has a round to go, and has read the count that
\* is still there.
Rounds ==
    \A t \in Counters :
        /\ pc[t] \in Within => i[t] < TCOUNT
        /\ pc[t] = "write" => temp[t] = count

CountInv == TypeOK /\ Locked /\ Rounds /\ NoLostSignal /\ Reached

LEMMA CountInit == Init => CountInv
<1> SUFFICES ASSUME Init PROVE CountInv
    OBVIOUS
<1> USE ThresholdAssumption DEF Init
<1>1. TypeOK
    BY DEF TypeOK
<1>2. Locked
    <2>1. \A t \in Counters : t # "none" /\ t # "watcher"
        OBVIOUS
    <2> QED BY <2>1 DEF Locked, Within
<1>3. Rounds /\ NoLostSignal /\ Reached
    BY DEF Rounds, NoLostSignal, Reached, Within
<1> QED BY <1>1, <1>2, <1>3 DEF CountInv

LEMMA CounterStep ==
    ASSUME CountInv, NEW t \in Counters, Step(t)
    PROVE  CountInv'
<1> USE ThresholdAssumption DEF CountInv
<1>1. CASE Lock(t)
    <2>1. TypeOK'
        BY <1>1 DEF Lock, TypeOK
    <2>2. Locked'
        BY <1>1 DEF Lock, TypeOK, Locked, Within
    <2>3. Rounds' /\ NoLostSignal' /\ Reached'
        BY <1>1 DEF Lock, TypeOK, Rounds, NoLostSignal, Reached, Within
    <2> QED BY <2>1, <2>2, <2>3
<1>2. CASE Read(t)
    <2>1. TypeOK'
        BY <1>2 DEF Read, TypeOK
    <2>2. Locked'
        BY <1>2 DEF Read, TypeOK, Locked, Within
    <2>3. Rounds' /\ NoLostSignal' /\ Reached'
        BY <1>2 DEF Read, TypeOK, Rounds, NoLostSignal, Reached, Within
    <2> QED BY <2>1, <2>2, <2>3
<1>3. CASE Write(t)
    <2>1. count' = count + 1 /\ lock = t
        BY <1>3 DEF Write, Rounds, Locked, Within
    <2>2. TypeOK'
        BY <1>3 DEF Write, TypeOK
    <2>3. Locked'
        BY <1>3 DEF Write, TypeOK, Locked, Within
    <2>4. \A u \in Counters : u # t => pc[u] \notin Within
        BY <2>1 DEF Locked
    <2>5. Rounds'
        BY <1>3, <2>4 DEF Write, TypeOK, Rounds, Within
    <2>6. NoLostSignal'
        <3> SUFFICES ASSUME watch = "waiting", ~(count + 1 < COUNT_THRES)
                     PROVE  \E u \in Counters : pc'[u] = "signal"
            BY <1>3, <2>1 DEF Write, NoLostSignal
        <3>1. pc[t] = "write" /\ ~ \E u \in Counters : pc[u] = "signal"
            BY <1>3, <2>4 DEF Write, Within
        <3>2. count < COUNT_THRES
            BY <3>1 DEF NoLostSignal
        <3>3. count' = COUNT_THRES
            BY <2>1, <3>2 DEF TypeOK
        <3>4. pc'[t] = "signal"
            BY <1>3, <3>3 DEF Write, TypeOK
        <3> QED BY <3>4
    <2>7. Reached'
        BY <1>3, <2>1 DEF Write, Reached, TypeOK
    <2> QED BY <2>2, <2>3, <2>5, <2>6, <2>7
<1>4. CASE Signal(t)
    <2>1. TypeOK'
        BY <1>4 DEF Signal, TypeOK
    <2>2. Locked'
        BY <1>4 DEF Signal, TypeOK, Locked, Within
    <2>3. Rounds' /\ NoLostSignal' /\ Reached'
        BY <1>4 DEF Signal, TypeOK, Rounds, NoLostSignal, Reached, Within
    <2> QED BY <2>1, <2>2, <2>3
<1>5. CASE Unlock(t)
    <2>1. i[t] < TCOUNT /\ i[t] \in Nat
        BY <1>5 DEF Unlock, Rounds, Within, TypeOK
    <2>2. TypeOK'
        BY <1>5, <2>1 DEF Unlock, TypeOK
    <2>3. Locked'
        BY <1>5 DEF Unlock, TypeOK, Locked, Within
    <2>4. Rounds' /\ NoLostSignal' /\ Reached'
        BY <1>5 DEF Unlock, TypeOK, Rounds, NoLostSignal, Reached, Within
    <2> QED BY <2>2, <2>3, <2>4
<1> QED BY <1>1, <1>2, <1>3, <1>4, <1>5 DEF Step

LEMMA CountNext == CountInv /\ [Next]_vars => CountInv'
<1> SUFFICES ASSUME CountInv, [Next]_vars PROVE CountInv'
    OBVIOUS
<1> USE ThresholdAssumption DEF CountInv
<1>1. CASE WatchLock
    BY <1>1 DEF WatchLock, TypeOK, Locked, Rounds, NoLostSignal, Reached, Within
<1>2. CASE Watch
    <2>1. TypeOK' /\ Rounds' /\ Locked'
        BY <1>2 DEF Watch, TypeOK, Rounds, Locked, Within
    <2>2. NoLostSignal' /\ Reached'
        BY <1>2 DEF Watch, TypeOK, NoLostSignal, Reached
    <2> QED BY <2>1, <2>2
<1>3. CASE Spurious
    BY <1>3 DEF Spurious, TypeOK, Locked, Rounds, NoLostSignal, Reached, Within
<1>4. CASE UNCHANGED vars
    BY <1>4 DEF vars, TypeOK, Locked, Rounds, NoLostSignal, Reached
<1> QED BY <1>1, <1>2, <1>3, <1>4, CounterStep DEF Next, Done

\* The types, for any threads.
THEOREM CountTyping == Safety => []TypeOK
<1>1. CountInv => TypeOK
    BY DEF CountInv
<1> QED BY <1>1, CountInit, CountNext, PTL DEF Safety

\* No signal is lost, for any threads and any threshold.
THEOREM SignalKept == Safety => []NoLostSignal
<1>1. CountInv => NoLostSignal
    BY DEF CountInv
<1> QED BY <1>1, CountInit, CountNext, PTL DEF Safety

\* The watcher does not go on before the threshold is reached.
THEOREM NotTooEarly == Safety => []Reached
<1>1. CountInv => Reached
    BY DEF CountInv
<1> QED BY <1>1, CountInit, CountNext, PTL DEF Safety

-----------------------------------------------------------------------------
(* No increment is lost (pthread_cond_test)                                *)

\* How often each counter has counted.
Rise == [t \in Counters |-> i[t] + (IF pc[t] \in {"signal", "unlock"} THEN 1 ELSE 0)]

\* The sum in Accounted is what it should be.
SumTells == \E F : Sums(Rise, Counters, F) /\ (Accounted <=> count = F[Counters])

LEMMA Sum == SumTells
<1> SUFFICES \E F : Sums(Rise, Counters, F) /\ (Accounted <=> count = F[Counters])
    BY DEF SumTells
<1> DEFINE Value(F, s) ==
               IF s = {} THEN 0
               ELSE LET x == CHOOSE x \in s : TRUE
                    IN  (i[x] + (IF pc[x] \in {"signal", "unlock"} THEN 1 ELSE 0)) + F[s \ {x}]
           F == CHOOSE F : F = [s \in SUBSET Counters |-> Value(F, s)]
<1>1. \E G : G = [s \in SUBSET Counters |-> Value(G, s)]
    <2>1. PICK G : Sums(Rise, Counters, G)
        BY SumsExist, ThresholdAssumption
    <2>2. \A s \in SUBSET Counters : s # {} => Pick(s) \in Counters
        BY DEF Pick
    <2>3. \A s \in SUBSET Counters :
             G[s] = IF s = {} THEN 0 ELSE Rise[Pick(s)] + G[s \ {Pick(s)}]
        BY <2>1 DEF Sums
    <2>4. \A s \in SUBSET Counters : G[s] = Value(G, s)
        BY <2>2, <2>3 DEF Rise, Pick
    <2>5. G = [s \in SUBSET Counters |-> G[s]]
        BY <2>1 DEF Sums
    <2> HIDE DEF Value
    <2>6. G = [s \in SUBSET Counters |-> Value(G, s)]
        BY <2>4, <2>5
    <2> QED BY <2>6
<1>2. F = [s \in SUBSET Counters |-> Value(F, s)]
    <2> HIDE DEF Value
    <2> QED BY <1>1, Zenon
<1>3. Sums(Rise, Counters, F)
    <2> HIDE DEF F
    <2>1. \A s \in SUBSET Counters : s # {} => Pick(s) \in Counters
        BY DEF Pick
    <2>2. \A s \in SUBSET Counters :
             Value(F, s) = IF s = {} THEN 0 ELSE Rise[Pick(s)] + F[s \ {Pick(s)}]
        BY <2>1 DEF Rise, Pick
    <2> HIDE DEF Value
    <2> QED BY <1>2, <2>2 DEF Sums
<1>4. Accounted <=> count = F[Counters]
    BY Zenon DEF Accounted, MapThenSumSet, MapThenFoldSet
<1> QED BY <1>3, <1>4

LEMMA RiseType == CountInv => Rise \in [Counters -> Nat]
BY ThresholdAssumption DEF CountInv, TypeOK, Rise

\* A step that adds to the count what it adds to the rise of one counter.
LEMMA CountGoesOn ==
    ASSUME CountInv, CountInv', Accounted, NEW t \in Counters,
           \A u \in Counters \ {t} : Rise'[u] = Rise[u],
           count' - count = Rise'[t] - Rise[t]
    PROVE  Accounted'
<1>1. PICK F : Sums(Rise, Counters, F) /\ (Accounted <=> count = F[Counters])
    BY Sum DEF SumTells
<1>2. SumTells'
    BY Sum, PTL
<1>3. PICK G : Sums(Rise', Counters, G) /\ (Accounted' <=> count' = G[Counters])
    BY <1>2 DEF SumTells, Sums
<1>4. Rise \in [Counters -> Nat] /\ Rise' \in [Counters -> Nat]
    <2>1. (CountInv => Rise \in [Counters -> Nat])'
        BY RiseType, PTL
    <2> QED BY <2>1, RiseType
<1>5. G[Counters] - F[Counters] = Rise'[t] - Rise[t]
    <2> HIDE DEF Rise
    <2> QED BY <1>1, <1>3, <1>4, SumsDiffer, ThresholdAssumption
<1>6. F[Counters] \in Nat /\ G[Counters] \in Nat /\ count \in Nat /\ count' \in Nat
    <2>1. F \in [SUBSET Counters -> Nat] /\ G \in [SUBSET Counters -> Nat]
        BY <1>1, <1>3, <1>4, SumsType, ThresholdAssumption
    <2> QED BY <2>1 DEF CountInv, TypeOK
<1> QED BY <1>1, <1>3, <1>5, <1>6

\* So does a step of which nobody's rise tells.
LEMMA CountStays ==
    ASSUME CountInv, CountInv', Accounted, count' = count, i' = i,
           \A u \in Counters : pc'[u] \in {"signal", "unlock"} <=> pc[u] \in {"signal", "unlock"}
    PROVE  Accounted'
<1>1. Rise' = Rise
    BY DEF Rise
<1>2. CASE Counters # {}
    <2>1. PICK t \in Counters : TRUE
        BY <1>2
    <2>2. count' - count = Rise'[t] - Rise[t]
        <3>1. Rise[t] \in Nat /\ count \in Nat
            BY RiseType DEF CountInv, TypeOK
        <3> QED BY <1>1, <3>1
    <2>3. \A u \in Counters \ {t} : Rise'[u] = Rise[u]
        BY <1>1
    <2> QED BY <2>2, <2>3, CountGoesOn
<1>3. CASE Counters = {}
    <2>1. SumTells'
        BY Sum, PTL
    <2>2. PICK F : Sums(Rise, Counters, F) /\ (Accounted <=> count = F[Counters])
        BY Sum DEF SumTells
    <2>3. PICK G : Sums(Rise', Counters, G) /\ (Accounted' <=> count' = G[Counters])
        BY <2>1 DEF SumTells, Sums
    <2> QED BY <1>3, <2>2, <2>3 DEF Sums
<1> QED BY <1>2, <1>3

LEMMA AccountedStart == Init => Accounted
<1> SUFFICES ASSUME Init PROVE Accounted
    OBVIOUS
<1>1. PICK F : Sums(Rise, Counters, F) /\ (Accounted <=> count = F[Counters])
    BY Sum DEF SumTells
<1>2. Rise = [t \in Counters |-> 0]
    BY DEF Init, Rise
<1> DEFINE T == {s \in SUBSET Counters : F[s] # 0}
<1>3. SUFFICES ASSUME T # {} PROVE FALSE
    BY <1>1 DEF Init
<1>4. PICK m \in T : \A x \in m : m \ {x} \notin T
    <2> HIDE DEF T
    <2>1. T \subseteq SUBSET Counters
        BY DEF T
    <2> QED BY <1>3, <2>1, Least, ThresholdAssumption
<1>5. m # {} /\ Pick(m) \in m
    BY <1>1, <1>4 DEF Sums, Pick
<1>6. F[m] = Rise[Pick(m)] + F[m \ {Pick(m)}]
    BY <1>1, <1>4, <1>5 DEF Sums
<1>7. Rise[Pick(m)] = 0 /\ F[m \ {Pick(m)}] = 0
    BY <1>2, <1>4, <1>5
<1> QED BY <1>4, <1>6, <1>7

LEMMA AccountedStep == CountInv /\ CountInv' /\ Accounted /\ [Next]_vars => Accounted'
<1> SUFFICES ASSUME CountInv, CountInv', Accounted, [Next]_vars PROVE Accounted'
    OBVIOUS
<1>0. TypeOK /\ Rounds
    BY DEF CountInv
<1>1. ASSUME NEW t \in Counters, Lock(t) PROVE Accounted'
    <2>1. count' = count /\ i' = i /\ pc[t] = "lock" /\ pc' = [pc EXCEPT ![t] = "read"]
        BY <1>1 DEF Lock
    <2> QED BY <1>0, <2>1, CountStays DEF TypeOK
<1>2. ASSUME NEW t \in Counters, Read(t) PROVE Accounted'
    <2>1. count' = count /\ i' = i /\ pc[t] = "read" /\ pc' = [pc EXCEPT ![t] = "write"]
        BY <1>2 DEF Read
    <2> QED BY <1>0, <2>1, CountStays DEF TypeOK
<1>3. ASSUME NEW t \in Counters, Write(t) PROVE Accounted'
    <2>1. /\ pc[t] = "write" /\ i' = i /\ count' = temp[t] + 1 /\ temp[t] = count
          /\ pc' = [pc EXCEPT ![t] = IF count' = COUNT_THRES THEN "signal" ELSE "unlock"]
        BY <1>0, <1>3 DEF Write, Rounds
    <2>2. \A u \in Counters \ {t} : Rise'[u] = Rise[u]
        BY <1>0, <2>1 DEF TypeOK, Rise
    <2>3. Rise[t] = i[t] /\ Rise'[t] = i[t] + 1
        BY <1>0, <2>1, ThresholdAssumption DEF TypeOK, Rise
    <2>4. count' - count = Rise'[t] - Rise[t]
        BY <1>0, <2>1, <2>3, ThresholdAssumption DEF TypeOK
    <2> QED BY <2>2, <2>4, CountGoesOn
<1>4. ASSUME NEW t \in Counters, Signal(t) PROVE Accounted'
    <2>1. count' = count /\ i' = i /\ pc[t] = "signal" /\ pc' = [pc EXCEPT ![t] = "unlock"]
        BY <1>4 DEF Signal
    <2> QED BY <1>0, <2>1, CountStays DEF TypeOK
<1>5. ASSUME NEW t \in Counters, Unlock(t) PROVE Accounted'
    <2>1. /\ pc[t] = "unlock" /\ i' = [i EXCEPT ![t] = @ + 1] /\ count' = count
          /\ pc' = [pc EXCEPT ![t] = "lock"]
        BY <1>5 DEF Unlock
    <2>2. \A u \in Counters \ {t} : Rise'[u] = Rise[u]
        BY <1>0, <2>1 DEF TypeOK, Rise
    <2>3. Rise[t] = i[t] + 1 /\ Rise'[t] = i[t] + 1
        BY <1>0, <2>1, ThresholdAssumption DEF TypeOK, Rise
    <2>4. count' - count = Rise'[t] - Rise[t]
        BY <1>0, <2>1, <2>3, ThresholdAssumption DEF TypeOK
    <2> QED BY <2>2, <2>4, CountGoesOn
<1>6. ASSUME count' = count, i' = i, pc' = pc PROVE Accounted'
    BY <1>6, CountStays
<1>7. CASE WatchLock \/ Watch \/ Spurious \/ Done \/ UNCHANGED vars
    BY <1>6, <1>7 DEF WatchLock, Watch, Spurious, Done, vars
<1> QED BY <1>1, <1>2, <1>3, <1>4, <1>5, <1>7 DEF Next, Step

\* No increment is lost, for any threads: each reads the count under the lock.
THEOREM AllCounted == Safety => []Accounted
<1> QED BY CountInit, CountNext, AccountedStart, AccountedStep, PTL DEF Safety

-----------------------------------------------------------------------------
(* The lines of two threads (race_condition)                               *)

\* The threads that hold the lock are those within it: at most the holder.
Printing == {"print", "count", "unlock"}
GmHeld == \A t \in Threads : at[t] \in Printing <=> gm = t

\* The threads that have looked, and not counted yet: each may count once.
Inside == {t \in Threads : at[t] \in {"lock", "print", "count"}}
Budget == com + Cardinality(Inside) < Limit + Cardinality(Threads)

\* A number is printed before it is counted.
Lines ==
    Len(printed) = com + (IF \E t \in Threads : at[t] = "count" THEN 1 ELSE 0)

LinesInv == LinesTypeOK /\ GmHeld /\ Budget /\ Lines /\ Numbered

LEMMA Looking ==
    /\ IsFiniteSet(Inside) /\ Cardinality(Inside) \in Nat
    /\ Cardinality(Threads) \in Nat /\ Cardinality(Inside) <= Cardinality(Threads)
    /\ Cardinality(Threads) > 0
<1>1. Inside \subseteq Threads /\ IsFiniteSet(Threads) /\ Threads # {}
    BY RaceConditionAssumption DEF Inside
<1>2. IsFiniteSet(Inside) /\ Cardinality(Inside) <= Cardinality(Threads)
    BY <1>1, FS_Subset
<1>3. Cardinality(Inside) \in Nat /\ Cardinality(Threads) \in Nat
    BY <1>1, <1>2, FS_CardinalityType
<1>4. Cardinality(Threads) # 0
    BY <1>1, FS_EmptySet
<1> QED BY <1>1, <1>2, <1>3, <1>4

LEMMA LinesStart == LinesInit => LinesInv
<1> SUFFICES ASSUME LinesInit PROVE LinesInv
    OBVIOUS
<1>1. LinesTypeOK
    BY DEF LinesInit, LinesTypeOK
<1>2. GmHeld
    <2>1. \A t \in Threads : t # "none"
        BY RaceConditionAssumption
    <2> QED BY <2>1 DEF LinesInit, GmHeld, Printing
<1>3. Budget
    <2>1. Inside = {} /\ com = 0
        BY DEF LinesInit, Inside
    <2>2. Cardinality(Inside) = 0
        BY <2>1, FS_EmptySet
    <2> QED BY <2>1, <2>2, Looking, RaceConditionAssumption DEF Budget
<1>4. Lines /\ Numbered
    BY DEF LinesInit, Lines, Numbered
<1> QED BY <1>1, <1>2, <1>3, <1>4 DEF LinesInv

\* A step in which nobody counts, and nobody looks, leaves the budget alone.
LEMMA SameBudget ==
    ASSUME Budget, com \in Nat, com' = com, Inside' \subseteq Inside, IsFiniteSet(Inside)
    PROVE  Budget'
<1>1. Cardinality(Inside') <= Cardinality(Inside) /\ IsFiniteSet(Inside')
    BY FS_Subset
<1>2. Cardinality(Inside') \in Nat
    BY <1>1, FS_CardinalityType
<1> QED BY <1>1, <1>2, Looking, RaceConditionAssumption DEF Budget

LEMMA LinesStep == LinesInv /\ [LinesNext]_linesVars => LinesInv'
<1> SUFFICES ASSUME LinesInv, [LinesNext]_linesVars PROVE LinesInv'
    OBVIOUS
<1> USE RaceConditionAssumption
<1>0. LinesTypeOK /\ GmHeld /\ Budget /\ Lines /\ Numbered /\ IsFiniteSet(Inside)
    BY Looking DEF LinesInv
<1>1. ASSUME NEW t \in Threads, Check(t) PROVE LinesInv'
    <2>1. /\ at' = [at EXCEPT ![t] = IF com < Limit THEN "lock" ELSE "done"]
          /\ com' = com /\ gm' = gm /\ printed' = printed /\ at[t] = "check"
        BY <1>1 DEF Check
    <2>2. LinesTypeOK'
        BY <1>0, <2>1 DEF LinesTypeOK
    <2>3. GmHeld'
        BY <1>0, <2>1 DEF LinesTypeOK, GmHeld, Printing
    <2>4. Budget'
        <3>1. CASE com < Limit
            <4>1. Cardinality(Inside') <= Cardinality(Threads) /\ Cardinality(Inside') \in Nat
                <5>1. Inside' \subseteq Threads
                    BY DEF Inside
                <5> QED BY <5>1, FS_Subset, FS_CardinalityType
            <4> QED BY <1>0, <2>1, <3>1, <4>1, Looking DEF Budget, LinesTypeOK
        <3>2. CASE ~(com < Limit)
            <4>1. Inside' \subseteq Inside
                BY <1>0, <2>1, <3>2 DEF Inside, LinesTypeOK
            <4> QED BY <1>0, <2>1, <4>1, SameBudget DEF LinesTypeOK
        <3> QED BY <3>1, <3>2
    <2>5. Lines' /\ Numbered'
        BY <1>0, <2>1 DEF LinesTypeOK, Lines, Numbered
    <2> QED BY <2>2, <2>3, <2>4, <2>5 DEF LinesInv
<1>2. ASSUME NEW t \in Threads, GmLock(t) PROVE LinesInv'
    <2>1. /\ at' = [at EXCEPT ![t] = "print"] /\ gm = "none" /\ gm' = t
          /\ com' = com /\ printed' = printed /\ at[t] = "lock"
        BY <1>2 DEF GmLock
    <2>2. LinesTypeOK'
        BY <1>0, <2>1 DEF LinesTypeOK
    <2>3. GmHeld'
        BY <1>0, <2>1 DEF LinesTypeOK, GmHeld, Printing
    <2>4. Inside' \subseteq Inside
        BY <1>0, <2>1 DEF Inside, LinesTypeOK
    <2>5. Budget'
        BY <1>0, <2>1, <2>4, SameBudget DEF LinesTypeOK
    <2>6. Lines' /\ Numbered'
        BY <1>0, <2>1 DEF LinesTypeOK, Lines, Numbered
    <2> QED BY <2>2, <2>3, <2>5, <2>6 DEF LinesInv
<1>3. ASSUME NEW t \in Threads, Say(t) PROVE LinesInv'
    <2>1. /\ at' = [at EXCEPT ![t] = "count"] /\ gm' = gm /\ at[t] = "print"
          /\ com' = com /\ printed' = Append(printed, com)
        BY <1>3 DEF Say
    <2>2. LinesTypeOK'
        BY <1>0, <2>1 DEF LinesTypeOK
    <2>3. GmHeld'
        BY <1>0, <2>1 DEF LinesTypeOK, GmHeld, Printing
    <2>4. Inside' \subseteq Inside
        BY <1>0, <2>1 DEF Inside, LinesTypeOK
    <2>5. Budget'
        BY <1>0, <2>1, <2>4, SameBudget DEF LinesTypeOK
    <2>6. ~ \E u \in Threads : at[u] = "count"
        BY <1>0, <2>1 DEF GmHeld, Printing
    <2>7. Len(printed) = com /\ Len(printed') = com + 1
        BY <1>0, <2>1, <2>6 DEF Lines, LinesTypeOK
    <2>8. at'[t] = "count" /\ com' = com
        BY <1>0, <2>1 DEF LinesTypeOK
    <2>9. Lines'
        BY <2>7, <2>8 DEF Lines
    <2>10. Numbered'
        <3> SUFFICES ASSUME NEW k \in 1 .. Len(printed') PROVE printed'[k] = k - 1
            BY DEF Numbered
        <3> QED BY <1>0, <2>1, <2>7 DEF Numbered, LinesTypeOK
    <2> QED BY <2>2, <2>3, <2>5, <2>9, <2>10 DEF LinesInv
<1>4. ASSUME NEW t \in Threads, Count(t) PROVE LinesInv'
    <2>1. /\ at' = [at EXCEPT ![t] = "unlock"] /\ gm' = gm /\ at[t] = "count"
          /\ com' = com + 1 /\ printed' = printed
        BY <1>4 DEF Count
    <2>2. LinesTypeOK'
        BY <1>0, <2>1 DEF LinesTypeOK
    <2>3. GmHeld'
        BY <1>0, <2>1 DEF LinesTypeOK, GmHeld, Printing
    <2>4. t \in Inside /\ Inside' = Inside \ {t}
        BY <1>0, <2>1 DEF Inside, LinesTypeOK
    <2>5. Cardinality(Inside') = Cardinality(Inside) - 1
        BY <1>0, <2>4, FS_RemoveElement
    <2>6. Budget'
        BY <1>0, <2>1, <2>5, Looking DEF Budget, LinesTypeOK
    <2>7. ~ \E u \in Threads : at'[u] = "count"
        BY <1>0, <2>1 DEF GmHeld, Printing, LinesTypeOK
    <2>8. Len(printed) = com + 1
        BY <1>0, <2>1 DEF Lines
    <2>9. Lines' /\ Numbered'
        BY <1>0, <2>1, <2>7, <2>8 DEF Lines, Numbered, LinesTypeOK
    <2> QED BY <2>2, <2>3, <2>6, <2>9 DEF LinesInv
<1>5. ASSUME NEW t \in Threads, GmUnlock(t) PROVE LinesInv'
    <2>1. /\ at' = [at EXCEPT ![t] = "check"] /\ gm' = "none" /\ at[t] = "unlock"
          /\ com' = com /\ printed' = printed
        BY <1>5 DEF GmUnlock
    <2>2. LinesTypeOK'
        BY <1>0, <2>1 DEF LinesTypeOK
    <2>3. GmHeld'
        BY <1>0, <2>1 DEF LinesTypeOK, GmHeld, Printing
    <2>4. Inside' \subseteq Inside
        BY <1>0, <2>1 DEF Inside, LinesTypeOK
    <2>5. Budget'
        BY <1>0, <2>1, <2>4, SameBudget DEF LinesTypeOK
    <2>6. Lines' /\ Numbered'
        BY <1>0, <2>1 DEF LinesTypeOK, Lines, Numbered
    <2> QED BY <2>2, <2>3, <2>5, <2>6 DEF LinesInv
<1>6. CASE UNCHANGED linesVars
    BY <1>0, <1>6 DEF linesVars, LinesInv, LinesTypeOK, GmHeld, Budget, Inside, Lines, Numbered
<1> QED BY <1>1, <1>2, <1>3, <1>4, <1>5, <1>6 DEF LinesNext, Foo, Joined

\* The types, for any threads and any limit.
THEOREM LinesTyping == LinesSafety => []LinesTypeOK
<1>1. LinesInv => LinesTypeOK
    BY DEF LinesInv
<1> QED BY <1>1, LinesStart, LinesStep, PTL DEF LinesSafety

\* The count runs over the limit by less than there are threads.
THEOREM Bounded == LinesSafety => []Overshoot
<1>1. LinesInv => Overshoot
    BY Looking, RaceConditionAssumption DEF LinesInv, Budget, Overshoot, LinesTypeOK
<1> QED BY <1>1, LinesStart, LinesStep, PTL DEF LinesSafety

\* Every number is printed once, in order.
THEOREM EveryLine == LinesSafety => []Numbered
<1>1. LinesInv => Numbered
    BY DEF LinesInv
<1> QED BY <1>1, LinesStart, LinesStep, PTL DEF LinesSafety

-----------------------------------------------------------------------------
(* The form with two threads (thread_sample)                               *)

\* Where the button says "Stop", a thread that has left has taken its flag down.
Cleared ==
    form.pc = "open" =>
        \A t \in Form!FormThreads :
            run[t] \in {"left", "idle"} /\ text[t] = "Stop" => ~stopped[t]

\* The threads that closeEvent has waited for, and it is at nobody when it waits
\* for nobody.
Waited ==
    /\ form.pc \in {"stop", "wait"} => form.todo \in {<<"A", "B">>, <<"B">>}
    /\ form.pc = "wait" /\ form.todo = <<"B">> => run["A"] = "idle"

FormInv == Form!TypeOK /\ Cleared /\ Waited /\ Form!NextStarts /\ Form!AllDone

LEMMA Two ==
    /\ Form!Both = <<"A", "B">> /\ Len(Form!Both) = 2
    /\ Head(Form!Both) = "A" /\ Tail(Form!Both) = <<"B">>
    /\ Len(<<"B">>) = 1 /\ Head(<<"B">>) = "B"
BY DEF Form!Both

LEMMA FormStart == Form!Init => FormInv
BY DEF Form!Init, FormInv, Form!TypeOK, Cleared, Waited, Form!NextStarts, Form!AllDone,
       Form!FormThreads, Form!Both

LEMMA FormTypes == FormInv /\ [Form!Next]_formVars => Form!TypeOK'
<1> SUFFICES ASSUME FormInv, [Form!Next]_formVars PROVE Form!TypeOK'
    OBVIOUS
<1> USE DEF FormInv, Form!TypeOK
<1>1. ASSUME NEW t \in Form!FormThreads, Form!Run(t) PROVE Form!TypeOK'
    BY <1>1 DEF Form!Run, Form!Look, Form!Reset, Form!Finish
<1>2. ASSUME NEW t \in Form!FormThreads, Form!Click(t) PROVE Form!TypeOK'
    BY <1>2 DEF Form!Click
<1>3. CASE Form!Close
    BY <1>3 DEF Form!Close
<1>4. CASE Form!Stop
    <2>1. form.todo \in {Form!Both, Tail(Form!Both)} /\ Head(form.todo) \in Form!FormThreads
        BY <1>4, Two DEF Form!Stop, Waited, Form!FormThreads
    <2>2. Len(form.todo) # 1 => Tail(form.todo) = Tail(Form!Both)
        BY <2>1, Two
    <2> QED BY <1>4, <2>1, <2>2 DEF Form!Stop
<1>5. CASE Form!Wait
    <2>1. form.todo \in {Form!Both, Tail(Form!Both)} /\ Head(form.todo) \in Form!FormThreads
        BY <1>5, Two DEF Form!Wait, Waited, Form!FormThreads
    <2>2. Len(form.todo) # 1 => Tail(form.todo) = Tail(Form!Both)
        BY <2>1, Two
    <2> QED BY <1>5, <2>1, <2>2 DEF Form!Wait
<1>6. CASE UNCHANGED formVars
    BY <1>6 DEF formVars
<1> QED BY <1>1, <1>2, <1>3, <1>4, <1>5, <1>6 DEF Form!Next, Form!Over, Form!vars, formVars

LEMMA FormStep == FormInv /\ [Form!Next]_formVars => FormInv'
<1> SUFFICES ASSUME FormInv, [Form!Next]_formVars PROVE FormInv'
    OBVIOUS
<1>0. Form!TypeOK /\ Form!TypeOK' /\ Cleared /\ Waited /\ Form!NextStarts /\ Form!AllDone
    BY FormTypes DEF FormInv
<1> SUFFICES Cleared' /\ Waited' /\ Form!AllDone'
    BY <1>0 DEF FormInv, Cleared, Form!NextStarts
<1> USE DEF Form!TypeOK, Form!FormThreads
<1>1. ASSUME NEW t \in Form!FormThreads, Form!Run(t)
      PROVE  Cleared' /\ Waited' /\ Form!AllDone'
    <2>1. form' = form /\ text' = text
        BY <1>1 DEF Form!Run, Form!Look, Form!Reset, Form!Finish
    <2>2. Cleared'
        BY <1>0, <1>1, <2>1 DEF Form!Run, Form!Look, Form!Reset, Form!Finish, Cleared
    <2>3. \A u \in Form!FormThreads : run[u] = "idle" => run'[u] = "idle"
        BY <1>0, <1>1 DEF Form!Run, Form!Look, Form!Reset, Form!Finish
    <2> QED BY <1>0, <2>1, <2>2, <2>3 DEF Waited, Form!AllDone
<1>2. ASSUME NEW t \in Form!FormThreads, Form!Click(t)
      PROVE  Cleared' /\ Waited' /\ Form!AllDone'
    BY <1>0, <1>2 DEF Form!Click, Cleared, Waited, Form!AllDone
<1>3. CASE Form!Close
    BY <1>0, <1>3 DEF Form!Close, Form!Both, Cleared, Waited, Form!AllDone
<1>4. CASE Form!Stop
    <2>1. form.pc = "stop" /\ form.todo \in {<<"A", "B">>, <<"B">>}
        BY <1>0, <1>4 DEF Form!Stop, Waited
    <2>2. /\ form'.pc \in {"stop", "wait"} /\ form'.todo \in {<<"A", "B">>, <<"B">>}
          /\ form'.pc = "wait" => form'.todo = <<"A", "B">>
        BY <1>0, <1>4, <2>1, Two DEF Form!Stop
    <2> QED BY <2>2 DEF Cleared, Waited, Form!AllDone
<1>5. CASE Form!Wait
    <2>1. form.pc = "wait" /\ form.todo \in {<<"A", "B">>, <<"B">>} /\ run' = run
        BY <1>0, <1>5 DEF Form!Wait, Waited
    <2>2. CASE form.todo = <<"A", "B">>
        BY <1>0, <1>5, <2>1, <2>2 DEF Form!Wait, Cleared, Waited, Form!AllDone
    <2>3. CASE form.todo = <<"B">>
        BY <1>0, <1>5, <2>1, <2>3 DEF Form!Wait, Cleared, Waited, Form!AllDone
    <2> QED BY <2>1, <2>2, <2>3
<1>6. CASE UNCHANGED formVars
    BY <1>0, <1>6 DEF formVars, Cleared, Waited, Form!AllDone
<1> QED BY <1>1, <1>2, <1>3, <1>4, <1>5, <1>6 DEF Form!Next, Form!Over, Form!vars, formVars

-----------------------------------------------------------------------------
(* The samples together: whichever is run, the others stay as they are.    *)

SoundInv == CountInv /\ Accounted /\ LinesInv /\ FormInv

LEMMA SoundStart == SamplesInit => SoundInv
BY CountInit, AccountedStart, LinesStart, FormStart DEF SamplesInit, SoundInv

LEMMA SoundStep == SoundInv /\ [SamplesNext]_samplesVars => SoundInv'
<1> SUFFICES ASSUME SoundInv, [SamplesNext]_samplesVars PROVE SoundInv'
    OBVIOUS
<1>1. [Next]_vars /\ [LinesNext]_linesVars /\ [Form!Next]_formVars
    BY DEF SamplesNext, samplesVars, formVars
<1>2. CountInv'
    BY <1>1, CountNext DEF SoundInv
<1>3. Accounted'
    BY <1>1, <1>2, AccountedStep DEF SoundInv
<1>4. LinesInv' /\ FormInv'
    BY <1>1, LinesStep, FormStep DEF SoundInv
<1> QED BY <1>2, <1>3, <1>4 DEF SoundInv

\* Whichever of the samples is run keeps what it promises.
THEOREM Sound == SamplesSpec => []SamplesSound
<1>1. SoundInv => SamplesSound
    <2>1. LinesInv => LinesTypeOK /\ Numbered /\ Overshoot
        BY Looking, RaceConditionAssumption DEF LinesInv, Budget, Overshoot, LinesTypeOK
    <2> QED BY <2>1 DEF SoundInv, CountInv, FormInv, SamplesSound
<1> QED BY <1>1, SoundStart, SoundStep, PTL DEF SamplesSpec
=============================================================================
