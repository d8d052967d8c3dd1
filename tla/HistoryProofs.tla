--------------------------- MODULE HistoryProofs ---------------------------
(***************************************************************************)
(* What the operators of the execution policies give, for every length of   *)
(* history: windows of finite history (FiniteWindows) and the numerical     *)
(* state of checkpoints (StreakState, RollingTraining, CheckpointBlocks).   *)
(* The tables of a streak, of exponential moments and of a rolling          *)
(* estimator, cut after a session and continued from what was saved there,  *)
(* are those of all rows.                                                   *)
(*                                                                          *)
(* And the replay of versions (CausalReplay): of a session the buffer of a  *)
(* replay has all that a plan can know or nothing, so that a cell is what   *)
(* was known on its day of the sessions it has; and it has them all when    *)
(* the histories of the nodes are even, or those of a growing chain.        *)
(***************************************************************************)
EXTENDS ExecutionPolicies, WellFoundedInduction, SequenceTheorems, FiniteSetTheorems, TLAPS

-----------------------------------------------------------------------------
(* Windows of finite history. *)

-----------------------------------------------------------------------------
(* Bounds of sets of numbers. *)

LEMMA LeastNatural == ASSUME NEW S \in SUBSET Nat, S # {} PROVE \E n \in S : \A m \in S : n <= m
  <1> DEFINE R == OpToRel(<, Nat)
  <1>1. PICK n \in S : \A m \in S : <<m, n>> \notin R
    BY NatLessThanWellFounded, WFMin
  <1>2. \A m \in S : ~ (m < n)
    BY <1>1 DEF OpToRel
  <1> HIDE DEF R
  <1>3. \A m \in S : n <= m
    BY <1>2
  <1> QED
    BY <1>3

\* Numbers up to a bound have a greatest one.
LEMMA MaxOfBounded ==
    ASSUME NEW S \in SUBSET Nat, S # {}, NEW b \in Nat, \A n \in S : n <= b
    PROVE  Max(S) \in S /\ \A n \in S : n <= Max(S)
  <1> DEFINE D == {d \in Nat : b - d \in S}
  <1>1. \A n \in S : b - n \in D
    OBVIOUS
  <1>2. D \in SUBSET Nat /\ D # {}
    BY <1>1
  <1>3. PICK d \in D : \A e \in D : d <= e
    BY <1>2, LeastNatural
  <1>4. b - d \in S /\ d \in Nat
    OBVIOUS
  <1>5. ASSUME NEW n \in S PROVE b - d >= n
    <2>1. d <= b - n
      BY <1>1, <1>3
    <2> QED
      BY <1>4, <2>1
  <1> QED
    BY <1>4, <1>5 DEF Max

LEMMA MinOfTwo ==
    ASSUME NEW a \in Int, NEW b \in Int
    PROVE  Min({a, b}) = IF a <= b THEN a ELSE b
  BY DEF Min

-----------------------------------------------------------------------------
(* The blocks of a calendar. *)

\* Multiples lie a whole length apart.
LEMMA Multiples ==
    ASSUME NEW c \in Nat \ {0}, NEW a \in Nat, NEW b \in Nat, a % c = 0, b % c = 0
    PROVE  /\ b > a => b >= a + c
           /\ (a + c) % c = 0
  <1>1. PICK p \in Nat : a = c * p
    <2>1. a = c * (a \div c) + (a % c) /\ a \div c \in Nat
      OBVIOUS
    <2>2. a = c * (a \div c)
      BY <2>1
    <2> QED
      BY <2>1, <2>2
  <1>2. PICK q \in Nat : b = c * q
    <2>1. b = c * (b \div c) + (b % c) /\ b \div c \in Nat
      OBVIOUS
    <2>2. b = c * (b \div c)
      BY <2>1
    <2> QED
      BY <2>1, <2>2
  <1>3. ASSUME b > a PROVE b >= a + c
    <2>1. q > p
      BY <1>1, <1>2, <1>3
    <2>2. PICK d \in Nat : q = p + 1 + d
      BY <2>1
    <2>3. b = a + c + c * d
      BY <1>1, <1>2, <2>2
    <2>4. c * d \in Nat
      OBVIOUS
    <2> QED
      BY <2>3, <2>4
  <1>4. (a + c) % c = 0
    <2>1. a + c = c * (p + 1)
      BY <1>1
    <2>2. (c * (p + 1)) % c = 0
      OBVIOUS
    <2> QED
      BY <2>1, <2>2
  <1> QED
    BY <1>3, <1>4

\* The source of an execution, cut into blocks of the lengths of the scope.
Lengths == scope.canonicalSessions \in Nat \ {0}

LEMMA NextOrigin ==
    ASSUME Lengths, NEW s, Len(s) \in Nat, NEW o \in Origins(s)
    PROVE  /\ BlockEnd(s, o) \in o .. Len(s)
           /\ BlockEnd(s, o) + 1 \in Origins(s) \cup {Len(s) + 1}
           /\ \A p \in Origins(s) : p > o => p > BlockEnd(s, o)
  <1> DEFINE c == scope.canonicalSessions
  <1>1. c \in Nat \ {0}
    BY DEF Lengths
  <1>2. \A t \in 1 .. Len(s) : t \in Origins(s) <=> (t - 1) % c = 0
    <2>1. ASSUME NEW t \in 1 .. Len(s) PROVE t \in Origins(s) <=> (t - 1) % c = 0
      <3>1. (t - 1) % c \in Nat
        BY <1>1
      <3> HIDE DEF c
      <3>2. t - ((t - 1) % c) = t <=> (t - 1) % c = 0
        BY <3>1
      <3> QED
        BY <3>2 DEF Origins, Origin, CanonicalSessions, c
    <2> QED
      BY <2>1
  <1>3. o \in 1 .. Len(s) /\ (o - 1) % c = 0
    BY <1>2 DEF Origins
  <1>4. BlockEnd(s, o) = IF o + c - 1 <= Len(s) THEN o + c - 1 ELSE Len(s)
    <2>1. o + c - 1 \in Int /\ Len(s) \in Int
      BY <1>1, <1>3
    <2> QED
      BY <2>1, MinOfTwo DEF BlockEnd, CanonicalSessions
  <1>5. \A p \in Origins(s) : p > o => p - 1 >= (o - 1) + c
    <2>1. ASSUME NEW p \in Origins(s), p > o PROVE p - 1 >= (o - 1) + c
      <3>1. p \in 1 .. Len(s) /\ (p - 1) % c = 0
        BY <1>2 DEF Origins
      <3>2. p - 1 \in Nat /\ o - 1 \in Nat /\ p - 1 > o - 1
        BY <1>3, <2>1, <3>1
      <3> QED
        BY <1>1, <1>3, <3>1, <3>2, Multiples
    <2> QED
      BY <2>1
  <1>6. ((o - 1) + c) % c = 0
    <2>1. o - 1 \in Nat
      BY <1>3
    <2> QED
      BY <1>1, <1>3, <2>1, Multiples
  <1> HIDE DEF c
  <1>7. BlockEnd(s, o) \in o .. Len(s)
    BY <1>1, <1>3, <1>4
  <1>8. CASE o + c <= Len(s)
    <2>1. BlockEnd(s, o) + 1 = o + c /\ o + c \in 1 .. Len(s) /\ (o + c) - 1 = (o - 1) + c
      BY <1>1, <1>3, <1>4, <1>8
    <2>2. o + c \in Origins(s)
      BY <1>2, <1>6, <2>1
    <2> QED
      BY <1>1, <1>3, <1>5, <1>7, <2>1, <2>2 DEF Origins
  <1>9. CASE ~ (o + c <= Len(s))
    <2>1. BlockEnd(s, o) = Len(s)
      BY <1>1, <1>3, <1>4, <1>9
    <2>2. \A p \in Origins(s) : ~ (p > o)
      BY <1>1, <1>3, <1>5, <1>9 DEF Origins
    <2> QED
      BY <1>7, <2>1, <2>2
  <1> QED
    BY <1>8, <1>9

\* Every session is in the block of its origin, and in no other.
LEMMA OriginFacts ==
    ASSUME Lengths, NEW t \in Nat \ {0}
    PROVE  /\ Origin(t) \in 1 .. t
           /\ t <= Origin(t) + scope.canonicalSessions - 1
           /\ (Origin(t) - 1) % scope.canonicalSessions = 0
           /\ Origin(Origin(t)) = Origin(t)
  <1> DEFINE c == scope.canonicalSessions
             r == (t - 1) % c
             q == (t - 1) \div c
  <1>1. c \in Nat \ {0} /\ t - 1 \in Nat
    BY DEF Lengths
  <1> HIDE DEF c
  <1>2. r \in 0 .. c - 1 /\ q \in Nat /\ t - 1 = c * q + r
    BY <1>1
  <1>3. Origin(t) = t - r
    BY DEF Origin, CanonicalSessions, c, r
  <1> HIDE DEF r, q
  <1>4. Origin(t) - 1 = c * q /\ c * q \in Nat
    BY <1>1, <1>2, <1>3
  <1>5. (c * q) % c = 0
    BY <1>1, <1>2
  <1>6. Origin(t) \in 1 .. t /\ t <= Origin(t) + c - 1
    BY <1>1, <1>2, <1>3, <1>4
  <1>7. (Origin(t) - 1) % c = 0
    BY <1>4, <1>5
  <1>8. Origin(Origin(t)) = Origin(t)
    <2>1. Origin(Origin(t)) = Origin(t) - ((Origin(t) - 1) % c)
      BY DEF Origin, CanonicalSessions, c
    <2> QED
      BY <1>6, <1>7, <2>1
  <1> QED
    BY <1>6, <1>7, <1>8 DEF c

LEMMA OriginsAreMultiples ==
    ASSUME Lengths, NEW s, Len(s) \in Nat, NEW o \in Origins(s)
    PROVE  o \in 1 .. Len(s) /\ (o - 1) % scope.canonicalSessions = 0
  BY OriginFacts DEF Origins

LEMMA BlockOfSession ==
    ASSUME Lengths, NEW s, Len(s) \in Nat, NEW o \in Origins(s), NEW t \in o .. BlockEnd(s, o)
    PROVE  Origin(t) = o
  <1> DEFINE c == scope.canonicalSessions
  <1>1. c \in Nat \ {0} /\ o \in 1 .. Len(s) /\ (o - 1) % c = 0
    BY OriginsAreMultiples DEF Lengths
  <1>2. o + c - 1 \in Int
    BY <1>1
  <1>3. t \in Nat \ {0} /\ t <= o + c - 1 /\ o <= t
    BY <1>1, <1>2, MinOfTwo DEF BlockEnd, CanonicalSessions
  <1>4. Origin(t) \in 1 .. t /\ t <= Origin(t) + c - 1 /\ (Origin(t) - 1) % c = 0
    BY <1>3, OriginFacts
  <1> HIDE DEF c
  <1>5. o - 1 \in Nat /\ Origin(t) - 1 \in Nat
    BY <1>1, <1>4
  <1>6. /\ o - 1 > Origin(t) - 1 => o - 1 >= (Origin(t) - 1) + c
        /\ Origin(t) - 1 > o - 1 => Origin(t) - 1 >= (o - 1) + c
    BY <1>1, <1>4, <1>5, Multiples
  <1> QED
    BY <1>1, <1>3, <1>4, <1>6

LEMMA SessionHasBlock ==
    ASSUME Lengths, NEW s, Len(s) \in Nat, NEW t \in 1 .. Len(s)
    PROVE  Origin(t) \in Origins(s) /\ t \in Origin(t) .. BlockEnd(s, Origin(t))
  <1>1. /\ Origin(t) \in 1 .. t /\ t <= Origin(t) + CanonicalSessions - 1
        /\ Origin(Origin(t)) = Origin(t) /\ CanonicalSessions \in Nat
    BY OriginFacts DEF Lengths, CanonicalSessions
  <1>2. Origin(t) + CanonicalSessions - 1 \in Int
    BY <1>1
  <1> QED
    BY <1>1, <1>2, MinOfTwo DEF Origins, BlockEnd

\* Slabs leave nothing out, and what lies before the start is cut off.
LEMMA WindowIsInterval ==
    ASSUME Lengths, NEW s, Len(s) \in Nat, NEW start \in Nat \ {0}, NEW end \in start .. Len(s)
    PROVE  ParentWindow(s, start, end) = start .. end
  <1> DEFINE c == CanonicalSessions
             slabs == {o \in Origins(s) : Origin(start) <= o /\ o <= end}
             slab(o) == o .. Min({end, o + c - 1})
  <1>1. c \in Nat \ {0}
    BY DEF Lengths, CanonicalSessions
  <1>2. \A o \in Origins(s) : o \in Nat /\ o + c - 1 \in Int
    BY <1>1 DEF Origins
  <1>3. \A o \in slabs : slab(o) \subseteq o .. end
    BY <1>2, MinOfTwo
  <1>4. ASSUME NEW t \in start .. end PROVE \E o \in slabs : t \in slab(o)
    <2>1. Origin(t) \in Origins(s) /\ Origin(t) \in 1 .. t /\ t <= Origin(t) + c - 1
      BY SessionHasBlock, OriginFacts DEF CanonicalSessions
    <2>2. Origin(start) \in 1 .. start
      BY OriginFacts
    <2>3. Origin(start) <= Origin(t)
      <3>1. Origin(start) - 1 \in Nat /\ Origin(t) - 1 \in Nat /\ t \in Nat \ {0}
        BY <2>1, <2>2
      <3>2. (Origin(start) - 1) % c = 0 /\ (Origin(t) - 1) % c = 0
        BY <3>1, OriginFacts DEF CanonicalSessions
      <3> HIDE DEF c
      <3>3. Origin(start) - 1 > Origin(t) - 1 => Origin(start) - 1 >= (Origin(t) - 1) + c
        BY <1>1, <3>1, <3>2, Multiples
      <3> QED
        BY <1>1, <2>1, <2>2, <3>1, <3>3
    <2>4. t \in slab(Origin(t))
      BY <1>2, <2>1, MinOfTwo
    <2>5. Origin(t) \in slabs
      BY <2>1, <2>3
    <2> QED
      BY <2>4, <2>5
  <1>5. ParentWindow(s, start, end) = {t \in UNION {slab(o) : o \in slabs} : t >= start}
    BY DEF ParentWindow
  <1> HIDE DEF slabs, slab
  <1>6. \A o \in slabs : slab(o) \subseteq Int
    BY <1>2, <1>3 DEF slabs
  <1>7. \A t \in UNION {slab(o) : o \in slabs} : t \in Int /\ t <= end
    BY <1>2, <1>3, <1>6 DEF slabs
  <1> QED
    BY <1>4, <1>5, <1>7

-----------------------------------------------------------------------------
(* The latest observations, and where they lie. *)

LEMMA MinOfNumbers ==
    ASSUME NEW S \in SUBSET Nat, S # {}
    PROVE  Min(S) \in S /\ \A n \in S : Min(S) <= n
  <1>1. PICK n \in S : \A m \in S : n <= m
    BY LeastNatural
  <1> QED
    BY <1>1 DEF Min

LEMMA MaxOfTwo ==
    ASSUME NEW a \in Int, NEW b \in Int
    PROVE  Max({a, b}) = IF a <= b THEN b ELSE a
  BY DEF Max

\* A window that reaches the latest of a set, and is not cut off above, has the same latest.
LEMMA LatestInWindow ==
    ASSUME NEW S, NEW k, NEW W, Latest(S, k) \subseteq W,
           \A u \in S, v \in S \cap W : u > v => u \in W
    PROVE  Latest(S \cap W, k) = Latest(S, k)
  <1>1. ASSUME NEW v \in S \cap W PROVE {u \in S \cap W : u > v} = {u \in S : u > v}
    OBVIOUS
  <1> QED
    BY <1>1 DEF Latest

\* What is among the latest of more sessions is among the latest of fewer.
LEMMA LatestEarlier ==
    ASSUME NEW s \in Seq(Contents), NEW a, NEW k \in Nat, NEW o \in Nat, NEW t \in Nat, o <= t,
           NEW u \in Latest(Observed(s, a, t), k), u < o
    PROVE  u \in Latest(Observed(s, a, o), k)
  <1> DEFINE before(x) == Observed(s, a, x)
             above(x) == {v \in before(x) : v > u}
  <1>1. DOMAIN s = 1 .. Len(s) /\ Len(s) \in Nat
    BY LenProperties
  <1>2. u \in before(t) /\ u \in before(o) /\ Cardinality(above(t)) < k
    BY DEF Latest, Observed
  <1>3. above(o) \subseteq above(t)
    BY <1>1 DEF Observed
  <1>4. IsFiniteSet(above(t))
    <2>1. IsFiniteSet(1 .. Len(s))
      BY <1>1, FS_Interval
    <2>2. above(t) \subseteq 1 .. Len(s)
      BY <1>1 DEF Observed
    <2> QED
      BY <2>1, <2>2, FS_Subset
  <1> HIDE DEF above, before
  <1>5. /\ Cardinality(above(o)) <= Cardinality(above(t))
        /\ Cardinality(above(o)) \in Nat /\ Cardinality(above(t)) \in Nat
    BY <1>3, <1>4, FS_Subset, FS_CardinalityType
  <1>6. Cardinality(above(o)) < k
    BY <1>2, <1>5
  <1> QED
    BY <1>2, <1>6 DEF Latest, above, before

-----------------------------------------------------------------------------
(* Where reading may start. *)

Settled ==
    /\ Lengths
    /\ scope.observations \in Nat
    /\ operation \in {"pointwise", "exact", "lag", "canonical"}

\* Reading from start is enough for session t of the block at o.
Suffices(s, o, start, t) ==
    /\ start \in 1 .. t
    /\ operation = "lag" => start <= Max({1, t - History})
    /\ operation = "exact" =>
           \A a \in s[t].members : \A u \in Latest(Observed(s, a, t), History) : start <= u
    /\ operation = "canonical" => start = Halo(s, o)

LEMMA ObservedEarlier ==
    ASSUME NEW s \in Seq(Contents), NEW a, NEW t \in Nat
    PROVE  /\ Observed(s, a, t) \in SUBSET Nat
           /\ \A u \in Observed(s, a, t) : u \in 1 .. Len(s) /\ u < t
  BY LenProperties DEF Observed

LEMMA HistoryIsNatural == Settled => History \in Nat
  BY DEF Settled, History, Observations

\* The latest observations of assets, and the sessions themselves, all in front of a bound.
LEMMA EarliestOfLatest ==
    ASSUME Settled, NEW s \in Seq(Contents), NEW first \in Nat \ {0}, NEW S \in SUBSET Assets,
           NEW m, m = Min({Max({1, first - History})}
                          \cup UNION {Latest(Observed(s, a, first), History) : a \in S})
    PROVE  /\ m \in 1 .. first
           /\ m <= Max({1, first - History})
           /\ \A a \in S : \A u \in Latest(Observed(s, a, first), History) : m <= u
  <1> DEFINE back == Max({1, first - History})
             seen == UNION {Latest(Observed(s, a, first), History) : a \in S}
  <1>1. back \in 1 .. first
    <2>1. History \in Nat /\ first - History \in Int
      BY HistoryIsNatural
    <2> QED
      BY <2>1, MaxOfTwo
  <1>2. ASSUME NEW u \in seen PROVE u \in 1 .. first
    <2>1. PICK a \in S : u \in Latest(Observed(s, a, first), History)
      OBVIOUS
    <2>2. u \in Observed(s, a, first)
      BY <2>1 DEF Latest
    <2>3. u \in 1 .. Len(s) /\ u < first
      BY <2>2, ObservedEarlier
    <2> QED
      BY <2>3, LenProperties
  <1> HIDE DEF back, seen
  <1>3. {back} \cup seen \in SUBSET Nat /\ {back} \cup seen # {}
    BY <1>1, <1>2
  <1>4. m \in {back} \cup seen /\ \A n \in {back} \cup seen : m <= n
    BY <1>3, MinOfNumbers DEF back, seen
  <1> QED
    BY <1>1, <1>2, <1>4 DEF back, seen

LEMMA HaloFacts ==
    ASSUME Settled, NEW s \in Seq(Contents), NEW o \in Nat \ {0}
    PROVE  /\ Halo(s, o) \in 1 .. o
           /\ Halo(s, o) <= Max({1, o - History})
           /\ \A a \in Assets : \A u \in Latest(Observed(s, a, o), History) : Halo(s, o) <= u
  <1>1. CASE o = 1
    <2>1. Halo(s, o) = 1
      BY <1>1 DEF Halo
    <2>2. History \in Nat /\ 1 - History \in Int
      BY HistoryIsNatural
    <2>3. Max({1, 1 - History}) = 1
      BY <2>2, MaxOfTwo
    <2> QED
      BY <1>1, <2>1, <2>3, ObservedEarlier DEF Latest
  <1>2. CASE o # 1
    <2>1. Halo(s, o) = Min({Max({1, o - History})}
                           \cup UNION {Latest(Observed(s, a, o), History) : a \in Assets})
      BY <1>2 DEF Halo
    <2> QED
      BY <2>1, EarliestOfLatest
  <1> QED
    BY <1>1, <1>2

LEMMA MembersAreAssets ==
    ASSUME NEW s \in Seq(Contents), NEW t \in 1 .. Len(s)
    PROVE  s[t] \in Contents /\ s[t].members \subseteq Assets
  <1>1. s[t] \in Contents
    BY ElementOfSeq
  <1> QED
    BY <1>1 DEF Contents

\* A block's halo suffices for each of its sessions.
LEMMA HaloSuffices ==
    ASSUME Settled, NEW s \in Seq(Contents), NEW o \in 1 .. Len(s), NEW t \in o .. Len(s)
    PROVE  Suffices(s, o, Halo(s, o), t)
  <1>1. Len(s) \in Nat /\ o \in Nat \ {0} /\ t \in Nat \ {0} /\ t \in 1 .. Len(s) /\ History \in Nat
    BY LenProperties, HistoryIsNatural DEF Settled
  <1>2. /\ Halo(s, o) \in 1 .. o
        /\ Halo(s, o) <= Max({1, o - History})
        /\ \A a \in Assets : \A u \in Latest(Observed(s, a, o), History) : Halo(s, o) <= u
    BY <1>1, HaloFacts
  <1>3. Max({1, o - History}) <= Max({1, t - History})
    BY <1>1, MaxOfTwo
  <1>4. Max({1, o - History}) \in Int /\ Max({1, t - History}) \in Int
    BY <1>1, MaxOfTwo
  <1>5. ASSUME NEW a \in s[t].members, NEW u \in Latest(Observed(s, a, t), History)
        PROVE  Halo(s, o) <= u
    <2>1. a \in Assets /\ u \in Nat
      BY <1>1, MembersAreAssets, ObservedEarlier DEF Latest
    <2>2. u < o => u \in Latest(Observed(s, a, o), History)
      BY <1>1, LatestEarlier
    <2> QED
      BY <1>1, <1>2, <2>1, <2>2
  <1> QED
    BY <1>1, <1>2, <1>3, <1>4, <1>5 DEF Suffices

\* Where an invocation starts suffices for each session of its output.
LEMMA StartSuffices ==
    ASSUME Settled, NEW s \in Seq(Contents), NEW o \in 1 .. Len(s),
           NEW first \in o .. Len(s), NEW last \in first .. Len(s), NEW t \in first .. last
    PROVE  Suffices(s, o, NumericalStart(s, first, last, o), t)
  <1> DEFINE start == NumericalStart(s, first, last, o)
  <1>1. /\ Len(s) \in Nat /\ o \in Nat \ {0} /\ first \in Nat \ {0} /\ t \in Nat \ {0}
        /\ t \in 1 .. Len(s) /\ first <= t /\ t \in o .. Len(s) /\ History \in Nat
    BY LenProperties, HistoryIsNatural
  <1>2. CASE operation = "pointwise"
    <2>1. start = first
      BY <1>2 DEF NumericalStart
    <2> QED
      BY <1>1, <1>2, <2>1 DEF Suffices
  <1>3. CASE operation = "lag"
    <2>1. start = Max({1, first - History})
      BY <1>3 DEF NumericalStart
    <2>2. start \in 1 .. t /\ start <= Max({1, t - History})
      BY <1>1, <2>1, MaxOfTwo
    <2> QED
      BY <1>3, <2>2 DEF Suffices
  <1>4. CASE operation = "exact"
    <2> DEFINE S == UNION {s[x].members : x \in first .. last}
    <2>1. start = Min({Max({1, first - History})}
                      \cup UNION {Latest(Observed(s, a, first), History) : a \in S})
      BY <1>4 DEF NumericalStart
    <2>2. S \in SUBSET Assets
      BY <1>1, MembersAreAssets
    <2> HIDE DEF S, start
    <2>3. /\ start \in 1 .. first
          /\ \A a \in S : \A u \in Latest(Observed(s, a, first), History) : start <= u
      BY <1>1, <2>1, <2>2, EarliestOfLatest
    <2>4. ASSUME NEW a \in s[t].members, NEW u \in Latest(Observed(s, a, t), History)
          PROVE  start <= u
      <3>1. a \in S /\ u \in Nat
        BY <1>1, ObservedEarlier DEF Latest, S
      <3>2. u < first => u \in Latest(Observed(s, a, first), History)
        BY <1>1, LatestEarlier
      <3> QED
        BY <1>1, <2>3, <3>1, <3>2
    <2>5. start \in 1 .. t
      BY <1>1, <2>3
    <2> QED
      BY <1>4, <2>4, <2>5 DEF Suffices, start
  <1>5. CASE operation = "canonical"
    <2>1. start = Halo(s, o)
      BY <1>5 DEF NumericalStart
    <2> QED
      BY <1>1, <2>1, HaloSuffices
  <1> QED
    BY <1>2, <1>3, <1>4, <1>5 DEF Settled

\* Without an accumulator, an earlier start does as well.
LEMMA EarlierSuffices ==
    ASSUME operation # "canonical", NEW s, NEW o, NEW q, NEW t \in Nat, NEW start,
           Suffices(s, o, start, t), NEW b \in Nat \ {0}, b <= start, Settled,
           s \in Seq(Contents)
    PROVE  Suffices(s, q, b, t)
  <1>1. start \in 1 .. t /\ b \in 1 .. t /\ History \in Nat
    BY HistoryIsNatural DEF Suffices
  <1>2. Max({1, t - History}) \in Int
    BY <1>1, MaxOfTwo
  <1>3. operation = "lag" => b <= Max({1, t - History})
    BY <1>1, <1>2 DEF Suffices
  <1>4. ASSUME operation = "exact", NEW a \in s[t].members, NEW u \in Latest(Observed(s, a, t), History)
        PROVE  b <= u
    <2>1. u \in Nat /\ start <= u
      BY <1>4, ObservedEarlier DEF Latest, Suffices
    <2> QED
      BY <1>1, <2>1
  <1> QED
    BY <1>1, <1>3, <1>4 DEF Suffices

-----------------------------------------------------------------------------
(* What a cell is made of. *)

\* The sessions that a cell needs, wherever reading starts.
Needed(s, o, a, t) ==
    CASE operation = "pointwise" -> {t}
      [] operation = "lag" -> {t - History} \cap (1 .. t)
      [] operation = "exact" -> {t} \cup Latest(Observed(s, a, t), History)
      [] operation = "canonical" -> Halo(s, o) .. t

LEMMA ConsumedIsNeeded ==
    ASSUME Settled, NEW s \in Seq(Contents), NEW o \in Nat \ {0}, NEW t \in 1 .. Len(s),
           NEW start, Suffices(s, o, start, t), NEW b \in t .. Len(s), NEW a \in s[t].members
    PROVE  /\ Consumed(s, start .. b, a, t) = Needed(s, o, a, t)
           /\ Needed(s, o, a, t) \subseteq start .. t
  <1>1. Len(s) \in Nat /\ t \in Nat \ {0} /\ b \in Nat /\ start \in 1 .. t /\ History \in Nat
    BY LenProperties, HistoryIsNatural DEF Suffices
  <1>2. CASE operation = "pointwise"
    BY <1>1, <1>2 DEF Consumed, Needed
  <1>3. CASE operation = "lag"
    <2>1. start <= Max({1, t - History})
      BY <1>3 DEF Suffices
    <2>2. t - History >= 1 => start <= t - History
      BY <1>1, <2>1, MaxOfTwo
    <2>3. {t - History} \cap (start .. b) = {t - History} \cap (1 .. t)
      BY <1>1, <2>2
    <2>4. {t - History} \cap (1 .. t) \subseteq start .. t
      BY <1>1, <2>2
    <2> QED
      BY <1>3, <2>3, <2>4 DEF Consumed, Needed
  <1>4. CASE operation = "exact"
    <2> DEFINE S == Observed(s, a, t)
    <2>1. S \in SUBSET Nat /\ \A u \in S : u < t
      BY <1>1, ObservedEarlier
    <2>2. \A u \in Latest(S, History) : start <= u
      BY <1>4 DEF Suffices
    <2> HIDE DEF S
    <2>3. Latest(S, History) \subseteq S
      BY DEF Latest
    <2>4. \A u \in Latest(S, History) : u \in start .. b /\ u \in start .. t
      <3>1. ASSUME NEW u \in Latest(S, History) PROVE u \in Nat /\ u < t /\ start <= u
        BY <2>1, <2>2, <2>3
      <3> QED
        BY <1>1, <3>1
    <2>5. \A u \in S, v \in S \cap (start .. b) : u > v => u \in start .. b
      BY <1>1, <2>1
    <2>6. Latest(S \cap (start .. b), History) = Latest(S, History)
      BY <2>4, <2>5, LatestInWindow
    <2> QED
      BY <1>1, <1>4, <2>4, <2>6 DEF Consumed, Needed, S
  <1>5. CASE operation = "canonical"
    <2>1. start = Halo(s, o)
      BY <1>5 DEF Suffices
    <2>2. {u \in start .. b : u <= t} = start .. t
      BY <1>1
    <2> QED
      BY <1>5, <2>1, <2>2 DEF Consumed, Needed
  <1> QED
    BY <1>2, <1>3, <1>4, <1>5 DEF Settled

\* What the interval proof of a block's sessions says of the source.
HaloProof(s, o, e) == [u \in Halo(s, o) .. e |-> s[u]]

\* Read from far enough back, or from the proof alone: the cells are the same.
LEMMA ProofDetermines ==
    ASSUME Settled, NEW s \in Seq(Contents), NEW o \in 1 .. Len(s), NEW e \in o .. Len(s),
           NEW t \in o .. e, NEW start, Suffices(s, o, start, t), NEW b \in t .. Len(s)
    PROVE  LET p == HaloProof(s, o, e) IN
           Cells(s, start .. b, t) = Cells(p, DOMAIN p, t)
  <1> DEFINE p == HaloProof(s, o, e)
             h == Halo(s, o)
  <1>1. /\ Len(s) \in Nat /\ DOMAIN s = 1 .. Len(s) /\ o \in Nat \ {0} /\ e \in Nat /\ t \in Nat \ {0}
        /\ t \in 1 .. Len(s) /\ t \in o .. Len(s) /\ History \in Nat
    BY LenProperties, HistoryIsNatural
  <1>2. h \in 1 .. o
    BY <1>1, HaloFacts
  <1>3. DOMAIN p = h .. e /\ \A u \in h .. e : p[u] = s[u]
    BY DEF HaloProof
  <1>4. Suffices(s, o, h, t)
    BY <1>1, HaloSuffices
  <1>5. t \in h .. e /\ p[t] = s[t]
    BY <1>1, <1>2, <1>3
  <1> HIDE DEF h, p
  <1>6. ASSUME NEW a \in s[t].members
        PROVE  /\ Consumed(s, start .. b, a, t) = Consumed(p, h .. e, a, t)
               /\ \A u \in Consumed(s, start .. b, a, t) : p[u] = s[u]
    <2>1. /\ Consumed(s, start .. b, a, t) = Needed(s, o, a, t)
          /\ Consumed(s, h .. e, a, t) = Needed(s, o, a, t)
          /\ Needed(s, o, a, t) \subseteq h .. t
      <3>1. e \in t .. Len(s)
        BY <1>1
      <3> QED
        BY <1>1, <1>4, <3>1, ConsumedIsNeeded
    <2>2. Observed(p, a, t) \cap (h .. e) = Observed(s, a, t) \cap (h .. e)
      BY <1>1, <1>2, <1>3 DEF Observed
    <2>3. Consumed(p, h .. e, a, t) = Consumed(s, h .. e, a, t)
      BY <2>2 DEF Consumed
    <2>4. h .. t \subseteq h .. e
      BY <1>1, <1>2
    <2> QED
      BY <1>3, <2>1, <2>3, <2>4
  <1>7. Cells(s, start .. b, t) = Cells(p, h .. e, t)
    BY <1>5, <1>6 DEF Cells
  <1> QED
    BY <1>3, <1>7 DEF p

\* The cells of a block are those of one computation over the whole history, which
\* reaches the observations its operation was promised.
LEMMA ProofGivesWholeHistory ==
    ASSUME Settled, NEW s \in Seq(Contents), NEW o \in Origins(s), NEW e \in o .. BlockEnd(s, o),
           NEW t \in o .. e
    PROVE  LET p == HaloProof(s, o, e) IN
           /\ Cells(p, DOMAIN p, t) = WholeHistory(s, t)
           /\ Reaches(s, t, WholeHistory(s, t))
  <1>1. Len(s) \in Nat /\ o \in 1 .. Len(s) /\ Lengths
    BY LenProperties, OriginsAreMultiples DEF Settled
  <1>2. BlockEnd(s, o) \in o .. Len(s)
    BY <1>1, NextOrigin
  <1>3. /\ e \in o .. Len(s) /\ t \in o .. BlockEnd(s, o) /\ t \in 1 .. Len(s) /\ t \in o .. Len(s)
        /\ t \in t .. Len(s) /\ o \in Nat \ {0} /\ t \in Nat \ {0} /\ History \in Nat
    BY <1>1, <1>2, HistoryIsNatural
  <1>4. Origin(t) = o
    BY <1>1, <1>3, BlockOfSession
  <1> DEFINE start == IF operation = "canonical" THEN Halo(s, o) ELSE 1
  <1>5. WholeHistory(s, t) = Cells(s, start .. t, t)
    BY <1>4 DEF WholeHistory
  <1>6. Suffices(s, o, start, t)
    <2>1. Suffices(s, o, Halo(s, o), t) /\ Halo(s, o) \in 1 .. o
      BY <1>1, <1>3, HaloSuffices, HaloFacts
    <2> QED
      BY <1>1, <1>3, <2>1, EarlierSuffices
  <1> HIDE DEF start
  <1>7. Cells(HaloProof(s, o, e), DOMAIN HaloProof(s, o, e), t) = Cells(s, start .. t, t)
    BY <1>1, <1>3, <1>6, ProofDetermines
  <1>8. ASSUME operation \in {"exact", "canonical"}, NEW a \in s[t].members
        PROVE  Latest(Observed(s, a, t), History) \subseteq DOMAIN Cells(s, start .. t, t)[a]
    <2>1. DOMAIN Cells(s, start .. t, t)[a] = Needed(s, o, a, t)
      BY <1>3, <1>6, <1>8, ConsumedIsNeeded DEF Cells
    <2>2. CASE operation = "exact"
      BY <2>1, <2>2 DEF Needed
    <2>3. CASE operation = "canonical"
      <3>1. ASSUME NEW u \in Latest(Observed(s, a, t), History) PROVE u \in Halo(s, o) .. t
        <4>1. u \in Nat /\ u < t
          BY <1>3, ObservedEarlier DEF Latest
        <4>2. a \in Assets /\ Halo(s, o) \in 1 .. o
          BY <1>3, <1>8, MembersAreAssets, HaloFacts
        <4>3. u < o => u \in Latest(Observed(s, a, o), History)
          BY <1>3, <3>1, LatestEarlier
        <4>4. \A v \in Latest(Observed(s, a, o), History) : Halo(s, o) <= v
          BY <1>3, <4>2, HaloFacts
        <4>5. Halo(s, o) <= u
          BY <1>3, <4>1, <4>2, <4>3, <4>4
        <4> QED
          BY <1>3, <4>1, <4>2, <4>5
      <3>2. Needed(s, o, a, t) = Halo(s, o) .. t
        BY <2>3 DEF Needed
      <3> QED
        BY <2>1, <3>1, <3>2
    <2> QED
      BY <1>8, <2>2, <2>3
  <1>9. Reaches(s, t, Cells(s, start .. t, t))
    BY <1>8 DEF Reaches
  <1> QED
    BY <1>5, <1>7, <1>9

\* A block that ended earlier proves the same of the sessions it has.
LEMMA PrefixAgrees ==
    ASSUME Settled, NEW s \in Seq(Contents), NEW o \in 1 .. Len(s), NEW e \in o .. Len(s),
           NEW d \in o .. e, NEW t \in o .. d
    PROVE  LET p == HaloProof(s, o, e)
               q == HaloProof(s, o, d)
           IN  Cells(p, DOMAIN p, t) = Cells(q, DOMAIN q, t)
  <1>1. /\ Len(s) \in Nat /\ t \in o .. e /\ t \in o .. Len(s) /\ d \in o .. Len(s)
        /\ t \in t .. Len(s)
    BY LenProperties
  <1>2. Suffices(s, o, Halo(s, o), t)
    BY <1>1, HaloSuffices
  <1> QED
    BY <1>1, <1>2, ProofDetermines

-----------------------------------------------------------------------------
(* Columns of a numerical table, cut after a session. *)

\* The rows up to a session, those behind it, and the last value of a column.
Upto(f, k) == [t \in {u \in DOMAIN f : u <= k} |-> f[t]]
Beyond(f, k) == [t \in {u \in DOMAIN f : u > k} |-> f[t]]
Final(f, seeded) == IF DOMAIN f = {} THEN seeded ELSE f[Max(DOMAIN f)]
Bounded(D) == D \in SUBSET Nat /\ \E b \in Nat : \A t \in D : t <= b

LEMMA KernelBounds == \A S : Checkpoint!Max(S) = Max(S)
  BY DEF Checkpoint!Max, Max

LEMMA KernelCounts == \A S : Checkpoint!Cardinality(S) = Cardinality(S)
  BY DEF Checkpoint!Cardinality, Cardinality, Checkpoint!IsFiniteSet, IsFiniteSet

LEMMA MaxOfSessions ==
    ASSUME NEW D, Bounded(D), D # {}
    PROVE  Max(D) \in D /\ Max(D) \in Nat /\ \A t \in D : t <= Max(D)
  <1>1. PICK b \in Nat : \A t \in D : t <= b
    BY DEF Bounded
  <1> QED
    BY <1>1, MaxOfBounded DEF Bounded

LEMMA MaxIs ==
    ASSUME NEW D, Bounded(D), NEW m \in D, \A t \in D : t <= m
    PROVE  Max(D) = m
  <1>1. Max(D) \in D /\ Max(D) \in Nat /\ m <= Max(D)
    BY MaxOfSessions
  <1> QED
    BY <1>1 DEF Bounded

LEMMA BoundedSubset == ASSUME NEW D, Bounded(D), NEW E \in SUBSET D PROVE Bounded(E)
  BY DEF Bounded

LEMMA BoundedIsFinite == ASSUME NEW D, Bounded(D) PROVE IsFiniteSet(D)
  BY FS_BoundedSetOfNaturals DEF Bounded

LEMMA ShiftedUpto ==
    ASSUME NEW f, Bounded(DOMAIN f), NEW k \in Nat, NEW seeded
    PROVE  Checkpoint!Shifted(Upto(f, k), seeded) = Upto(Checkpoint!Shifted(f, seeded), k)
  <1> DEFINE D == DOMAIN f
             e(t) == {u \in DOMAIN Upto(f, k) : u < t}
             w(t) == {u \in D : u < t}
  <1>1. DOMAIN Upto(f, k) = {u \in D : u <= k} /\ \A t \in DOMAIN Upto(f, k) : Upto(f, k)[t] = f[t]
    BY DEF Upto
  <1>2. ASSUME NEW t \in DOMAIN Upto(f, k)
        PROVE  (IF e(t) = {} THEN seeded ELSE Upto(f, k)[Max(e(t))])
               = (IF w(t) = {} THEN seeded ELSE f[Max(w(t))])
    <2>1. e(t) = w(t)
      BY <1>1 DEF Bounded
    <2>2. w(t) # {} => Max(w(t)) \in w(t)
      BY MaxOfSessions, BoundedSubset
    <2>3. \A u \in w(t) : Upto(f, k)[u] = f[u]
      BY <1>1, <2>1
    <2> QED
      BY <2>1, <2>2, <2>3
  <1>3. Checkpoint!Shifted(Upto(f, k), seeded)
        = [t \in DOMAIN Upto(f, k) |-> IF w(t) = {} THEN seeded ELSE f[Max(w(t))]]
    BY <1>2, KernelBounds DEF Checkpoint!Shifted
  <1>4. Checkpoint!Shifted(f, seeded) = [t \in D |-> IF w(t) = {} THEN seeded ELSE f[Max(w(t))]]
    BY KernelBounds DEF Checkpoint!Shifted
  <1> HIDE DEF w
  <1>5. Upto(Checkpoint!Shifted(f, seeded), k)
        = [t \in DOMAIN Upto(f, k) |-> IF w(t) = {} THEN seeded ELSE f[Max(w(t))]]
    BY <1>1, <1>4 DEF Upto
  <1> QED
    BY <1>3, <1>5

LEMMA ShiftedBeyond ==
    ASSUME NEW f, Bounded(DOMAIN f), NEW k \in Nat, NEW seeded
    PROVE  Checkpoint!Shifted(Beyond(f, k), Final(Upto(f, k), seeded))
           = Beyond(Checkpoint!Shifted(f, seeded), k)
  <1> DEFINE D == DOMAIN f
             last == Final(Upto(f, k), seeded)
             e(t) == {u \in DOMAIN Beyond(f, k) : u < t}
             w(t) == {u \in D : u < t}
  <1>1. DOMAIN Beyond(f, k) = {u \in D : u > k} /\ \A t \in DOMAIN Beyond(f, k) : Beyond(f, k)[t] = f[t]
    BY DEF Beyond
  <1>2. DOMAIN Upto(f, k) = {u \in D : u <= k} /\ \A t \in DOMAIN Upto(f, k) : Upto(f, k)[t] = f[t]
    BY DEF Upto
  <1>3. ASSUME NEW t \in DOMAIN Beyond(f, k)
        PROVE  (IF e(t) = {} THEN last ELSE Beyond(f, k)[Max(e(t))])
               = (IF w(t) = {} THEN seeded ELSE f[Max(w(t))])
    <2>1. CASE e(t) = {}
      <3>1. w(t) = DOMAIN Upto(f, k)
        BY <1>1, <1>2, <2>1 DEF Bounded
      <3>2. w(t) # {} => Max(w(t)) \in w(t)
        BY MaxOfSessions, BoundedSubset
      <3> QED
        BY <1>2, <2>1, <3>1, <3>2 DEF Final
    <2>2. CASE e(t) # {}
      <3> DEFINE m == Max(e(t))
      <3>1. m \in e(t) /\ \A u \in e(t) : u <= m
        BY <1>1, <2>2, MaxOfSessions, BoundedSubset
      <3>2. m \in w(t) /\ \A u \in w(t) : u <= m
        BY <1>1, <3>1 DEF Bounded
      <3> HIDE DEF m
      <3>3. Max(w(t)) = m
        BY <3>2, MaxIs, BoundedSubset
      <3>4. Beyond(f, k)[m] = f[m]
        BY <1>1, <3>1
      <3> QED
        BY <2>2, <3>2, <3>3, <3>4 DEF m
    <2> QED
      BY <2>1, <2>2
  <1>4. Checkpoint!Shifted(Beyond(f, k), last)
        = [t \in DOMAIN Beyond(f, k) |-> IF w(t) = {} THEN seeded ELSE f[Max(w(t))]]
    <2>1. Checkpoint!Shifted(Beyond(f, k), last)
          = [t \in DOMAIN Beyond(f, k) |-> IF e(t) = {} THEN last ELSE Beyond(f, k)[Max(e(t))]]
      BY KernelBounds DEF Checkpoint!Shifted
    <2> HIDE DEF e, w, last
    <2> QED
      BY <1>3, <2>1
  <1>5. Checkpoint!Shifted(f, seeded) = [t \in D |-> IF w(t) = {} THEN seeded ELSE f[Max(w(t))]]
    BY KernelBounds DEF Checkpoint!Shifted
  <1> HIDE DEF w
  <1>6. Beyond(Checkpoint!Shifted(f, seeded), k)
        = [t \in DOMAIN Beyond(f, k) |-> IF w(t) = {} THEN seeded ELSE f[Max(w(t))]]
    BY <1>1, <1>5 DEF Beyond
  <1> QED
    BY <1>4, <1>6

\* How many of the rows up to a session start a run.
Starts(begins, k) == Cardinality({u \in DOMAIN begins : u <= k /\ begins[u]})

LEMMA NumberedUpto ==
    ASSUME NEW f, Bounded(DOMAIN f), NEW k \in Nat
    PROVE  Checkpoint!Numbered(Upto(f, k)) = Upto(Checkpoint!Numbered(f), k)
  <1> DEFINE D == DOMAIN f
  <1>1. DOMAIN Upto(f, k) = {u \in D : u <= k} /\ \A t \in DOMAIN Upto(f, k) : Upto(f, k)[t] = f[t]
    BY DEF Upto
  <1>2. ASSUME NEW t \in DOMAIN Upto(f, k)
        PROVE  {u \in DOMAIN Upto(f, k) : u <= t /\ Upto(f, k)[u]} = {u \in D : u <= t /\ f[u]}
    BY <1>1 DEF Bounded
  <1>3. Checkpoint!Numbered(Upto(f, k)) = [t \in DOMAIN Upto(f, k) |-> Cardinality({u \in D : u <= t /\ f[u]})]
    BY <1>2, KernelCounts DEF Checkpoint!Numbered
  <1>4. Checkpoint!Numbered(f) = [t \in D |-> Cardinality({u \in D : u <= t /\ f[u]})]
    BY KernelCounts DEF Checkpoint!Numbered
  <1> QED
    BY <1>1, <1>3, <1>4 DEF Upto

LEMMA NumberedIs ==
    ASSUME NEW f, Bounded(DOMAIN f)
    PROVE  /\ DOMAIN Checkpoint!Numbered(f) = DOMAIN f
           /\ \A t \in DOMAIN f : Checkpoint!Numbered(f)[t] = Starts(f, t)
           /\ \A k \in Nat : Starts(f, k) \in Nat
           /\ \A k, l \in Nat : k <= l => Starts(f, k) <= Starts(f, l)
           /\ \A k \in Nat, l \in DOMAIN f : k < l /\ f[l] => Starts(f, k) < Starts(f, l)
           /\ \A k, l \in Nat : (\A u \in DOMAIN f : k < u /\ u <= l => ~ f[u]) /\ k <= l
                                   => Starts(f, k) = Starts(f, l)
  <1> DEFINE D == DOMAIN f
             s(k) == {u \in D : u <= k /\ f[u]}
  <1>1. IsFiniteSet(D) /\ D \in SUBSET Nat
    BY BoundedIsFinite DEF Bounded
  <1>2. \A k : s(k) \in SUBSET D
    OBVIOUS
  <1>3. \A k : IsFiniteSet(s(k)) /\ Cardinality(s(k)) \in Nat
    BY <1>1, <1>2, FS_Subset, FS_CardinalityType
  <1>4. ASSUME NEW k \in Nat, NEW l \in Nat, k <= l PROVE s(k) \in SUBSET s(l)
    BY <1>1, <1>4
  <1>5. ASSUME NEW k \in Nat, NEW l \in Nat, k <= l PROVE Cardinality(s(k)) <= Cardinality(s(l))
    BY <1>3, <1>4, <1>5, FS_Subset
  <1>6. ASSUME NEW k \in Nat, NEW l \in D, k < l, f[l] PROVE Cardinality(s(k)) < Cardinality(s(l))
    <2>1. l \in Nat /\ s(k) \in SUBSET s(l)
      BY <1>1, <1>4, <1>6
    <2>2. l \in s(l) /\ l \notin s(k)
      BY <1>1, <1>6
    <2> HIDE DEF s
    <2>3. Cardinality(s(k)) <= Cardinality(s(l)) /\ Cardinality(s(k)) # Cardinality(s(l))
      BY <1>3, <2>1, <2>2, FS_Subset
    <2> QED
      BY <1>3, <2>3
  <1>7. ASSUME NEW k \in Nat, NEW l \in Nat, \A u \in D : k < u /\ u <= l => ~ f[u], k <= l
        PROVE  s(k) = s(l)
    BY <1>1, <1>7
  <1>8. \A k : Starts(f, k) = Cardinality(s(k))
    BY DEF Starts
  <1>9. DOMAIN Checkpoint!Numbered(f) = D /\ \A t \in D : Checkpoint!Numbered(f)[t] = Cardinality(s(t))
    BY KernelCounts DEF Checkpoint!Numbered
  <1> HIDE DEF s
  <1> QED
    BY <1>1, <1>3, <1>5, <1>6, <1>7, <1>8, <1>9

\* Behind a session the numbers count on from those before it.
LEMMA NumberedBeyond ==
    ASSUME NEW f, Bounded(DOMAIN f), NEW k \in Nat
    PROVE  /\ DOMAIN Checkpoint!Numbered(Beyond(f, k)) = DOMAIN Beyond(f, k)
           /\ \A t \in DOMAIN Beyond(f, k) :
                 /\ Checkpoint!Numbered(Beyond(f, k))[t] \in Nat
                 /\ Checkpoint!Numbered(f)[t] = Starts(f, k) + Checkpoint!Numbered(Beyond(f, k))[t]
  <1> DEFINE D == DOMAIN f
             a == {u \in D : u <= k /\ f[u]}
             b(t) == {u \in DOMAIN Beyond(f, k) : u <= t /\ Beyond(f, k)[u]}
             w(t) == {u \in D : u <= t /\ f[u]}
  <1>1. IsFiniteSet(D) /\ D \in SUBSET Nat
    BY BoundedIsFinite DEF Bounded
  <1>2. DOMAIN Beyond(f, k) = {u \in D : u > k} /\ \A t \in DOMAIN Beyond(f, k) : Beyond(f, k)[t] = f[t]
    BY DEF Beyond
  <1>3. ASSUME NEW t \in DOMAIN Beyond(f, k)
        PROVE  Cardinality(w(t)) = Cardinality(a) + Cardinality(b(t)) /\ Cardinality(b(t)) \in Nat
    <2>1. w(t) = a \cup b(t) /\ a \cap b(t) = {}
      BY <1>1, <1>2
    <2>2. IsFiniteSet(a) /\ IsFiniteSet(b(t))
      BY <1>1, <1>2, FS_Subset
    <2> HIDE DEF a, b, w
    <2>3. Cardinality(a \cup b(t)) = Cardinality(a) + Cardinality(b(t)) - Cardinality({})
      BY <2>1, <2>2, FS_Union
    <2>4. Cardinality({}) = 0 /\ Cardinality(a) \in Nat /\ Cardinality(b(t)) \in Nat
      BY <2>2, FS_EmptySet, FS_CardinalityType
    <2> QED
      BY <2>1, <2>3, <2>4
  <1>4. \A t \in DOMAIN Beyond(f, k) :
           /\ Checkpoint!Numbered(Beyond(f, k))[t] = Cardinality(b(t))
           /\ Checkpoint!Numbered(f)[t] = Cardinality(w(t))
    BY <1>2, KernelCounts DEF Checkpoint!Numbered
  <1>5. Starts(f, k) = Cardinality(a)
    BY DEF Starts
  <1>6. DOMAIN Checkpoint!Numbered(Beyond(f, k)) = DOMAIN Beyond(f, k)
    BY DEF Checkpoint!Numbered
  <1> HIDE DEF a, b, w
  <1> QED
    BY <1>3, <1>4, <1>5, <1>6

-----------------------------------------------------------------------------
(* Streaks: what of the table of all rows is in that of the rows before or behind. *)

Number(n) == n \in Int \cup {Null}
StreakRows(rs) == Bounded(DOMAIN rs) /\ \A t \in DOMAIN rs : Number(rs[t].value) /\ Number(rs[t].trace)
Values(rs) == [t \in DOMAIN rs |-> rs[t].value]
Traces(rs) == [t \in DOMAIN rs |-> rs[t].trace]

LEMMA CutValues ==
    ASSUME NEW rs, NEW k
    PROVE  /\ Values(Upto(rs, k)) = Upto(Values(rs), k) /\ Values(Beyond(rs, k)) = Beyond(Values(rs), k)
           /\ Traces(Upto(rs, k)) = Upto(Traces(rs), k) /\ Traces(Beyond(rs, k)) = Beyond(Traces(rs), k)
           /\ DOMAIN Values(rs) = DOMAIN rs /\ DOMAIN Traces(rs) = DOMAIN rs
  BY DEF Values, Traces, Upto, Beyond

LEMMA CutDomains ==
    ASSUME NEW f, NEW k
    PROVE  /\ DOMAIN Upto(f, k) = {t \in DOMAIN f : t <= k} /\ \A t \in DOMAIN Upto(f, k) : Upto(f, k)[t] = f[t]
           /\ DOMAIN Beyond(f, k) = {t \in DOMAIN f : t > k} /\ \A t \in DOMAIN Beyond(f, k) : Beyond(f, k)[t] = f[t]
  BY DEF Upto, Beyond

\* A column that is made of two others row by row.
LEMMA DirectionsAre ==
    ASSUME NEW rs, NEW seed
    PROVE  Checkpoint!Directions(rs, seed)
           = [t \in DOMAIN rs |->
                IF Null \in {Values(rs)[t], Checkpoint!Shifted(Values(rs), seed.value)[t]} THEN Null
                ELSE Checkpoint!Sign(Values(rs)[t] - Checkpoint!Shifted(Values(rs), seed.value)[t])]
  BY DEF Checkpoint!Directions, Values

LEMMA DirectionsUpto ==
    ASSUME NEW rs, Bounded(DOMAIN rs), NEW k \in Nat, NEW seed
    PROVE  Checkpoint!Directions(Upto(rs, k), seed) = Upto(Checkpoint!Directions(rs, seed), k)
  <1> DEFINE v == Values(rs)
             s == Checkpoint!Shifted(v, seed.value)
             d(x, y) == IF Null \in {x, y} THEN Null ELSE Checkpoint!Sign(x - y)
  <1>1. Values(Upto(rs, k)) = Upto(v, k) /\ Checkpoint!Shifted(Upto(v, k), seed.value) = Upto(s, k)
    BY CutValues, ShiftedUpto
  <1>2. Checkpoint!Directions(Upto(rs, k), seed)
        = [t \in DOMAIN Upto(rs, k) |-> d(Upto(v, k)[t], Upto(s, k)[t])]
    BY <1>1, DirectionsAre
  <1>3. Checkpoint!Directions(rs, seed) = [t \in DOMAIN rs |-> d(v[t], s[t])]
    BY DirectionsAre
  <1>4. DOMAIN v = DOMAIN rs /\ DOMAIN s = DOMAIN rs
    BY CutValues DEF Checkpoint!Shifted
  <1> HIDE DEF v, s, d
  <1> QED
    BY <1>2, <1>3, <1>4 DEF Upto

LEMMA DirectionsBeyond ==
    ASSUME NEW rs, Bounded(DOMAIN rs), NEW k \in Nat, NEW seed, NEW saved,
           saved.value = Final(Upto(Values(rs), k), seed.value)
    PROVE  Checkpoint!Directions(Beyond(rs, k), saved) = Beyond(Checkpoint!Directions(rs, seed), k)
  <1> DEFINE v == Values(rs)
             s == Checkpoint!Shifted(v, seed.value)
             d(x, y) == IF Null \in {x, y} THEN Null ELSE Checkpoint!Sign(x - y)
  <1>1. Values(Beyond(rs, k)) = Beyond(v, k) /\ Checkpoint!Shifted(Beyond(v, k), saved.value) = Beyond(s, k)
    BY CutValues, ShiftedBeyond
  <1>2. Checkpoint!Directions(Beyond(rs, k), saved)
        = [t \in DOMAIN Beyond(rs, k) |-> d(Beyond(v, k)[t], Beyond(s, k)[t])]
    BY <1>1, DirectionsAre
  <1>3. Checkpoint!Directions(rs, seed) = [t \in DOMAIN rs |-> d(v[t], s[t])]
    BY DirectionsAre
  <1>4. DOMAIN v = DOMAIN rs /\ DOMAIN s = DOMAIN rs
    BY CutValues DEF Checkpoint!Shifted
  <1> HIDE DEF v, s, d
  <1> QED
    BY <1>2, <1>3, <1>4 DEF Beyond

\* What stands one row earlier, for a row that is not the first.
LEMMA ShiftedIs ==
    ASSUME NEW f, Bounded(DOMAIN f), NEW seeded, NEW t \in DOMAIN f
    PROVE  /\ {u \in DOMAIN f : u < t} = {} => Checkpoint!Shifted(f, seeded)[t] = seeded
           /\ \A u \in DOMAIN f : u < t /\ (\A v \in DOMAIN f : v < t => v <= u)
                                    => Checkpoint!Shifted(f, seeded)[t] = f[u]
  <1> DEFINE e == {u \in DOMAIN f : u < t}
  <1>1. Checkpoint!Shifted(f, seeded)[t] = IF e = {} THEN seeded ELSE f[Max(e)]
    BY KernelBounds DEF Checkpoint!Shifted
  <1>2. ASSUME NEW u \in DOMAIN f, u < t, \A v \in DOMAIN f : v < t => v <= u
        PROVE  Checkpoint!Shifted(f, seeded)[t] = f[u]
    <2>1. u \in e /\ \A v \in e : v <= u
      BY <1>2
    <2>2. Bounded(e)
      BY BoundedSubset
    <2> HIDE DEF e
    <2>3. Max(e) = u
      BY <2>1, <2>2, MaxIs
    <2> QED
      BY <1>1, <2>1, <2>3
  <1> QED
    BY <1>1, <1>2

LEMMA DirectionsType ==
    ASSUME Null \notin Int, NEW rs, StreakRows(rs), NEW seed, Number(seed.value)
    PROVE  /\ DOMAIN Checkpoint!Directions(rs, seed) = DOMAIN rs
           /\ \A t \in DOMAIN rs :
                 /\ Checkpoint!Directions(rs, seed)[t] \in {0 - 1, 0, 1, Null}
                 /\ Checkpoint!Directions(rs, seed)[t] # Null =>
                       Checkpoint!Valid(rs[t]) /\ Checkpoint!Shifted(Values(rs), seed.value)[t] # Null
  <1> DEFINE s == Checkpoint!Shifted(Values(rs), seed.value)
             D == DOMAIN rs
  <1>1. ASSUME NEW t \in D PROVE Number(s[t])
    <2> DEFINE e == {u \in D : u < t}
    <2>1. DOMAIN Values(rs) = D /\ Bounded(D) /\ \A u \in D : Values(rs)[u] = rs[u].value
      BY DEF Values, StreakRows
    <2>2. s[t] = IF e = {} THEN seed.value ELSE Values(rs)[Max(e)]
      BY <2>1, KernelBounds DEF Checkpoint!Shifted
    <2>3. e # {} => Max(e) \in e
      BY <2>1, MaxOfSessions, BoundedSubset
    <2>4. \A u \in e : Number(Values(rs)[u])
      BY <2>1 DEF StreakRows
    <2> QED
      BY <2>2, <2>3, <2>4
  <1> HIDE DEF s
  <1>2. ASSUME NEW t \in D
        PROVE  /\ Checkpoint!Directions(rs, seed)[t] \in {0 - 1, 0, 1, Null}
               /\ Checkpoint!Directions(rs, seed)[t] # Null => Checkpoint!Valid(rs[t]) /\ s[t] # Null
    <2>1. Checkpoint!Directions(rs, seed)[t]
          = IF Null \in {rs[t].value, s[t]} THEN Null ELSE Checkpoint!Sign(rs[t].value - s[t])
      BY DirectionsAre DEF Values, s
    <2>2. Number(rs[t].value) /\ Number(s[t])
      BY <1>1 DEF StreakRows
    <2> QED
      BY <2>1, <2>2 DEF Number, Checkpoint!Sign, Checkpoint!Valid
  <1>3. DOMAIN Checkpoint!Directions(rs, seed) = D
    BY DirectionsAre
  <1> QED
    BY <1>2, <1>3 DEF s

-----------------------------------------------------------------------------
(* Resetting streaks. *)

ResetPrevious(rs, seed) == Checkpoint!Shifted(Checkpoint!Directions(rs, seed), seed.direction)
ResetReversal(rs, seed) ==
    [t \in DOMAIN rs |->
        /\ Checkpoint!Valid(rs[t]) /\ Checkpoint!Directions(rs, seed)[t] # ResetPrevious(rs, seed)[t]
        /\ {Checkpoint!Directions(rs, seed)[t], ResetPrevious(rs, seed)[t]} \cap {Null, 0} = {}]
ResetStart(rs, seed) ==
    [t \in DOMAIN rs |->
        /\ Checkpoint!Valid(rs[t])
        /\ \/ Checkpoint!Directions(rs, seed)[t] # ResetPrevious(rs, seed)[t]
           \/ Checkpoint!Directions(rs, seed)[t] \in {Null, 0}]
Moving(rs) == [t \in DOMAIN rs |-> Checkpoint!Valid(rs[t])]

LEMMA ResettingIs ==
    ASSUME NEW rs, NEW seed
    PROVE  Checkpoint!ResettingState(rs, seed)
           = [direction |-> Checkpoint!Directions(rs, seed), moved |-> Moving(rs),
              reversal |-> ResetReversal(rs, seed), run |-> Checkpoint!Numbered(ResetStart(rs, seed))]
  <1> DEFINE d == Checkpoint!Directions(rs, seed)
             p == Checkpoint!Shifted(d, seed.direction)
             c == [t \in DOMAIN rs |-> Checkpoint!Valid(rs[t]) /\ d[t] # p[t]]
             v == [t \in DOMAIN rs |-> c[t] /\ {d[t], p[t]} \cap {Null, 0} = {}]
             b == [t \in DOMAIN rs |-> c[t] \/ (Checkpoint!Valid(rs[t]) /\ d[t] \in {Null, 0})]
             m == [t \in DOMAIN rs |-> Checkpoint!Valid(rs[t])]
  <1>1. Checkpoint!ResettingState(rs, seed)
        = [direction |-> d, moved |-> m, reversal |-> v, run |-> Checkpoint!Numbered(b)]
    BY Zenon DEF Checkpoint!ResettingState
  <1>2. v = ResetReversal(rs, seed)
    BY DEF ResetReversal, ResetPrevious
  <1>3. b = ResetStart(rs, seed)
    <2>1. DOMAIN b = DOMAIN rs /\ DOMAIN ResetStart(rs, seed) = DOMAIN rs
      BY DEF ResetStart
    <2>2. \A t \in DOMAIN rs : b[t] = ResetStart(rs, seed)[t]
      BY DEF ResetStart, ResetPrevious
    <2>3. b = [t \in DOMAIN rs |-> b[t]]
      OBVIOUS
    <2>4. ResetStart(rs, seed) = [t \in DOMAIN rs |-> ResetStart(rs, seed)[t]]
      BY DEF ResetStart
    <2> HIDE DEF b
    <2> QED
      BY <2>2, <2>3, <2>4
  <1>4. m = Moving(rs)
    BY DEF Moving
  <1> HIDE DEF v, b, m, p, c
  <1> QED
    BY <1>1, <1>2, <1>3, <1>4 DEF d

LEMMA ResetUpto ==
    ASSUME NEW rs, Bounded(DOMAIN rs), NEW k \in Nat, NEW seed
    PROVE  /\ ResetReversal(Upto(rs, k), seed) = Upto(ResetReversal(rs, seed), k)
           /\ ResetStart(Upto(rs, k), seed) = Upto(ResetStart(rs, seed), k)
           /\ Moving(Upto(rs, k)) = Upto(Moving(rs), k)
  <1> DEFINE d == Checkpoint!Directions(rs, seed)
             p == ResetPrevious(rs, seed)
  <1>1. Checkpoint!Directions(Upto(rs, k), seed) = Upto(d, k)
    BY DirectionsUpto
  <1>2. DOMAIN d = DOMAIN rs
    BY DirectionsAre
  <1>3. ResetPrevious(Upto(rs, k), seed) = Upto(p, k)
    BY <1>1, <1>2, ShiftedUpto DEF ResetPrevious
  <1>4. DOMAIN p = DOMAIN rs
    BY <1>2 DEF ResetPrevious, Checkpoint!Shifted
  <1> HIDE DEF d, p
  <1>5. /\ DOMAIN Upto(rs, k) = {t \in DOMAIN rs : t <= k}
        /\ \A t \in DOMAIN Upto(rs, k) : Upto(rs, k)[t] = rs[t] /\ Upto(d, k)[t] = d[t] /\ Upto(p, k)[t] = p[t]
    BY <1>2, <1>4 DEF Upto
  <1>6. ResetReversal(Upto(rs, k), seed) = Upto(ResetReversal(rs, seed), k)
    BY <1>1, <1>3, <1>5 DEF ResetReversal, Upto, d, p
  <1>7. ResetStart(Upto(rs, k), seed) = Upto(ResetStart(rs, seed), k)
    BY <1>1, <1>3, <1>5 DEF ResetStart, Upto, d, p
  <1>8. Moving(Upto(rs, k)) = Upto(Moving(rs), k)
    BY <1>5 DEF Moving, Upto
  <1> QED
    BY <1>6, <1>7, <1>8

LEMMA ResetBeyond ==
    ASSUME NEW rs, Bounded(DOMAIN rs), NEW k \in Nat, NEW seed, NEW saved,
           saved.value = Final(Upto(Values(rs), k), seed.value),
           saved.direction = Final(Upto(Checkpoint!Directions(rs, seed), k), seed.direction)
    PROVE  /\ ResetReversal(Beyond(rs, k), saved) = Beyond(ResetReversal(rs, seed), k)
           /\ ResetStart(Beyond(rs, k), saved) = Beyond(ResetStart(rs, seed), k)
           /\ Moving(Beyond(rs, k)) = Beyond(Moving(rs), k)
  <1> DEFINE d == Checkpoint!Directions(rs, seed)
             p == ResetPrevious(rs, seed)
  <1>1. Checkpoint!Directions(Beyond(rs, k), saved) = Beyond(d, k)
    BY DirectionsBeyond
  <1>2. DOMAIN d = DOMAIN rs
    BY DirectionsAre
  <1>3. ResetPrevious(Beyond(rs, k), saved) = Beyond(p, k)
    BY <1>1, <1>2, ShiftedBeyond DEF ResetPrevious
  <1>4. DOMAIN p = DOMAIN rs
    BY <1>2 DEF ResetPrevious, Checkpoint!Shifted
  <1> HIDE DEF d, p
  <1>5. /\ DOMAIN Beyond(rs, k) = {t \in DOMAIN rs : t > k}
        /\ \A t \in DOMAIN Beyond(rs, k) :
              Beyond(rs, k)[t] = rs[t] /\ Beyond(d, k)[t] = d[t] /\ Beyond(p, k)[t] = p[t]
    BY <1>2, <1>4 DEF Beyond
  <1>6. ResetReversal(Beyond(rs, k), saved) = Beyond(ResetReversal(rs, seed), k)
    BY <1>1, <1>3, <1>5 DEF ResetReversal, Beyond, d, p
  <1>7. ResetStart(Beyond(rs, k), saved) = Beyond(ResetStart(rs, seed), k)
    BY <1>1, <1>3, <1>5 DEF ResetStart, Beyond, d, p
  <1>8. Moving(Beyond(rs, k)) = Beyond(Moving(rs), k)
    BY <1>5 DEF Moving, Beyond
  <1> QED
    BY <1>6, <1>7, <1>8

-----------------------------------------------------------------------------
(* Holding streaks. *)

HoldGap(rs, seed) == Checkpoint!Shifted(Values(rs), seed.value)
BlockBegins(rs, seed) == [t \in DOMAIN rs |-> Checkpoint!Valid(rs[t]) /\ HoldGap(rs, seed)[t] = Null]
HoldBlock(rs, seed) == Checkpoint!Numbered(BlockBegins(rs, seed))
HoldMoved(rs, seed) == [t \in DOMAIN rs |-> Checkpoint!Directions(rs, seed)[t] \notin {Null, 0}]
MovesTo(rs, seed, t) ==
    {u \in DOMAIN rs : u <= t /\ HoldMoved(rs, seed)[u] /\ HoldBlock(rs, seed)[u] = HoldBlock(rs, seed)[t]}
Effective(rs, seed) ==
    [t \in DOMAIN rs |->
        IF MovesTo(rs, seed, t) # {} THEN Checkpoint!Directions(rs, seed)[Max(MovesTo(rs, seed, t))]
        ELSE IF HoldBlock(rs, seed)[t] = 0 THEN seed.direction ELSE Null]
HoldPrevious(rs, seed) == Checkpoint!Shifted(Effective(rs, seed), seed.direction)
HoldReversal(rs, seed) ==
    [t \in DOMAIN rs |-> HoldMoved(rs, seed)[t]
                         /\ HoldPrevious(rs, seed)[t] \notin {Null, Checkpoint!Directions(rs, seed)[t]}]
HoldStart(rs, seed) == [t \in DOMAIN rs |-> BlockBegins(rs, seed)[t] \/ HoldReversal(rs, seed)[t]]

LEMMA HoldingIs ==
    ASSUME NEW rs, NEW seed
    PROVE  Checkpoint!HoldingState(rs, seed)
           = [direction |-> Effective(rs, seed), moved |-> HoldMoved(rs, seed),
              reversal |-> HoldReversal(rs, seed), run |-> Checkpoint!Numbered(HoldStart(rs, seed))]
  <1> DEFINE d == Checkpoint!Directions(rs, seed)
             s == [t \in DOMAIN rs |-> Checkpoint!Valid(rs[t])
                     /\ Checkpoint!Shifted([u \in DOMAIN rs |-> rs[u].value], seed.value)[t] = Null]
             b == Checkpoint!Numbered(s)
             m == [t \in DOMAIN rs |-> d[t] \notin {Null, 0}]
             to(t) == {u \in DOMAIN rs : u <= t /\ m[u] /\ b[u] = b[t]}
             e == [t \in DOMAIN rs |-> IF to(t) # {} THEN d[Checkpoint!Max(to(t))]
                                       ELSE IF b[t] = 0 THEN seed.direction ELSE Null]
             p == Checkpoint!Shifted(e, seed.direction)
             r == [t \in DOMAIN rs |-> m[t] /\ p[t] \notin {Null, d[t]}]
             h == [t \in DOMAIN rs |-> s[t] \/ r[t]]
  <1>1. Checkpoint!HoldingState(rs, seed)
        = [direction |-> e, moved |-> m, reversal |-> r, run |-> Checkpoint!Numbered(h)]
    BY DEF Checkpoint!HoldingState
  <1>2. s = BlockBegins(rs, seed)
    BY DEF BlockBegins, HoldGap, Values
  <1>3. m = HoldMoved(rs, seed)
    BY DEF HoldMoved
  <1> HIDE DEF s, m
  <1>4. b = HoldBlock(rs, seed)
    BY <1>2 DEF HoldBlock
  <1> HIDE DEF b
  <1>5. \A t : to(t) = MovesTo(rs, seed, t)
    BY <1>3, <1>4 DEF MovesTo
  <1>6. e = Effective(rs, seed)
    BY <1>4, <1>5, KernelBounds DEF Effective
  <1> HIDE DEF e
  <1>7. p = HoldPrevious(rs, seed)
    BY <1>6 DEF HoldPrevious
  <1> HIDE DEF p
  <1>8. r = HoldReversal(rs, seed)
    BY <1>3, <1>7 DEF HoldReversal
  <1> HIDE DEF r
  <1>9. h = HoldStart(rs, seed)
    BY <1>2, <1>8 DEF HoldStart
  <1> HIDE DEF h
  <1> QED
    BY <1>1, <1>3, <1>6, <1>8, <1>9

LEMMA HoldDomains ==
    ASSUME NEW rs, NEW seed
    PROVE  /\ DOMAIN HoldGap(rs, seed) = DOMAIN rs /\ DOMAIN BlockBegins(rs, seed) = DOMAIN rs
           /\ DOMAIN HoldBlock(rs, seed) = DOMAIN rs /\ DOMAIN HoldMoved(rs, seed) = DOMAIN rs
           /\ DOMAIN Effective(rs, seed) = DOMAIN rs /\ DOMAIN HoldPrevious(rs, seed) = DOMAIN rs
           /\ DOMAIN HoldReversal(rs, seed) = DOMAIN rs /\ DOMAIN HoldStart(rs, seed) = DOMAIN rs
           /\ DOMAIN Checkpoint!Directions(rs, seed) = DOMAIN rs
  BY DirectionsAre DEF HoldGap, Checkpoint!Shifted, Values, BlockBegins, HoldBlock, Checkpoint!Numbered, HoldMoved,
         Effective, HoldPrevious, HoldReversal, HoldStart

\* The rows before, with the same seed.
LEMMA HoldUpto ==
    ASSUME NEW rs, Bounded(DOMAIN rs), NEW k \in Nat, NEW seed
    PROVE  /\ Effective(Upto(rs, k), seed) = Upto(Effective(rs, seed), k)
           /\ HoldMoved(Upto(rs, k), seed) = Upto(HoldMoved(rs, seed), k)
           /\ HoldReversal(Upto(rs, k), seed) = Upto(HoldReversal(rs, seed), k)
           /\ HoldStart(Upto(rs, k), seed) = Upto(HoldStart(rs, seed), k)
  <1> DEFINE x == Upto(rs, k)
             X == DOMAIN x
             d == Checkpoint!Directions(rs, seed)
             g == HoldGap(rs, seed)
             s == BlockBegins(rs, seed)
             b == HoldBlock(rs, seed)
             m == HoldMoved(rs, seed)
             e == Effective(rs, seed)
             p == HoldPrevious(rs, seed)
             r == HoldReversal(rs, seed)
  <1>1. X = {t \in DOMAIN rs : t <= k} /\ \A t \in X : x[t] = rs[t]
    BY CutDomains
  <1>2. /\ DOMAIN d = DOMAIN rs /\ DOMAIN g = DOMAIN rs /\ DOMAIN s = DOMAIN rs /\ DOMAIN b = DOMAIN rs
        /\ DOMAIN m = DOMAIN rs /\ DOMAIN e = DOMAIN rs /\ DOMAIN p = DOMAIN rs /\ DOMAIN r = DOMAIN rs
    BY HoldDomains
  <1>3. Checkpoint!Directions(x, seed) = Upto(d, k)
    BY DirectionsUpto
  <1>4. HoldGap(x, seed) = Upto(g, k)
    <2>1. DOMAIN Values(rs) = DOMAIN rs /\ Values(x) = Upto(Values(rs), k)
      BY CutValues
    <2> QED
      BY <2>1, ShiftedUpto DEF HoldGap
  <1> HIDE DEF d, g
  <1>5. \A t \in X : t \in DOMAIN rs /\ Upto(d, k)[t] = d[t] /\ Upto(g, k)[t] = g[t]
    BY <1>1, <1>2 DEF Upto
  <1>6. BlockBegins(x, seed) = Upto(s, k)
    BY <1>1, <1>4, <1>5 DEF BlockBegins, Upto, g
  <1>7. HoldMoved(x, seed) = Upto(m, k)
    BY <1>1, <1>3, <1>5 DEF HoldMoved, Upto, d
  <1>8. HoldBlock(x, seed) = Upto(b, k)
    BY <1>2, <1>6, NumberedUpto DEF HoldBlock
  <1> HIDE DEF s, b, m
  <1>9. \A t \in X : Upto(s, k)[t] = s[t] /\ Upto(b, k)[t] = b[t] /\ Upto(m, k)[t] = m[t]
    BY <1>1, <1>2 DEF Upto
  <1>10. ASSUME NEW t \in X PROVE MovesTo(x, seed, t) = MovesTo(rs, seed, t)
    <2>1. \A u : u \in DOMAIN rs /\ u <= t <=> u \in X /\ u <= t
      BY <1>1 DEF Bounded
    <2>2. MovesTo(x, seed, t) = {u \in X : u <= t /\ m[u] /\ b[u] = b[t]}
      BY <1>7, <1>8, <1>9 DEF MovesTo
    <2>3. MovesTo(rs, seed, t) = {u \in DOMAIN rs : u <= t /\ m[u] /\ b[u] = b[t]}
      BY DEF MovesTo, m, b
    <2> QED
      BY <2>1, <2>2, <2>3
  <1>11. ASSUME NEW t \in X, MovesTo(rs, seed, t) # {}
         PROVE  Max(MovesTo(rs, seed, t)) \in X
    <2>1. MovesTo(rs, seed, t) \in SUBSET X
      BY <1>10 DEF MovesTo
    <2>2. Bounded(X)
      BY <1>1, BoundedSubset
    <2> QED
      BY <1>11, <2>1, <2>2, MaxOfSessions, BoundedSubset
  <1>12. Effective(x, seed) = Upto(e, k)
    <2>1. ASSUME NEW t \in X
          PROVE  (IF MovesTo(x, seed, t) # {} THEN Checkpoint!Directions(x, seed)[Max(MovesTo(x, seed, t))]
                  ELSE IF HoldBlock(x, seed)[t] = 0 THEN seed.direction ELSE Null)
                 = e[t]
      <3>1. e[t] = IF MovesTo(rs, seed, t) # {} THEN d[Max(MovesTo(rs, seed, t))]
                   ELSE IF b[t] = 0 THEN seed.direction ELSE Null
        BY <1>5 DEF Effective, d, b
      <3> HIDE DEF e
      <3> QED
        BY <1>3, <1>5, <1>8, <1>9, <1>10, <1>11, <3>1
    <2>2. Effective(x, seed) = [t \in X |-> e[t]]
      BY <2>1 DEF Effective
    <2> HIDE DEF e
    <2> QED
      BY <1>1, <1>2, <2>2 DEF Upto
  <1>13. HoldPrevious(x, seed) = Upto(p, k)
    BY <1>2, <1>12, ShiftedUpto DEF HoldPrevious
  <1> HIDE DEF e, p
  <1>14. \A t \in X : Upto(p, k)[t] = p[t]
    BY <1>1, <1>2 DEF Upto
  <1>15. HoldReversal(x, seed) = Upto(r, k)
    <2>1. HoldReversal(x, seed) = [t \in X |-> m[t] /\ p[t] \notin {Null, d[t]}]
      BY <1>3, <1>5, <1>7, <1>9, <1>13, <1>14 DEF HoldReversal
    <2>2. r = [t \in DOMAIN rs |-> m[t] /\ p[t] \notin {Null, d[t]}]
      BY DEF HoldReversal, m, p, d
    <2> HIDE DEF r
    <2>3. Upto(r, k) = [t \in X |-> r[t]]
      BY <1>1, <1>2 DEF Upto
    <2>4. \A t \in X : r[t] = (m[t] /\ p[t] \notin {Null, d[t]})
      BY <1>5, <2>2
    <2> QED
      BY <2>1, <2>3, <2>4
  <1> HIDE DEF r
  <1>16. \A t \in X : Upto(r, k)[t] = r[t]
    BY <1>1, <1>2 DEF Upto
  <1>17. HoldStart(x, seed) = Upto(HoldStart(rs, seed), k)
    BY <1>1, <1>6, <1>9, <1>15, <1>16 DEF HoldStart, Upto, r, s
  <1> QED
    BY <1>7, <1>12, <1>15, <1>17 DEF e, m, r

\* The rows behind, from the state that those before leave.
LEMMA HoldBeyond ==
    ASSUME NEW rs, Bounded(DOMAIN rs), NEW k \in Nat, NEW seed, NEW saved,
           saved.value = Final(Upto(Values(rs), k), seed.value),
           saved.direction = Final(Upto(Effective(rs, seed), k), seed.direction)
    PROVE  /\ Effective(Beyond(rs, k), saved) = Beyond(Effective(rs, seed), k)
           /\ HoldMoved(Beyond(rs, k), saved) = Beyond(HoldMoved(rs, seed), k)
           /\ HoldReversal(Beyond(rs, k), saved) = Beyond(HoldReversal(rs, seed), k)
           /\ HoldStart(Beyond(rs, k), saved) = Beyond(HoldStart(rs, seed), k)
  <1> DEFINE x == Beyond(rs, k)
             X == DOMAIN x
             d == Checkpoint!Directions(rs, seed)
             g == HoldGap(rs, seed)
             s == BlockBegins(rs, seed)
             b == HoldBlock(rs, seed)
             c == HoldBlock(x, saved)
             m == HoldMoved(rs, seed)
             e == Effective(rs, seed)
             p == HoldPrevious(rs, seed)
             r == HoldReversal(rs, seed)
             base == Starts(s, k)
             Y == {t \in DOMAIN rs : t <= k}
  <1>1. X = {t \in DOMAIN rs : t > k} /\ (\A t \in X : x[t] = rs[t]) /\ DOMAIN rs \in SUBSET Nat
    BY CutDomains DEF Bounded
  <1>2. /\ DOMAIN d = DOMAIN rs /\ DOMAIN g = DOMAIN rs /\ DOMAIN s = DOMAIN rs /\ DOMAIN b = DOMAIN rs
        /\ DOMAIN m = DOMAIN rs /\ DOMAIN e = DOMAIN rs /\ DOMAIN p = DOMAIN rs /\ DOMAIN r = DOMAIN rs
    BY HoldDomains
  <1>3. Checkpoint!Directions(x, saved) = Beyond(d, k)
    BY DirectionsBeyond
  <1>4. HoldGap(x, saved) = Beyond(g, k)
    <2>1. DOMAIN Values(rs) = DOMAIN rs /\ Values(x) = Beyond(Values(rs), k)
      BY CutValues
    <2> QED
      BY <2>1, ShiftedBeyond DEF HoldGap
  <1> HIDE DEF d, g
  <1>5. \A t \in X : t \in DOMAIN rs /\ Beyond(d, k)[t] = d[t] /\ Beyond(g, k)[t] = g[t]
    BY <1>1, <1>2 DEF Beyond
  <1>6. BlockBegins(x, saved) = Beyond(s, k)
    BY <1>1, <1>4, <1>5 DEF BlockBegins, Beyond, g
  <1>7. HoldMoved(x, saved) = Beyond(m, k)
    BY <1>1, <1>3, <1>5 DEF HoldMoved, Beyond, d
  <1> HIDE DEF s
  <1>8. \A t \in X : c[t] \in Nat /\ b[t] = base + c[t]
    <2>1. DOMAIN Beyond(s, k) = X
      BY <1>1, <1>2 DEF Beyond
    <2> QED
      BY <1>2, <1>6, <2>1, NumberedBeyond DEF HoldBlock, s
  <1>9. /\ base \in Nat
        /\ \A t \in DOMAIN rs : b[t] \in Nat /\ b[t] = Starts(s, t)
        /\ \A t \in Y : b[t] <= base
    <2>1. /\ \A t \in DOMAIN rs : Checkpoint!Numbered(s)[t] = Starts(s, t)
          /\ \A n \in Nat : Starts(s, n) \in Nat
          /\ \A n, l \in Nat : n <= l => Starts(s, n) <= Starts(s, l)
      BY <1>2, NumberedIs
    <2>2. b = Checkpoint!Numbered(s)
      BY DEF HoldBlock, s
    <2> QED
      BY <1>1, <2>1, <2>2
  <1> HIDE DEF b, m, c
  <1>10. \A t \in X : Beyond(s, k)[t] = s[t] /\ Beyond(m, k)[t] = m[t]
    BY <1>1, <1>2 DEF Beyond
  <1>11. ASSUME NEW t \in X
         PROVE  /\ MovesTo(x, saved, t) = {u \in X : u <= t /\ m[u] /\ b[u] = b[t]}
                /\ MovesTo(rs, seed, t) = {u \in DOMAIN rs : u <= t /\ m[u] /\ b[u] = b[t]}
    <2>1. MovesTo(x, saved, t) = {u \in X : u <= t /\ m[u] /\ c[u] = c[t]}
      BY <1>7, <1>10 DEF MovesTo, c
    <2>2. \A u \in X : c[u] = c[t] <=> b[u] = b[t]
      BY <1>8, <1>9
    <2>3. MovesTo(rs, seed, t) = {u \in DOMAIN rs : u <= t /\ m[u] /\ b[u] = b[t]}
      BY DEF MovesTo, m, b
    <2> QED
      BY <2>1, <2>2, <2>3
  <1>12. ASSUME NEW t \in DOMAIN rs
         PROVE  e[t] = IF MovesTo(rs, seed, t) # {} THEN d[Max(MovesTo(rs, seed, t))]
                       ELSE IF b[t] = 0 THEN seed.direction ELSE Null
    BY DEF Effective, d, b
  <1>13. ASSUME NEW t \in X
         PROVE  (IF MovesTo(x, saved, t) # {} THEN Beyond(d, k)[Max(MovesTo(x, saved, t))]
                 ELSE IF c[t] = 0 THEN saved.direction ELSE Null)
                = e[t]
    <2> DEFINE C == MovesTo(x, saved, t)
               W == MovesTo(rs, seed, t)
    <2>1. /\ C = {u \in X : u <= t /\ m[u] /\ b[u] = b[t]}
          /\ W = {u \in DOMAIN rs : u <= t /\ m[u] /\ b[u] = b[t]}
      BY <1>11
    <2>2. t \in DOMAIN rs /\ e[t] = IF W # {} THEN d[Max(W)] ELSE IF b[t] = 0 THEN seed.direction ELSE Null
      BY <1>5, <1>12
    <2> HIDE DEF C, W
    <2>3. CASE C # {}
      <3>1. Bounded(C) /\ Bounded(W)
        BY <1>1, <2>1, BoundedSubset
      <3> DEFINE n == Max(C)
      <3>2. n \in C /\ \A u \in C : u <= n
        BY <2>3, <3>1, MaxOfSessions
      <3> HIDE DEF n
      <3>3. n \in W /\ \A u \in W : u <= n
        BY <1>1, <2>1, <3>2
      <3>4. Max(W) = n
        BY <3>1, <3>3, MaxIs
      <3>5. Beyond(d, k)[n] = d[n]
        BY <1>5, <2>1, <3>2
      <3> QED
        BY <2>2, <2>3, <3>3, <3>4, <3>5 DEF C, n
    <2>4. CASE C = {} /\ c[t] # 0
      <3>1. b[t] # 0 /\ b[t] > base
        BY <1>8, <1>9, <2>4
      <3>2. W = {}
        <4>1. ASSUME NEW u \in W PROVE FALSE
          <5>1. u \in DOMAIN rs /\ m[u] /\ u <= t /\ b[u] = b[t]
            BY <2>1
          <5>2. u \notin X
            BY <2>1, <2>4, <5>1
          <5>3. b[u] <= base /\ b[u] \in Nat
            BY <1>1, <1>9, <5>1, <5>2
          <5> QED
            BY <1>9, <3>1, <5>1, <5>3
        <4> QED
          BY <4>1
      <3> QED
        BY <2>2, <2>4, <3>1, <3>2 DEF C
    <2>5. CASE C = {} /\ c[t] = 0 /\ Y = {}
      <3>1. base = 0
        <4>1. {u \in DOMAIN s : u <= k /\ s[u]} = {}
          BY <1>2, <2>5
        <4> QED
          BY <4>1, FS_EmptySet DEF Starts
      <3>2. W = {}
        BY <1>1, <2>1, <2>5
      <3>3. saved.direction = seed.direction
        <4>1. DOMAIN Upto(e, k) = {}
          BY <1>2, <2>5 DEF Upto
        <4> QED
          BY <4>1 DEF Final
      <3>4. b[t] = 0
        BY <1>8, <2>5, <3>1
      <3> QED
        BY <2>2, <2>5, <3>2, <3>3, <3>4 DEF C
    <2>6. CASE C = {} /\ c[t] = 0 /\ Y # {}
      <3> DEFINE n == Max(Y)
      <3>1. n \in Y /\ \A u \in Y : u <= n
        BY <1>1, <2>6, MaxOfSessions, BoundedSubset
      <3>2. saved.direction = e[n]
        <4>1. DOMAIN Upto(e, k) = Y /\ \A u \in Y : Upto(e, k)[u] = e[u]
          BY <1>2 DEF Upto
        <4> QED
          BY <2>6, <3>1, <4>1 DEF Final
      <3> HIDE DEF n
      <3>3. b[n] = b[t]
        <4>1. n \in DOMAIN rs /\ n \in Nat /\ n <= k
          BY <1>1, <3>1
        <4>2. \A u \in DOMAIN s : n < u /\ u <= k => ~ s[u]
          BY <1>1, <1>2, <3>1
        <4>3. Starts(s, n) = base
          BY <1>2, <4>1, <4>2, NumberedIs
        <4> QED
          BY <1>8, <1>9, <2>6, <4>1, <4>3
      <3>4. W = MovesTo(rs, seed, n)
        <4>1. MovesTo(rs, seed, n) = {u \in DOMAIN rs : u <= n /\ m[u] /\ b[u] = b[n]}
          BY DEF MovesTo, m, b
        <4>2. ASSUME NEW u \in DOMAIN rs, m[u], b[u] = b[t] PROVE u <= t <=> u <= n
          <5>1. CASE u \in X
            BY <1>1, <2>1, <2>6, <3>1, <4>2, <5>1
          <5>2. CASE u \notin X
            BY <1>1, <3>1, <5>2
          <5> QED
            BY <5>1, <5>2
        <4> QED
          BY <2>1, <3>3, <4>1, <4>2
      <3>5. e[n] = IF W # {} THEN d[Max(W)] ELSE IF b[t] = 0 THEN seed.direction ELSE Null
        BY <1>12, <3>1, <3>3, <3>4
      <3> QED
        BY <2>2, <2>6, <3>2, <3>5 DEF C
    <2> QED
      BY <2>3, <2>4, <2>5, <2>6
  <1> HIDE DEF base, Y
  <1>14. Effective(x, saved) = Beyond(e, k)
    <2>1. Effective(x, saved)
          = [t \in X |-> IF MovesTo(x, saved, t) # {} THEN Beyond(d, k)[Max(MovesTo(x, saved, t))]
                         ELSE IF c[t] = 0 THEN saved.direction ELSE Null]
      BY <1>3 DEF Effective, c
    <2> HIDE DEF e
    <2>2. Effective(x, saved) = [t \in X |-> e[t]]
      BY <1>13, <2>1
    <2> QED
      BY <1>1, <1>2, <2>2 DEF Beyond
  <1>15. HoldPrevious(x, saved) = Beyond(p, k)
    BY <1>2, <1>14, ShiftedBeyond DEF HoldPrevious
  <1> HIDE DEF e, p
  <1>16. \A t \in X : Beyond(p, k)[t] = p[t]
    BY <1>1, <1>2 DEF Beyond
  <1>17. HoldReversal(x, saved) = Beyond(r, k)
    <2>1. HoldReversal(x, saved) = [t \in X |-> m[t] /\ p[t] \notin {Null, d[t]}]
      BY <1>3, <1>5, <1>7, <1>10, <1>15, <1>16 DEF HoldReversal
    <2>2. r = [t \in DOMAIN rs |-> m[t] /\ p[t] \notin {Null, d[t]}]
      BY DEF HoldReversal, m, p, d
    <2> HIDE DEF r
    <2>3. Beyond(r, k) = [t \in X |-> r[t]]
      BY <1>1, <1>2 DEF Beyond
    <2>4. \A t \in X : r[t] = (m[t] /\ p[t] \notin {Null, d[t]})
      BY <1>5, <2>2
    <2> QED
      BY <2>1, <2>3, <2>4
  <1> HIDE DEF r
  <1>18. \A t \in X : Beyond(r, k)[t] = r[t]
    BY <1>1, <1>2 DEF Beyond
  <1>19. HoldStart(x, saved) = Beyond(HoldStart(rs, seed), k)
    BY <1>1, <1>6, <1>10, <1>17, <1>18 DEF HoldStart, Beyond, r, s
  <1> QED
    BY <1>7, <1>14, <1>17, <1>19 DEF e, m, r

-----------------------------------------------------------------------------
(* The runs of a streak. *)

\* Runs count up; a reversal starts one; in a run that goes on the row before is valid and
\* has the same direction, or none yet, and then nothing has moved in the run.
Runs(w, rs, resets) ==
    /\ \A t \in DOMAIN rs :
          /\ w.direction[t] \in {0 - 1, 0, 1, Null}
          /\ w.moved[t] \in BOOLEAN /\ w.reversal[t] \in BOOLEAN /\ w.run[t] \in Nat
    /\ \A u, t \in DOMAIN rs : u <= t => w.run[u] <= w.run[t]
    /\ \A u, t \in DOMAIN rs : u < t /\ w.reversal[t] => w.run[u] < w.run[t]
    /\ \A u, v \in DOMAIN rs :
          u < v /\ (\A x \in DOMAIN rs : x < v => x <= u) /\ Checkpoint!Valid(rs[v]) /\ w.run[u] = w.run[v] =>
              /\ Checkpoint!Valid(rs[u])
              /\ w.direction[u] = w.direction[v] \/ (~ resets /\ w.direction[u] = Null)
    /\ ~ resets => \A u, t \in DOMAIN rs :
          u <= t /\ w.direction[t] = Null /\ w.run[u] = w.run[t] => ~ w.moved[u] /\ ~ w.reversal[u]

\* Between two rows of one number nothing starts.
LEMMA NoStartWithin ==
    ASSUME NEW f, Bounded(DOMAIN f), NEW u \in DOMAIN f, NEW t \in DOMAIN f, u <= t,
           Checkpoint!Numbered(f)[u] = Checkpoint!Numbered(f)[t]
    PROVE  \A v \in DOMAIN f : u < v /\ v <= t => ~ f[v]
  <1> SUFFICES ASSUME NEW v \in DOMAIN f, u < v, v <= t, f[v] PROVE FALSE
    OBVIOUS
  <1>1. u \in Nat /\ v \in Nat /\ t \in Nat
    BY DEF Bounded
  <1>2. Starts(f, u) = Starts(f, t) /\ Starts(f, u) < Starts(f, v) /\ Starts(f, v) <= Starts(f, t)
    BY <1>1, NumberedIs
  <1>3. Starts(f, u) \in Nat /\ Starts(f, v) \in Nat /\ Starts(f, t) \in Nat
    BY <1>1, NumberedIs
  <1> QED
    BY <1>2, <1>3

LEMMA NumbersCountUp ==
    ASSUME NEW f, Bounded(DOMAIN f)
    PROVE  /\ \A t \in DOMAIN f : Checkpoint!Numbered(f)[t] \in Nat
           /\ \A u, t \in DOMAIN f : u <= t => Checkpoint!Numbered(f)[u] <= Checkpoint!Numbered(f)[t]
           /\ \A u, t \in DOMAIN f : u < t /\ f[t] => Checkpoint!Numbered(f)[u] < Checkpoint!Numbered(f)[t]
  <1>1. DOMAIN f \in SUBSET Nat
    BY DEF Bounded
  <1> QED
    BY <1>1, NumberedIs

LEMMA ResettingRuns ==
    ASSUME Null \notin Int, NEW rs, StreakRows(rs), NEW seed, Number(seed.value)
    PROVE  Runs(Checkpoint!ResettingState(rs, seed), rs, TRUE)
  <1> DEFINE w == Checkpoint!ResettingState(rs, seed)
             D == DOMAIN rs
             d == Checkpoint!Directions(rs, seed)
             p == ResetPrevious(rs, seed)
             s == ResetStart(rs, seed)
             r == ResetReversal(rs, seed)
  <1>1. w.direction = d /\ w.moved = Moving(rs) /\ w.reversal = r /\ w.run = Checkpoint!Numbered(s)
    BY ResettingIs
  <1>2. Bounded(D) /\ DOMAIN s = D /\ DOMAIN d = D
    BY DirectionsAre DEF StreakRows, ResetStart
  <1>3. /\ \A t \in D : Checkpoint!Numbered(s)[t] \in Nat
        /\ \A u, t \in D : u <= t => Checkpoint!Numbered(s)[u] <= Checkpoint!Numbered(s)[t]
        /\ \A u, t \in D : u < t /\ s[t] => Checkpoint!Numbered(s)[u] < Checkpoint!Numbered(s)[t]
    BY <1>2, NumbersCountUp
  <1>4. ASSUME NEW t \in D
        PROVE  /\ s[t] = (Checkpoint!Valid(rs[t]) /\ (d[t] # p[t] \/ d[t] \in {Null, 0}))
               /\ r[t] = (Checkpoint!Valid(rs[t]) /\ d[t] # p[t] /\ {d[t], p[t]} \cap {Null, 0} = {})
               /\ Moving(rs)[t] = Checkpoint!Valid(rs[t])
    BY DEF ResetStart, ResetReversal, Moving
  <1>5. \A t \in D : d[t] \in {0 - 1, 0, 1, Null}
    BY DirectionsType
  <1>6. ASSUME NEW u \in D, NEW v \in D, u < v, \A x \in D : x < v => x <= u, Checkpoint!Valid(rs[v]),
               w.run[u] = w.run[v]
        PROVE  Checkpoint!Valid(rs[u]) /\ d[u] = d[v]
    <2>1. ~ s[v]
      BY <1>1, <1>2, <1>3, <1>6 DEF Bounded
    <2>2. d[v] = p[v] /\ d[v] # Null
      BY <1>4, <1>6, <2>1
    <2>3. p[v] = d[u]
      BY <1>2, <1>6, ShiftedIs DEF ResetPrevious
    <2>4. Checkpoint!Shifted(Values(rs), seed.value)[v] # Null
      BY <2>2, DirectionsType
    <2>5. Checkpoint!Shifted(Values(rs), seed.value)[v] = rs[u].value
      <3>1. DOMAIN Values(rs) = D /\ Values(rs)[u] = rs[u].value
        BY DEF Values
      <3> QED
        BY <1>2, <1>6, <3>1, ShiftedIs
    <2> QED
      BY <2>2, <2>3, <2>4, <2>5 DEF Checkpoint!Valid
  <1> HIDE DEF d, p, s, r, w
  <1>7. \A t \in D : Checkpoint!Valid(rs[t]) \in BOOLEAN
    BY DEF Checkpoint!Valid
  <1>8. /\ \A t \in D : w.direction[t] \in {0 - 1, 0, 1, Null} /\ w.moved[t] \in BOOLEAN
                        /\ w.reversal[t] \in BOOLEAN /\ w.run[t] \in Nat
        /\ \A u, t \in D : u <= t => w.run[u] <= w.run[t]
    BY <1>1, <1>3, <1>4, <1>5, <1>7
  <1>9. \A u, t \in D : u < t /\ w.reversal[t] => w.run[u] < w.run[t]
    BY <1>1, <1>3, <1>4
  <1> QED
    BY <1>1, <1>6, <1>8, <1>9 DEF Runs, w

LEMMA HoldingRuns ==
    ASSUME Null \notin Int, NEW rs, StreakRows(rs), NEW seed, Number(seed.value), seed.direction = Null
    PROVE  Runs(Checkpoint!HoldingState(rs, seed), rs, FALSE)
  <1> DEFINE w == Checkpoint!HoldingState(rs, seed)
             D == DOMAIN rs
             d == Checkpoint!Directions(rs, seed)
             g == HoldGap(rs, seed)
             z == BlockBegins(rs, seed)
             b == HoldBlock(rs, seed)
             m == HoldMoved(rs, seed)
             e == Effective(rs, seed)
             p == HoldPrevious(rs, seed)
             r == HoldReversal(rs, seed)
             s == HoldStart(rs, seed)
             to(t) == MovesTo(rs, seed, t)
  <1>1. w.direction = e /\ w.moved = m /\ w.reversal = r /\ w.run = Checkpoint!Numbered(s)
    BY HoldingIs
  <1>2. /\ Bounded(D) /\ DOMAIN d = D /\ DOMAIN g = D /\ DOMAIN z = D /\ DOMAIN b = D /\ DOMAIN m = D
        /\ DOMAIN e = D /\ DOMAIN p = D /\ DOMAIN r = D /\ DOMAIN s = D
    BY HoldDomains DEF StreakRows
  <1>3. /\ \A t \in D : Checkpoint!Numbered(s)[t] \in Nat
        /\ \A u, t \in D : u <= t => Checkpoint!Numbered(s)[u] <= Checkpoint!Numbered(s)[t]
        /\ \A u, t \in D : u < t /\ s[t] => Checkpoint!Numbered(s)[u] < Checkpoint!Numbered(s)[t]
    BY <1>2, NumbersCountUp
  <1>4. ASSUME NEW t \in D
        PROVE  /\ z[t] = (Checkpoint!Valid(rs[t]) /\ g[t] = Null)
               /\ m[t] = (d[t] \notin {Null, 0})
               /\ r[t] = (m[t] /\ p[t] \notin {Null, d[t]})
               /\ s[t] = (z[t] \/ r[t])
               /\ to(t) = {u \in D : u <= t /\ m[u] /\ b[u] = b[t]}
               /\ e[t] = IF to(t) # {} THEN d[Max(to(t))] ELSE Null
    <2>1. e[t] = IF to(t) # {} THEN d[Max(to(t))] ELSE IF b[t] = 0 THEN seed.direction ELSE Null
      BY DEF Effective
    <2>2. to(t) = {u \in D : u <= t /\ m[u] /\ b[u] = b[t]}
      BY DEF MovesTo
    <2>3. m[t] = (d[t] \notin {Null, 0}) /\ z[t] = (Checkpoint!Valid(rs[t]) /\ g[t] = Null)
      BY DEF HoldMoved, BlockBegins
    <2>4. r[t] = (m[t] /\ p[t] \notin {Null, d[t]}) /\ s[t] = (z[t] \/ r[t])
      BY DEF HoldReversal, HoldStart
    <2> HIDE DEF e, to, m, z, r, s
    <2> QED
      BY <2>1, <2>2, <2>3, <2>4
  <1>5. \A t \in D : d[t] \in {0 - 1, 0, 1, Null}
    BY DirectionsType
  <1>6. ASSUME NEW u \in D, NEW t \in D, u <= t, w.run[u] = w.run[t] PROVE b[u] = b[t]
    <2>1. \A v \in D : u < v /\ v <= t => ~ s[v]
      BY <1>1, <1>2, <1>6, NoStartWithin
    <2> HIDE DEF s, z, r, b, w
    <2>2. \A v \in D : u < v /\ v <= t => ~ z[v]
      BY <1>4, <2>1
    <2>3. Starts(z, u) = Starts(z, t)
      BY <1>2, <1>6, <2>2, NumberedIs DEF Bounded
    <2> QED
      BY <1>2, <2>3, NumberedIs DEF b, z, HoldBlock
  <1>7. ASSUME NEW v \in D, NEW u \in D, u < v, \A x \in D : x < v => x <= u
        PROVE  p[v] = e[u] /\ g[v] = rs[u].value
    <2>1. DOMAIN Values(rs) = D /\ Values(rs)[u] = rs[u].value
      BY DEF Values
    <2> QED
      BY <1>2, <1>7, <2>1, ShiftedIs DEF HoldPrevious, HoldGap
  <1> HIDE DEF d, g, z, b, m, e, p, r, s, w, to
  <1>8. ASSUME NEW t \in D, to(t) # {}
        PROVE  /\ Max(to(t)) \in to(t) /\ \A u \in to(t) : u <= Max(to(t))
               /\ e[t] = d[Max(to(t))] /\ e[t] \notin {Null, 0}
    <2>1. to(t) \in SUBSET D
      BY <1>4
    <2>2. Max(to(t)) \in to(t) /\ \A u \in to(t) : u <= Max(to(t))
      BY <1>2, <1>8, <2>1, MaxOfSessions, BoundedSubset
    <2>3. Max(to(t)) \in D /\ m[Max(to(t))]
      BY <1>4, <2>2
    <2> QED
      BY <1>4, <1>8, <2>2, <2>3
  <1>9. ASSUME NEW u \in D, NEW v \in D, u < v, \A x \in D : x < v => x <= u, Checkpoint!Valid(rs[v]),
               w.run[u] = w.run[v]
        PROVE  Checkpoint!Valid(rs[u]) /\ (e[u] = e[v] \/ e[u] = Null)
    <2>0. D \in SUBSET Nat
      BY <1>2 DEF Bounded
    <2>1. ~ s[v]
      BY <1>1, <1>3, <1>9, <2>0
    <2>2. g[v] # Null /\ ~ r[v]
      BY <1>4, <1>9, <2>1
    <2>3. Checkpoint!Valid(rs[u])
      BY <1>7, <1>9, <2>2 DEF Checkpoint!Valid
    <2>4. CASE m[v]
      <3>1. e[u] \in {Null, d[v]}
        BY <1>4, <1>7, <1>9, <2>2, <2>4
      <3>2. v \in to(v)
        BY <1>4, <2>0, <2>4
      <3>3. Max(to(v)) = v
        <4>1. to(v) \in SUBSET D /\ \A x \in to(v) : x <= v
          BY <1>4
        <4> QED
          BY <1>2, <3>2, <4>1, MaxIs, BoundedSubset
      <3> QED
        BY <1>8, <2>3, <3>1, <3>2, <3>3
    <2>5. CASE ~ m[v]
      <3>1. b[u] = b[v]
        BY <1>6, <1>9, <2>0
      <3>2. to(u) = to(v)
        <4>1. \A x \in D : x <= v /\ m[x] <=> x <= u /\ m[x]
          BY <1>9, <2>0, <2>5
        <4>2. to(u) = {x \in D : x <= u /\ m[x] /\ b[x] = b[v]} /\ to(v) = {x \in D : x <= v /\ m[x] /\ b[x] = b[v]}
          BY <1>4, <3>1
        <4> QED
          BY <4>1, <4>2
      <3>3. e[u] = e[v]
        BY <1>4, <3>2
      <3> QED
        BY <2>3, <3>3
    <2> QED
      BY <2>4, <2>5
  <1>10. ASSUME NEW u \in D, NEW t \in D, u <= t, e[t] = Null, w.run[u] = w.run[t]
         PROVE  ~ m[u] /\ ~ r[u]
    <2>1. b[u] = b[t]
      BY <1>6, <1>10
    <2>2. to(t) = {}
      BY <1>8, <1>10
    <2>3. ~ m[u]
      BY <1>4, <1>10, <2>1, <2>2
    <2> QED
      BY <1>4, <2>3
  <1>11. \A t \in D : e[t] \in {0 - 1, 0, 1, Null}
    <2> SUFFICES ASSUME NEW t \in D PROVE e[t] \in {0 - 1, 0, 1, Null}
      OBVIOUS
    <2>1. CASE to(t) = {}
      BY <1>4, <2>1
    <2>2. CASE to(t) # {}
      <3>1. Max(to(t)) \in D
        BY <1>4, <1>8, <2>2
      <3> QED
        BY <1>5, <1>8, <2>2, <3>1
    <2> QED
      BY <2>1, <2>2
  <1>12. \A t \in D : m[t] \in BOOLEAN /\ r[t] \in BOOLEAN
    BY <1>4
  <1>13. \A u, t \in D : u < t /\ r[t] => Checkpoint!Numbered(s)[u] < Checkpoint!Numbered(s)[t]
    BY <1>3, <1>4
  <1> QED
    BY <1>1, <1>3, <1>9, <1>10, <1>11, <1>12, <1>13 DEF Runs, w

-----------------------------------------------------------------------------
(* The counts of a streak, over the rows before and behind a session. *)

\* What the table of all rows says of the rows before, and of those behind.
Agree(w, p, t) ==
    p.direction[t] = w.direction[t] /\ p.moved[t] = w.moved[t] /\ p.reversal[t] = w.reversal[t]
Before(w, p, rs, k) == \A t \in DOMAIN rs : t <= k => Agree(w, p, t) /\ p.run[t] = w.run[t]
Behind(w, q, rs, k, base) ==
    \A t \in DOMAIN rs : t > k => Agree(w, q, t) /\ q.run[t] \in Nat /\ w.run[t] = base + q.run[t]

SameRun(w, rs, t) == {u \in DOMAIN rs : u <= t /\ w.run[u] = w.run[t]}
Position(w, rs, t) == Cardinality({u \in SameRun(w, rs, t) : w.moved[u]})
Reversed(w, rs, t) == \E u \in SameRun(w, rs, t) : w.reversal[u]
Carried(w, seed, t) == IF w.run[t] = 0 /\ seed.count # Null THEN seed.count ELSE 0
Unmoved(resets) == IF resets THEN {Null, 0} ELSE {Null}
Count(direction, position, reversed) == direction * (position - (IF reversed THEN 1 ELSE 0))

\* A reversal starts its run, so none stands behind a row in the run of the row.
LEMMA CountsAre ==
    ASSUME NEW rs, Bounded(DOMAIN rs), NEW w, NEW resets, Runs(w, rs, resets), NEW seed, NEW t \in DOMAIN rs
    PROVE  Checkpoint!Counts(rs, w, seed, resets)[t] =
             IF ~ Checkpoint!Valid(rs[t]) THEN Null
             ELSE IF w.direction[t] \in Unmoved(resets) THEN 0
             ELSE Count(w.direction[t], Position(w, rs, t), Reversed(w, rs, t)) + Carried(w, seed, t)
  <1> DEFINE D == DOMAIN rs
             same == {u \in D : w.run[u] = w.run[t]}
             moved == {u \in same : u <= t /\ w.moved[u]}
  <1>1. moved = {u \in SameRun(w, rs, t) : w.moved[u]}
    BY DEF SameRun
  <1>2. (\E u \in same : w.reversal[u]) <=> Reversed(w, rs, t)
    <2>1. ASSUME NEW u \in same, w.reversal[u] PROVE u <= t
      <3>1. u \in Nat /\ t \in Nat
        BY DEF Bounded
      <3>2. t < u => w.run[t] < w.run[u]
        BY <2>1 DEF Runs
      <3>3. w.run[t] \in Nat /\ w.run[u] = w.run[t]
        BY DEF Runs
      <3> QED
        BY <3>1, <3>2, <3>3
    <2> QED
      BY <2>1 DEF Reversed, SameRun
  <1>3. Checkpoint!Counts(rs, w, seed, resets)[t] =
          IF ~ Checkpoint!Valid(rs[t]) THEN Null
          ELSE IF w.direction[t] \in Unmoved(resets) THEN 0
          ELSE w.direction[t] * (Cardinality(moved) - (IF \E u \in same : w.reversal[u] THEN 1 ELSE 0))
                 + Carried(w, seed, t)
    BY KernelCounts DEF Checkpoint!Counts, Carried, Unmoved
  <1> HIDE DEF same, moved
  <1> QED
    BY <1>1, <1>2, <1>3 DEF Position, Count

LEMMA CountDomain ==
    ASSUME NEW rs, NEW w, NEW seed, NEW resets
    PROVE  DOMAIN Checkpoint!Counts(rs, w, seed, resets) = DOMAIN rs
  BY DEF Checkpoint!Counts

\* In a run that goes on every row is valid, and in the direction it has now or in none yet.
LEMMA RunGoesOn ==
    ASSUME NEW rs, Bounded(DOMAIN rs), NEW w, NEW resets, Runs(w, rs, resets),
           NEW m \in DOMAIN rs, NEW t \in DOMAIN rs, m <= t, w.run[m] = w.run[t], Checkpoint!Valid(rs[t])
    PROVE  /\ Checkpoint!Valid(rs[m])
           /\ w.direction[m] = w.direction[t] \/ (~ resets /\ w.direction[m] = Null)
  <1> DEFINE D == DOMAIN rs
             P(u) == /\ Checkpoint!Valid(rs[u])
                     /\ w.direction[u] = w.direction[t] \/ (~ resets /\ w.direction[u] = Null)
             bad == {u \in D : m <= u /\ u <= t /\ ~ P(u)}
  <1>0. D \in SUBSET Nat
    BY DEF Bounded
  <1>1. SUFFICES ASSUME bad # {} PROVE FALSE
    BY <1>0
  <1> DEFINE x == Max(bad)
  <1>2. x \in bad /\ \A u \in bad : u <= x
    <2>1. Bounded(bad)
      BY BoundedSubset
    <2> HIDE DEF bad
    <2> QED
      BY <1>1, <2>1, MaxOfSessions
  <1>3. P(t)
    OBVIOUS
  <1> HIDE DEF x
  <1>4. x \in D /\ m <= x /\ x < t /\ ~ P(x)
    BY <1>0, <1>2, <1>3
  <1>5. PICK v \in {y \in D : x < y} : \A y \in {y \in D : x < y} : v <= y
    <2>1. {y \in D : x < y} \in SUBSET Nat /\ {y \in D : x < y} # {}
      BY <1>0, <1>4
    <2> QED
      BY <2>1, LeastNatural
  <1>6. v \in D /\ x < v /\ v <= t /\ \A y \in D : y < v => y <= x
    BY <1>0, <1>4, <1>5
  <1>7. P(v)
    BY <1>0, <1>2, <1>4, <1>6
  <1>8. w.run[x] = w.run[v]
    <2>1. w.run[m] <= w.run[x] /\ w.run[x] <= w.run[v] /\ w.run[v] <= w.run[t]
      BY <1>0, <1>4, <1>6 DEF Runs
    <2>2. w.run[m] \in Nat /\ w.run[x] \in Nat /\ w.run[v] \in Nat
      BY <1>4, <1>6 DEF Runs
    <2> QED
      BY <2>1, <2>2
  <1>9. /\ Checkpoint!Valid(rs[x])
        /\ w.direction[x] = w.direction[v] \/ (~ resets /\ w.direction[x] = Null)
    BY <1>4, <1>6, <1>7, <1>8 DEF Runs
  <1> QED
    BY <1>4, <1>7, <1>9

LEMMA CountsUpto ==
    ASSUME NEW rs, Bounded(DOMAIN rs), NEW k \in Nat, NEW w, NEW p, NEW resets,
           Runs(w, rs, resets), Runs(p, Upto(rs, k), resets), Before(w, p, rs, k), NEW seed
    PROVE  Checkpoint!Counts(Upto(rs, k), p, seed, resets) = Upto(Checkpoint!Counts(rs, w, seed, resets), k)
  <1> DEFINE x == Upto(rs, k)
             c == Checkpoint!Counts(x, p, seed, resets)
             a == Checkpoint!Counts(rs, w, seed, resets)
  <1>1. /\ DOMAIN x = {t \in DOMAIN rs : t <= k} /\ (\A t \in DOMAIN x : x[t] = rs[t])
        /\ DOMAIN rs \in SUBSET Nat /\ Bounded(DOMAIN x)
    <2>1. DOMAIN x = {t \in DOMAIN rs : t <= k} /\ \A t \in DOMAIN x : x[t] = rs[t]
      BY DEF Upto
    <2> HIDE DEF x
    <2>2. DOMAIN x \in SUBSET DOMAIN rs
      BY <2>1
    <2> QED
      BY <2>1, <2>2, BoundedSubset DEF Bounded
  <1> HIDE DEF x
  <1>2. ASSUME NEW t \in DOMAIN x PROVE c[t] = a[t]
    <2>1. t \in DOMAIN rs /\ x[t] = rs[t]
      BY <1>1
    <2>2. SameRun(p, x, t) = SameRun(w, rs, t)
      BY <1>1 DEF SameRun, Before
    <2>3. \A u \in SameRun(w, rs, t) : p.moved[u] = w.moved[u] /\ p.reversal[u] = w.reversal[u]
      BY <1>1 DEF SameRun, Before, Agree
    <2>4. p.direction[t] = w.direction[t] /\ p.run[t] = w.run[t]
      BY <1>1 DEF Before, Agree
    <2>5. Position(p, x, t) = Position(w, rs, t)
      <3>1. {u \in SameRun(p, x, t) : p.moved[u]} = {u \in SameRun(w, rs, t) : w.moved[u]}
        BY <2>2, <2>3
      <3> QED
        BY <3>1 DEF Position
    <2>6. Reversed(p, x, t) <=> Reversed(w, rs, t)
      BY <2>2, <2>3 DEF Reversed
    <2>7. c[t] = IF ~ Checkpoint!Valid(rs[t]) THEN Null
                 ELSE IF w.direction[t] \in Unmoved(resets) THEN 0
                 ELSE Count(w.direction[t], Position(p, x, t), Reversed(p, x, t)) + Carried(p, seed, t)
      BY <1>1, <2>1, <2>4, CountsAre DEF x
    <2>8. a[t] = IF ~ Checkpoint!Valid(rs[t]) THEN Null
                 ELSE IF w.direction[t] \in Unmoved(resets) THEN 0
                 ELSE Count(w.direction[t], Position(w, rs, t), Reversed(w, rs, t)) + Carried(w, seed, t)
      BY <2>1, CountsAre
    <2> HIDE DEF c, a
    <2>9. Carried(p, seed, t) = Carried(w, seed, t)
      BY <2>4 DEF Carried
    <2>10. Count(w.direction[t], Position(p, x, t), Reversed(p, x, t))
           = Count(w.direction[t], Position(w, rs, t), Reversed(w, rs, t))
      BY <2>5, <2>6 DEF Count
    <2> QED
      BY <2>7, <2>8, <2>9, <2>10
  <1>3. DOMAIN c = DOMAIN x /\ DOMAIN a = DOMAIN rs /\ c = [t \in DOMAIN x |-> c[t]]
    BY DEF Checkpoint!Counts
  <1> HIDE DEF c, a
  <1>4. Upto(a, k) = [t \in DOMAIN x |-> a[t]]
    BY <1>1, <1>3 DEF Upto
  <1> QED
    BY <1>2, <1>3, <1>4 DEF c, a, x

LEMMA CountSum ==
    ASSUME NEW d \in {0 - 1, 0, 1}, NEW x \in Int, NEW y \in Int, NEW z \in Int
    PROVE  d * ((x + y) - z) = d * y + d * (x - z)
  <1>1. CASE d = 0 - 1
    BY <1>1
  <1>2. CASE d = 0
    BY <1>2
  <1>3. CASE d = 1
    BY <1>3
  <1> QED
    BY <1>1, <1>2, <1>3

\* The rows behind count on from the count of the last row before.
LEMMA CountsBeyond ==
    ASSUME Null \notin Int, NEW rs, Bounded(DOMAIN rs), NEW k \in Nat, NEW w, NEW q,
           NEW resets \in BOOLEAN, Runs(w, rs, resets), Runs(q, Beyond(rs, k), resets),
           NEW seed, seed.count = Null, NEW saved,
           NEW m \in DOMAIN rs, m <= k, \A t \in DOMAIN rs : t <= k => t <= m,
           Behind(w, q, rs, k, w.run[m]),
           saved.count = Checkpoint!Counts(rs, w, seed, resets)[m]
    PROVE  Checkpoint!Counts(Beyond(rs, k), q, saved, resets) = Beyond(Checkpoint!Counts(rs, w, seed, resets), k)
  <1> DEFINE x == Beyond(rs, k)
             c == Checkpoint!Counts(x, q, saved, resets)
             a == Checkpoint!Counts(rs, w, seed, resets)
  <1>1. /\ DOMAIN x = {t \in DOMAIN rs : t > k} /\ (\A t \in DOMAIN x : x[t] = rs[t])
        /\ DOMAIN rs \in SUBSET Nat /\ Bounded(DOMAIN x)
    <2>1. DOMAIN x = {t \in DOMAIN rs : t > k} /\ \A t \in DOMAIN x : x[t] = rs[t]
      BY DEF Beyond
    <2> HIDE DEF x
    <2>2. DOMAIN x \in SUBSET DOMAIN rs
      BY <2>1
    <2> QED
      BY <2>1, <2>2, BoundedSubset DEF Bounded
  <1> HIDE DEF x
  <1>0. IsFiniteSet(DOMAIN rs)
    BY BoundedIsFinite
  <1>2. ASSUME NEW t \in DOMAIN x PROVE c[t] = a[t]
    <2>1. t \in DOMAIN rs /\ x[t] = rs[t] /\ t > k /\ m < t /\ t \in Nat /\ m \in Nat
      BY <1>1
    <2>2. Agree(w, q, t) /\ q.run[t] \in Nat /\ w.run[t] = w.run[m] + q.run[t] /\ w.run[m] \in Nat
      BY <2>1 DEF Behind, Runs
    <2>3. c[t] = IF ~ Checkpoint!Valid(rs[t]) THEN Null
                 ELSE IF w.direction[t] \in Unmoved(resets) THEN 0
                 ELSE Count(w.direction[t], Position(q, x, t), Reversed(q, x, t)) + Carried(q, saved, t)
      BY <1>1, <2>1, <2>2, CountsAre DEF Agree, x
    <2>4. a[t] = IF ~ Checkpoint!Valid(rs[t]) THEN Null
                 ELSE IF w.direction[t] \in Unmoved(resets) THEN 0
                 ELSE Count(w.direction[t], Position(w, rs, t), Reversed(w, rs, t)) + 0
      BY <2>1, CountsAre DEF Carried
    <2> DEFINE R == {u \in DOMAIN x : u <= t /\ w.run[u] = w.run[t]}
    <2>5. SameRun(q, x, t) = R
      <3>1. \A u \in DOMAIN x : q.run[u] = q.run[t] <=> w.run[u] = w.run[t]
        BY <1>1, <2>2 DEF Behind
      <3> QED
        BY <3>1 DEF SameRun
    <2>6. \A u \in R : q.moved[u] = w.moved[u] /\ q.reversal[u] = w.reversal[u]
      BY <1>1 DEF Behind, Agree
    <2>7. CASE ~ Checkpoint!Valid(rs[t]) \/ w.direction[t] \in Unmoved(resets)
      BY <2>3, <2>4, <2>7
    <2>8. CASE Checkpoint!Valid(rs[t]) /\ w.direction[t] \notin Unmoved(resets) /\ q.run[t] # 0
      <3>1. SameRun(w, rs, t) = R
        <4>1. ASSUME NEW u \in DOMAIN rs, u <= k PROVE w.run[u] # w.run[t]
          <5>1. w.run[u] <= w.run[m] /\ w.run[u] \in Nat
            BY <4>1 DEF Runs
          <5> QED
            BY <2>2, <2>8, <5>1
        <4> QED
          BY <1>1, <4>1 DEF SameRun
      <3>2. Position(q, x, t) = Position(w, rs, t)
        <4>1. {u \in SameRun(q, x, t) : q.moved[u]} = {u \in SameRun(w, rs, t) : w.moved[u]}
          BY <2>5, <2>6, <3>1
        <4> QED
          BY <4>1 DEF Position
      <3>3. Reversed(q, x, t) <=> Reversed(w, rs, t)
        BY <2>5, <2>6, <3>1 DEF Reversed
      <3>4. Carried(q, saved, t) = 0
        BY <2>8 DEF Carried
      <3> HIDE DEF c, a
      <3>5. Count(w.direction[t], Position(q, x, t), Reversed(q, x, t))
            = Count(w.direction[t], Position(w, rs, t), Reversed(w, rs, t))
        BY <3>2, <3>3 DEF Count
      <3> QED
        BY <2>3, <2>4, <2>8, <3>4, <3>5
    <2>9. CASE Checkpoint!Valid(rs[t]) /\ w.direction[t] \notin Unmoved(resets) /\ q.run[t] = 0
      <3>1. w.run[m] = w.run[t]
        BY <2>2, <2>9
      <3>2. /\ Checkpoint!Valid(rs[m])
            /\ w.direction[m] = w.direction[t] \/ (~ resets /\ w.direction[m] = Null)
        BY <2>1, <2>9, <3>1, RunGoesOn
      <3> DEFINE S == SameRun(w, rs, m)
      <3>3. SameRun(w, rs, t) = S \cup R /\ S \cap R = {}
        BY <1>1, <2>1, <3>1 DEF SameRun
      <3> DEFINE Sm == {u \in S : w.moved[u]}
                 Rm == {u \in R : w.moved[u]}
                 y == Cardinality(Sm)
                 z == Cardinality(Rm)
      <3>4. Position(w, rs, t) = y + z /\ y \in Nat /\ z \in Nat
        <4>1. {u \in SameRun(w, rs, t) : w.moved[u]} = Sm \cup Rm /\ Sm \cap Rm = {}
          BY <3>3
        <4>2. IsFiniteSet(Sm) /\ IsFiniteSet(Rm)
          <5>1. Sm \in SUBSET DOMAIN rs /\ Rm \in SUBSET DOMAIN rs
            BY <1>1 DEF SameRun
          <5> QED
            BY <1>0, <5>1, FS_Subset
        <4> HIDE DEF Sm, Rm
        <4>3. Cardinality(Sm \cup Rm) = Cardinality(Sm) + Cardinality(Rm) - Cardinality({})
          BY <4>1, <4>2, FS_Union
        <4>4. Cardinality({}) = 0 /\ Cardinality(Sm) \in Nat /\ Cardinality(Rm) \in Nat
          BY <4>2, FS_EmptySet, FS_CardinalityType
        <4>5. Position(w, rs, t) = Cardinality(Sm \cup Rm)
          BY <4>1 DEF Position
        <4>6. Cardinality(Sm \cup Rm) = Cardinality(Sm) + Cardinality(Rm)
          BY <4>1, <4>3, <4>4
        <4> QED
          BY <4>4, <4>5, <4>6
      <3>5. Position(w, rs, m) = y
        BY DEF Position
      <3>6. Position(q, x, t) = z
        <4>1. {u \in SameRun(q, x, t) : q.moved[u]} = Rm
          BY <2>5, <2>6
        <4> QED
          BY <4>1 DEF Position
      <3> HIDE DEF y, z
      <3>7. ~ Reversed(q, x, t) /\ (Reversed(w, rs, t) <=> Reversed(w, rs, m))
        <4>1. ASSUME NEW u \in R PROVE ~ w.reversal[u]
          <5>1. u \in DOMAIN rs /\ m < u /\ w.run[u] = w.run[m]
            BY <1>1, <3>1
          <5>2. w.run[m] \in Nat
            BY DEF Runs
          <5> QED
            BY <5>1, <5>2 DEF Runs
        <4> HIDE DEF R
        <4> QED
          BY <2>5, <2>6, <3>3, <4>1 DEF Reversed
      <3> DEFINE o == IF Reversed(w, rs, m) THEN 1 ELSE 0
      <3>8. w.direction[t] \in {0 - 1, 0, 1}
        BY <2>1, <2>9 DEF Runs, Unmoved
      <3>9. saved.count = IF w.direction[m] \in Unmoved(resets) THEN 0 ELSE w.direction[m] * (y - o)
        <4>1. saved.count = IF ~ Checkpoint!Valid(rs[m]) THEN Null
                            ELSE IF w.direction[m] \in Unmoved(resets) THEN 0
                            ELSE Count(w.direction[m], Position(w, rs, m), Reversed(w, rs, m)) + 0
          BY CountsAre DEF Carried
        <4>2. CASE w.direction[m] \in Unmoved(resets)
          BY <3>2, <4>1, <4>2
        <4>3. CASE w.direction[m] \notin Unmoved(resets)
          <5>1. w.direction[m] \in Int
            BY <3>2, <3>8, <4>3 DEF Unmoved
          <5>2. saved.count = w.direction[m] * (y - o) + 0
            BY <3>2, <3>5, <4>1, <4>3 DEF Count
          <5>3. w.direction[m] * (y - o) \in Int
            BY <3>4, <5>1
          <5> QED
            BY <4>3, <5>2, <5>3
        <4> QED
          BY <4>2, <4>3
      <3>10. saved.count = w.direction[t] * (y - o)
        <4>1. CASE w.direction[m] = w.direction[t]
          BY <2>9, <3>9, <4>1
        <4>2. CASE w.direction[m] # w.direction[t]
          <5>1. ~ resets /\ w.direction[m] = Null
            BY <3>2, <4>2
          <5>2. \A u \in S : ~ w.moved[u] /\ ~ w.reversal[u]
            BY <5>1 DEF Runs, SameRun
          <5>3. y = 0
            <6>1. Sm = {}
              BY <5>2
            <6> HIDE DEF Sm
            <6> QED
              BY <6>1, FS_EmptySet DEF y
          <5>4. o = 0
            BY <5>2 DEF Reversed
          <5>5. saved.count = 0
            BY <3>9, <5>1 DEF Unmoved
          <5> QED
            BY <3>8, <5>3, <5>4, <5>5
        <4> QED
          BY <4>1, <4>2
      <3> HIDE DEF o
      <3>0. o \in {0, 1}
        BY DEF o
      <3>11. saved.count \in Int
        BY <3>0, <3>4, <3>8, <3>10
      <3>12. Carried(q, saved, t) = w.direction[t] * (y - o)
        BY <2>9, <3>10, <3>11 DEF Carried
      <3>13. Count(w.direction[t], Position(q, x, t), Reversed(q, x, t)) = w.direction[t] * z
        BY <3>4, <3>6, <3>7 DEF Count
      <3>14. Count(w.direction[t], Position(w, rs, t), Reversed(w, rs, t)) = w.direction[t] * ((y + z) - o)
        BY <3>4, <3>7 DEF Count, o
      <3>15. w.direction[t] * ((y + z) - o) = w.direction[t] * z + w.direction[t] * (y - o)
        BY <3>0, <3>4, <3>8, CountSum
      <3>16. w.direction[t] * ((y + z) - o) \in Int
        BY <3>0, <3>4, <3>8
      <3> HIDE DEF c, a
      <3> QED
        BY <2>3, <2>4, <2>9, <3>12, <3>13, <3>14, <3>15, <3>16
    <2> QED
      BY <2>7, <2>8, <2>9
  <1>3. DOMAIN c = DOMAIN x /\ DOMAIN a = DOMAIN rs /\ c = [t \in DOMAIN x |-> c[t]]
    BY DEF Checkpoint!Counts
  <1> HIDE DEF c, a
  <1>4. Beyond(a, k) = [t \in DOMAIN x |-> a[t]]
    BY <1>1, <1>3 DEF Beyond
  <1> QED
    BY <1>2, <1>3, <1>4 DEF c, a, x

-----------------------------------------------------------------------------
(* The table of the rows before and behind, in that of all. *)

LEMMA StartsOfLast ==
    ASSUME NEW f, Bounded(DOMAIN f), NEW k \in Nat, NEW m \in DOMAIN f, m <= k, \A t \in DOMAIN f : t <= k => t <= m
    PROVE  Starts(f, k) = Checkpoint!Numbered(f)[m]
  <1>1. m \in Nat /\ \A u \in DOMAIN f : u \in Nat
    BY DEF Bounded
  <1>2. \A u \in DOMAIN f : m < u /\ u <= k => ~ f[u]
    BY <1>1
  <1>3. Starts(f, m) = Starts(f, k)
    BY <1>1, <1>2, NumberedIs
  <1> QED
    BY <1>3, NumberedIs

LEMMA RunsBehind ==
    ASSUME NEW rs, Bounded(DOMAIN rs), NEW k \in Nat, NEW w, NEW q, NEW resets, NEW base \in Nat,
           Runs(w, rs, resets), Behind(w, q, rs, k, base)
    PROVE  Runs(q, Beyond(rs, k), resets)
  <1> DEFINE x == Beyond(rs, k)
  <1>1. /\ DOMAIN x = {t \in DOMAIN rs : t > k} /\ (\A t \in DOMAIN x : x[t] = rs[t])
        /\ DOMAIN rs \in SUBSET Nat
    BY DEF Beyond, Bounded
  <1> HIDE DEF x
  <1>2. \A t \in DOMAIN x : /\ t \in DOMAIN rs /\ t \in Nat /\ Agree(w, q, t) /\ q.run[t] \in Nat
                            /\ w.run[t] = base + q.run[t] /\ (\A y \in DOMAIN rs : y > t => y \in DOMAIN x)
    BY <1>1 DEF Behind
  <1>3. \A u, t \in DOMAIN x : /\ q.run[u] <= q.run[t] <=> w.run[u] <= w.run[t]
                               /\ q.run[u] < q.run[t] <=> w.run[u] < w.run[t]
                               /\ q.run[u] = q.run[t] <=> w.run[u] = w.run[t]
    BY <1>2
  <1>4. \A t \in DOMAIN x :
          /\ q.direction[t] \in {0 - 1, 0, 1, Null}
          /\ q.moved[t] \in BOOLEAN /\ q.reversal[t] \in BOOLEAN /\ q.run[t] \in Nat
    BY <1>2 DEF Runs, Agree
  <1>5. \A u, t \in DOMAIN x : u <= t => q.run[u] <= q.run[t]
    BY <1>2, <1>3 DEF Runs
  <1>6. \A u, t \in DOMAIN x : u < t /\ q.reversal[t] => q.run[u] < q.run[t]
    BY <1>2, <1>3 DEF Runs, Agree
  <1>7. ASSUME NEW u \in DOMAIN x, NEW v \in DOMAIN x,
               u < v, \A y \in DOMAIN x : y < v => y <= u, Checkpoint!Valid(x[v]), q.run[u] = q.run[v]
        PROVE  /\ Checkpoint!Valid(x[u])
               /\ q.direction[u] = q.direction[v] \/ (~ resets /\ q.direction[u] = Null)
    <2>1. \A y \in DOMAIN rs : y < v => y <= u
      BY <1>1, <1>2, <1>7
    <2>2. x[u] = rs[u] /\ x[v] = rs[v] /\ w.run[u] = w.run[v]
      BY <1>1, <1>3, <1>7
    <2>3. /\ Checkpoint!Valid(rs[u])
          /\ w.direction[u] = w.direction[v] \/ (~ resets /\ w.direction[u] = Null)
      BY <1>2, <1>7, <2>1, <2>2 DEF Runs
    <2> QED
      BY <1>2, <2>2, <2>3 DEF Agree
  <1>8. ~ resets => \A u, t \in DOMAIN x :
          u <= t /\ q.direction[t] = Null /\ q.run[u] = q.run[t] => ~ q.moved[u] /\ ~ q.reversal[u]
    BY <1>2, <1>3 DEF Runs, Agree
  <1> QED
    BY <1>4, <1>5, <1>6, <1>7, <1>8 DEF Runs, x

LEMMA BeforeIs ==
    ASSUME NEW rs, NEW k, NEW w, NEW p,
           DOMAIN w.direction = DOMAIN rs, DOMAIN w.moved = DOMAIN rs,
           DOMAIN w.reversal = DOMAIN rs, DOMAIN w.run = DOMAIN rs,
           p.direction = Upto(w.direction, k), p.moved = Upto(w.moved, k),
           p.reversal = Upto(w.reversal, k), p.run = Upto(w.run, k)
    PROVE  Before(w, p, rs, k)
  BY DEF Before, Agree, Upto

LEMMA BehindIs ==
    ASSUME NEW rs, NEW k, NEW w, NEW q, NEW f, Bounded(DOMAIN rs), k \in Nat,
           DOMAIN w.direction = DOMAIN rs, DOMAIN w.moved = DOMAIN rs,
           DOMAIN w.reversal = DOMAIN rs, DOMAIN f = DOMAIN rs, w.run = Checkpoint!Numbered(f),
           q.direction = Beyond(w.direction, k), q.moved = Beyond(w.moved, k),
           q.reversal = Beyond(w.reversal, k), q.run = Checkpoint!Numbered(Beyond(f, k)),
           NEW m \in DOMAIN rs, m <= k, \A t \in DOMAIN rs : t <= k => t <= m
    PROVE  Behind(w, q, rs, k, w.run[m])
  <1>1. w.run[m] = Starts(f, k)
    BY StartsOfLast
  <1>2. DOMAIN Beyond(f, k) = {t \in DOMAIN rs : t > k}
    BY DEF Beyond
  <1>3. \A t \in DOMAIN rs : t > k => q.run[t] \in Nat /\ w.run[t] = w.run[m] + q.run[t]
    BY <1>1, <1>2, NumberedBeyond
  <1>4. \A t \in DOMAIN rs : t > k => Agree(w, q, t)
    BY DEF Agree, Beyond
  <1> QED
    BY <1>3, <1>4 DEF Behind

LEMMA CutRows ==
    ASSUME NEW rs, StreakRows(rs), NEW k \in Nat
    PROVE  /\ StreakRows(Upto(rs, k)) /\ StreakRows(Beyond(rs, k))
           /\ DOMAIN Upto(rs, k) = {t \in DOMAIN rs : t <= k} /\ DOMAIN Beyond(rs, k) = {t \in DOMAIN rs : t > k}
           /\ (\A t \in DOMAIN Upto(rs, k) : Upto(rs, k)[t] = rs[t])
           /\ (\A t \in DOMAIN Beyond(rs, k) : Beyond(rs, k)[t] = rs[t])
  <1> DEFINE p == Upto(rs, k)
             q == Beyond(rs, k)
  <1>1. /\ DOMAIN p = {t \in DOMAIN rs : t <= k} /\ DOMAIN q = {t \in DOMAIN rs : t > k}
        /\ (\A t \in DOMAIN p : p[t] = rs[t]) /\ (\A t \in DOMAIN q : q[t] = rs[t])
    BY DEF Upto, Beyond
  <1> HIDE DEF p, q
  <1>2. DOMAIN p \in SUBSET DOMAIN rs /\ DOMAIN q \in SUBSET DOMAIN rs /\ Bounded(DOMAIN rs)
    BY <1>1 DEF StreakRows
  <1>3. Bounded(DOMAIN p) /\ Bounded(DOMAIN q)
    BY <1>2, BoundedSubset
  <1>4. \A t \in DOMAIN rs : Number(rs[t].value) /\ Number(rs[t].trace)
    BY DEF StreakRows
  <1>5. StreakRows(p) /\ StreakRows(q)
    BY <1>1, <1>2, <1>3, <1>4 DEF StreakRows
  <1> QED
    BY <1>1, <1>5 DEF p, q

\* What a whole-history table satisfies: no seed, or one of no rows.
Fresh(seed) == seed.value = Null /\ seed.direction = Null /\ seed.count = Null

LEMMA StateRuns ==
    ASSUME Null \notin Int, NEW rs, StreakRows(rs), NEW seed, Fresh(seed), NEW resets \in BOOLEAN
    PROVE  Runs(Checkpoint!State(rs, seed, resets), rs, resets)
  <1>1. Number(seed.value) /\ seed.direction = Null
    BY DEF Fresh, Number
  <1>2. CASE resets
    BY <1>1, <1>2, ResettingRuns DEF Checkpoint!State
  <1>3. CASE ~ resets
    BY <1>1, <1>3, HoldingRuns DEF Checkpoint!State
  <1> QED
    BY <1>2, <1>3

LEMMA StateDomains ==
    ASSUME NEW rs, NEW seed, NEW resets \in BOOLEAN
    PROVE  LET w == Checkpoint!State(rs, seed, resets) IN
           /\ DOMAIN w.direction = DOMAIN rs /\ DOMAIN w.moved = DOMAIN rs
           /\ DOMAIN w.reversal = DOMAIN rs /\ DOMAIN w.run = DOMAIN rs
           /\ \E f : DOMAIN f = DOMAIN rs /\ w.run = Checkpoint!Numbered(f)
  <1>1. CASE resets
    <2>1. DOMAIN ResetStart(rs, seed) = DOMAIN rs /\ DOMAIN ResetReversal(rs, seed) = DOMAIN rs
          /\ DOMAIN Moving(rs) = DOMAIN rs /\ DOMAIN Checkpoint!Directions(rs, seed) = DOMAIN rs
      BY HoldDomains DEF ResetStart, ResetReversal, Moving
    <2>2. DOMAIN Checkpoint!Numbered(ResetStart(rs, seed)) = DOMAIN rs
      BY <2>1 DEF Checkpoint!Numbered
    <2> QED
      BY <1>1, <2>1, <2>2, ResettingIs DEF Checkpoint!State
  <1>2. CASE ~ resets
    <2>1. DOMAIN Checkpoint!Numbered(HoldStart(rs, seed)) = DOMAIN HoldStart(rs, seed)
      BY DEF Checkpoint!Numbered
    <2> QED
      BY <1>2, <2>1, HoldDomains, HoldingIs DEF Checkpoint!State
  <1> QED
    BY <1>1, <1>2

LEMMA StateUpto ==
    ASSUME NEW rs, Bounded(DOMAIN rs), NEW k \in Nat, NEW seed, NEW resets \in BOOLEAN
    PROVE  LET w == Checkpoint!State(rs, seed, resets)
               p == Checkpoint!State(Upto(rs, k), seed, resets)
           IN  /\ Before(w, p, rs, k)
               /\ p.direction = Upto(w.direction, k)
  <1> DEFINE w == Checkpoint!State(rs, seed, resets)
             p == Checkpoint!State(Upto(rs, k), seed, resets)
  <1>1. /\ p.direction = Upto(w.direction, k) /\ p.moved = Upto(w.moved, k)
        /\ p.reversal = Upto(w.reversal, k) /\ p.run = Upto(w.run, k)
    <2>1. CASE resets
      <3>1. Bounded(DOMAIN ResetStart(rs, seed))
        BY DEF ResetStart
      <3>2. Checkpoint!Numbered(Upto(ResetStart(rs, seed), k)) = Upto(Checkpoint!Numbered(ResetStart(rs, seed)), k)
        BY <3>1, NumberedUpto
      <3> QED
        BY <2>1, <3>2, ResettingIs, ResetUpto, DirectionsUpto DEF Checkpoint!State
    <2>2. CASE ~ resets
      <3>1. Bounded(DOMAIN HoldStart(rs, seed))
        BY DEF HoldStart
      <3>2. Checkpoint!Numbered(Upto(HoldStart(rs, seed), k)) = Upto(Checkpoint!Numbered(HoldStart(rs, seed)), k)
        BY <3>1, NumberedUpto
      <3> QED
        BY <2>2, <3>2, HoldingIs, HoldUpto DEF Checkpoint!State
    <2> QED
      BY <2>1, <2>2
  <1>2. /\ DOMAIN w.direction = DOMAIN rs /\ DOMAIN w.moved = DOMAIN rs
        /\ DOMAIN w.reversal = DOMAIN rs /\ DOMAIN w.run = DOMAIN rs
    BY StateDomains
  <1> HIDE DEF w, p
  <1>3. Before(w, p, rs, k)
    BY <1>1, <1>2, BeforeIs
  <1> QED
    BY <1>1, <1>3 DEF w, p

LEMMA StateBeyond ==
    ASSUME NEW rs, Bounded(DOMAIN rs), NEW k \in Nat, NEW seed, NEW resets \in BOOLEAN, NEW saved,
           NEW m \in DOMAIN rs, m <= k, \A t \in DOMAIN rs : t <= k => t <= m,
           saved.value = rs[m].value,
           saved.direction = Checkpoint!State(rs, seed, resets).direction[m]
    PROVE  LET w == Checkpoint!State(rs, seed, resets)
               q == Checkpoint!State(Beyond(rs, k), saved, resets)
           IN  /\ Behind(w, q, rs, k, w.run[m])
               /\ q.direction = Beyond(w.direction, k)
  <1> DEFINE w == Checkpoint!State(rs, seed, resets)
             q == Checkpoint!State(Beyond(rs, k), saved, resets)
  <1>1. \A f, seeded : DOMAIN f = DOMAIN rs => Final(Upto(f, k), seeded) = f[m]
    <2> SUFFICES ASSUME NEW f, NEW seeded, DOMAIN f = DOMAIN rs PROVE Final(Upto(f, k), seeded) = f[m]
      OBVIOUS
    <2>1. DOMAIN Upto(f, k) = {u \in DOMAIN rs : u <= k} /\ Upto(f, k)[m] = f[m]
      BY DEF Upto
    <2>2. {u \in DOMAIN rs : u <= k} \in SUBSET DOMAIN rs
      OBVIOUS
    <2>3. Bounded({u \in DOMAIN rs : u <= k})
      BY <2>2, BoundedSubset
    <2>4. Max({u \in DOMAIN rs : u <= k}) = m
      BY <2>3, MaxIs
    <2> QED
      BY <2>1, <2>4 DEF Final
  <1>2. DOMAIN Values(rs) = DOMAIN rs /\ saved.value = Values(rs)[m]
    BY DEF Values
  <1>3. saved.value = Final(Upto(Values(rs), k), seed.value)
    BY <1>1, <1>2
  <1>4. DOMAIN w.direction = DOMAIN rs /\ DOMAIN w.moved = DOMAIN rs
        /\ DOMAIN w.reversal = DOMAIN rs
    BY StateDomains
  <1>5. saved.direction = Final(Upto(w.direction, k), seed.direction)
    BY <1>1, <1>4
  <1>6. PICK f : /\ DOMAIN f = DOMAIN rs /\ w.run = Checkpoint!Numbered(f)
                 /\ q.direction = Beyond(w.direction, k) /\ q.moved = Beyond(w.moved, k)
                 /\ q.reversal = Beyond(w.reversal, k) /\ q.run = Checkpoint!Numbered(Beyond(f, k))
    <2>1. CASE resets
      <3> DEFINE f == ResetStart(rs, seed)
      <3>1. DOMAIN f = DOMAIN rs
        BY DEF ResetStart
      <3>2. w = [direction |-> Checkpoint!Directions(rs, seed), moved |-> Moving(rs),
                 reversal |-> ResetReversal(rs, seed), run |-> Checkpoint!Numbered(f)]
        BY <2>1, ResettingIs DEF Checkpoint!State
      <3>3. q = [direction |-> Checkpoint!Directions(Beyond(rs, k), saved), moved |-> Moving(Beyond(rs, k)),
                 reversal |-> ResetReversal(Beyond(rs, k), saved),
                 run |-> Checkpoint!Numbered(ResetStart(Beyond(rs, k), saved))]
        BY <2>1, ResettingIs DEF Checkpoint!State
      <3>4. saved.direction = Final(Upto(Checkpoint!Directions(rs, seed), k), seed.direction)
        BY <1>5, <3>2
      <3> HIDE DEF w, q
      <3>5. ResetReversal(Beyond(rs, k), saved) = Beyond(ResetReversal(rs, seed), k)
            /\ ResetStart(Beyond(rs, k), saved) = Beyond(f, k)
            /\ Moving(Beyond(rs, k)) = Beyond(Moving(rs), k)
        BY <1>3, <3>4, ResetBeyond
      <3>6. Checkpoint!Directions(Beyond(rs, k), saved) = Beyond(Checkpoint!Directions(rs, seed), k)
        BY <1>3, DirectionsBeyond
      <3> HIDE DEF f
      <3>7. /\ DOMAIN f = DOMAIN rs /\ w.run = Checkpoint!Numbered(f)
            /\ q.direction = Beyond(w.direction, k) /\ q.moved = Beyond(w.moved, k)
            /\ q.reversal = Beyond(w.reversal, k) /\ q.run = Checkpoint!Numbered(Beyond(f, k))
        BY <3>1, <3>2, <3>3, <3>5, <3>6
      <3> QED
        BY <3>7
    <2>2. CASE ~ resets
      <3> DEFINE f == HoldStart(rs, seed)
      <3>1. DOMAIN f = DOMAIN rs
        BY DEF HoldStart
      <3>2. w = [direction |-> Effective(rs, seed), moved |-> HoldMoved(rs, seed),
                 reversal |-> HoldReversal(rs, seed), run |-> Checkpoint!Numbered(f)]
        BY <2>2, HoldingIs DEF Checkpoint!State
      <3>3. q = [direction |-> Effective(Beyond(rs, k), saved), moved |-> HoldMoved(Beyond(rs, k), saved),
                 reversal |-> HoldReversal(Beyond(rs, k), saved),
                 run |-> Checkpoint!Numbered(HoldStart(Beyond(rs, k), saved))]
        BY <2>2, HoldingIs DEF Checkpoint!State
      <3>4. saved.direction = Final(Upto(Effective(rs, seed), k), seed.direction)
        BY <1>5, <3>2
      <3> HIDE DEF w, q
      <3>5. /\ Effective(Beyond(rs, k), saved) = Beyond(Effective(rs, seed), k)
            /\ HoldMoved(Beyond(rs, k), saved) = Beyond(HoldMoved(rs, seed), k)
            /\ HoldReversal(Beyond(rs, k), saved) = Beyond(HoldReversal(rs, seed), k)
            /\ HoldStart(Beyond(rs, k), saved) = Beyond(f, k)
        BY <1>3, <3>4, HoldBeyond
      <3> HIDE DEF f
      <3>7. /\ DOMAIN f = DOMAIN rs /\ w.run = Checkpoint!Numbered(f)
            /\ q.direction = Beyond(w.direction, k) /\ q.moved = Beyond(w.moved, k)
            /\ q.reversal = Beyond(w.reversal, k) /\ q.run = Checkpoint!Numbered(Beyond(f, k))
        BY <3>1, <3>2, <3>3, <3>5
      <3> QED
        BY <3>7
    <2> QED
      BY <2>1, <2>2
  <1> HIDE DEF w, q
  <1>7. Behind(w, q, rs, k, w.run[m])
    BY <1>4, <1>6, BehindIs
  <1> QED
    BY <1>6, <1>7 DEF w, q

-----------------------------------------------------------------------------
(* The latest of finitely many traces. *)

LEMMA ColumnIsFinite == ASSUME NEW f, IsFiniteSet(DOMAIN f) PROVE IsFiniteSet({f[t] : t \in DOMAIN f})
  <1> DEFINE g == [t \in DOMAIN f |-> f[t]]
             T == {f[t] : t \in DOMAIN f}
  <1>1. g \in Surjection(DOMAIN f, T)
    BY DEF Surjection
  <1> QED
    BY <1>1, FS_Surjection

LEMMA GreatestOfFinite ==
    ASSUME NEW S \in SUBSET Int, S # {}, IsFiniteSet(S)
    PROVE  \E x \in S : \A y \in S : y <= x
  <1> DEFINE over(x) == {y \in S : y > x}
             N == {n \in Nat : \E x \in S : Cardinality(over(x)) = n}
  <1>1. \A x : IsFiniteSet(over(x)) /\ Cardinality(over(x)) \in Nat
    <2> SUFFICES ASSUME NEW x PROVE IsFiniteSet(over(x)) /\ Cardinality(over(x)) \in Nat
      OBVIOUS
    <2>1. over(x) \in SUBSET S
      OBVIOUS
    <2> HIDE DEF over
    <2> QED
      BY <2>1, FS_Subset, FS_CardinalityType
  <1>2. N \in SUBSET Nat /\ N # {}
    <2>1. PICK x \in S : TRUE
      OBVIOUS
    <2> HIDE DEF over
    <2> QED
      BY <1>1, <2>1
  <1> HIDE DEF N
  <1>3. PICK n \in N : \A l \in N : n <= l
    BY <1>2, LeastNatural
  <1>4. PICK x \in S : Cardinality(over(x)) = n
    BY <1>3 DEF N
  <1>5. ASSUME NEW z \in S, z > x PROVE FALSE
    <2>0. \A y \in S : y \in Int /\ (y > z => y > x) /\ ~ (z > z)
      BY <1>5
    <2>1. over(z) \in SUBSET over(x) /\ z \in over(x) /\ z \notin over(z)
      BY <1>5, <2>0
    <2>2. over(z) # over(x)
      BY <2>1
    <2> HIDE DEF over
    <2>3. Cardinality(over(z)) <= Cardinality(over(x)) /\ Cardinality(over(z)) # Cardinality(over(x))
      BY <1>1, <2>1, <2>2, FS_Subset
    <2>4. Cardinality(over(z)) \in N
      BY <1>1, <1>5 DEF N
    <2> QED
      BY <1>1, <1>3, <1>4, <2>3, <2>4
  <1> QED
    BY <1>4, <1>5

\* A finite set of traces, some of them null.
TraceSet(A) == IsFiniteSet(A) /\ \A x \in A : Number(x)

LEMMA MaxHorizontalIs ==
    ASSUME Null \notin Int, NEW A, TraceSet(A)
    PROVE  LET max == Checkpoint!MaxHorizontal(A) IN
           /\ Number(max)
           /\ max # Null => max \in A
           /\ \A x \in A : x # Null => max # Null /\ x <= max
  <1> DEFINE S == A \ {Null}
             max == Checkpoint!MaxHorizontal(A)
  <1>1. CASE A \subseteq {Null}
    <2>1. max = Null
      BY <1>1 DEF Checkpoint!MaxHorizontal
    <2> HIDE DEF max
    <2> QED
      BY <1>1, <2>1 DEF Number, max
  <1>2. CASE ~ (A \subseteq {Null})
    <2>1. S \in SUBSET Int /\ S # {} /\ S \in SUBSET A
      BY <1>2 DEF TraceSet, Number
    <2>2. IsFiniteSet(S)
      BY <2>1, FS_Subset DEF TraceSet
    <2>3. max = Checkpoint!Max(S)
      BY <1>2 DEF Checkpoint!MaxHorizontal
    <2> HIDE DEF max, S
    <2>4. \E x \in S : \A y \in S : x >= y
      <3>1. PICK x \in S : \A y \in S : y <= x
        BY <2>1, <2>2, GreatestOfFinite
      <3> QED
        BY <2>1, <3>1
    <2>5. max \in S /\ \A y \in S : max >= y
      BY <2>3, <2>4 DEF Checkpoint!Max
    <2> QED
      BY <2>1, <2>5 DEF Number, max, S
  <1> QED
    BY <1>1, <1>2

LEMMA MaxHorizontalJoins ==
    ASSUME Null \notin Int, NEW A, NEW B, TraceSet(A), TraceSet(B)
    PROVE  Checkpoint!MaxHorizontal({Checkpoint!MaxHorizontal(A)} \cup B) = Checkpoint!MaxHorizontal(A \cup B)
  <1> DEFINE a == Checkpoint!MaxHorizontal(A)
             U == {a} \cup B
             V == A \cup B
             u == Checkpoint!MaxHorizontal(U)
             v == Checkpoint!MaxHorizontal(V)
  <1>1. Number(a) /\ (a # Null => a \in A) /\ \A x \in A : x # Null => a # Null /\ x <= a
    BY MaxHorizontalIs
  <1> HIDE DEF a
  <1>2. TraceSet(U) /\ TraceSet(V)
    <2>1. IsFiniteSet(U) /\ IsFiniteSet(V)
      BY FS_Union, FS_Singleton DEF TraceSet
    <2> QED
      BY <1>1, <2>1 DEF TraceSet
  <1>3. Number(u) /\ (u # Null => u \in U) /\ \A x \in U : x # Null => u # Null /\ x <= u
    <2> HIDE DEF U
    <2> QED
      BY <1>2, MaxHorizontalIs
  <1>4. Number(v) /\ (v # Null => v \in V) /\ \A x \in V : x # Null => v # Null /\ x <= v
    <2> HIDE DEF V
    <2> QED
      BY <1>2, MaxHorizontalIs
  <1> HIDE DEF u, v
  <1>5. u # Null => v # Null /\ u <= v
    BY <1>1, <1>3, <1>4
  <1>6. v # Null => u # Null /\ v <= u
    <2> SUFFICES ASSUME v # Null PROVE u # Null /\ v <= u
      OBVIOUS
    <2>1. CASE v \in B
      BY <1>3, <2>1
    <2>2. CASE v \in A
      <3>1. a # Null /\ v <= a /\ a \in U
        BY <1>1, <2>2
      <3>2. u # Null /\ a <= u
        BY <1>3, <3>1
      <3>3. v \in Int /\ a \in Int /\ u \in Int
        BY <1>1, <1>3, <1>4, <3>1, <3>2 DEF Number
      <3> QED
        BY <3>1, <3>2, <3>3
    <2> QED
      BY <1>4, <2>1, <2>2
  <1>7. u = v
    BY <1>3, <1>4, <1>5, <1>6 DEF Number
  <1> QED
    BY <1>7 DEF u, v, a

-----------------------------------------------------------------------------
(* The traces of a streak. *)

Preceding(rs, seed) == Checkpoint!Shifted(Traces(rs), seed.previous_trace)
Sources(w, rs, seed, t) ==
    {rs[u].trace : u \in SameRun(w, rs, t)} \cup {Preceding(rs, seed)[u] : u \in SameRun(w, rs, t)}
Inherited(w, seed, t) == IF w.run[t] = 0 THEN {seed.run_trace} ELSE {}

LEMMA RunTracesAre ==
    ASSUME NEW rs, NEW w, NEW seed
    PROVE  /\ DOMAIN Checkpoint!RunTraces(rs, w, seed) = DOMAIN rs
           /\ \A t \in DOMAIN rs :
                 Checkpoint!RunTraces(rs, w, seed)[t] =
                   IF Checkpoint!Valid(rs[t])
                   THEN Checkpoint!MaxHorizontal(Inherited(w, seed, t) \cup Sources(w, rs, seed, t))
                   ELSE rs[t].trace
  <1>1. Checkpoint!RunTraces(rs, w, seed) =
          [t \in DOMAIN rs |->
             IF Checkpoint!Valid(rs[t])
             THEN Checkpoint!MaxHorizontal(Inherited(w, seed, t) \cup
                    UNION {{rs[u].trace, Preceding(rs, seed)[u]} : u \in SameRun(w, rs, t)})
             ELSE rs[t].trace]
    BY DEF Checkpoint!RunTraces, Preceding, Traces, Inherited, SameRun
  <1>2. ASSUME NEW t \in DOMAIN rs
        PROVE  UNION {{rs[u].trace, Preceding(rs, seed)[u]} : u \in SameRun(w, rs, t)} = Sources(w, rs, seed, t)
    BY DEF Sources
  <1> QED
    BY <1>1, <1>2

LEMMA ShiftedType ==
    ASSUME NEW f, Bounded(DOMAIN f), \A t \in DOMAIN f : Number(f[t]), NEW seeded, Number(seeded)
    PROVE  /\ DOMAIN Checkpoint!Shifted(f, seeded) = DOMAIN f
           /\ \A t \in DOMAIN f : Number(Checkpoint!Shifted(f, seeded)[t])
  <1>1. ASSUME NEW t \in DOMAIN f PROVE Number(Checkpoint!Shifted(f, seeded)[t])
    <2> DEFINE e == {u \in DOMAIN f : u < t}
    <2>1. e \in SUBSET DOMAIN f
      OBVIOUS
    <2>2. e # {} => Max(e) \in e
      BY <2>1, BoundedSubset, MaxOfSessions
    <2>3. Checkpoint!Shifted(f, seeded)[t] = IF e = {} THEN seeded ELSE f[Max(e)]
      BY KernelBounds DEF Checkpoint!Shifted
    <2> HIDE DEF e
    <2> QED
      BY <2>1, <2>2, <2>3
  <1>2. DOMAIN Checkpoint!Shifted(f, seeded) = DOMAIN f
    BY DEF Checkpoint!Shifted
  <1> QED
    BY <1>1, <1>2

LEMMA SourcesType ==
    ASSUME NEW rs, StreakRows(rs), NEW w, NEW seed, Number(seed.previous_trace), NEW t
    PROVE  TraceSet(Sources(w, rs, seed, t))
  <1> DEFINE S == SameRun(w, rs, t)
             f == [u \in S |-> rs[u].trace]
             g == [u \in S |-> Preceding(rs, seed)[u]]
  <1>1. S \in SUBSET DOMAIN rs
    BY DEF SameRun
  <1>2. IsFiniteSet(S)
    BY <1>1, BoundedIsFinite, FS_Subset DEF StreakRows
  <1> HIDE DEF S
  <1>3. IsFiniteSet({f[u] : u \in DOMAIN f}) /\ IsFiniteSet({g[u] : u \in DOMAIN g})
    <2>1. DOMAIN f = S /\ DOMAIN g = S
      OBVIOUS
    <2> HIDE DEF f, g
    <2> QED
      BY <1>2, <2>1, ColumnIsFinite
  <1>4. Sources(w, rs, seed, t) = {f[u] : u \in DOMAIN f} \cup {g[u] : u \in DOMAIN g}
    BY DEF Sources, S
  <1>5. \A u \in S : Number(rs[u].trace) /\ Number(Preceding(rs, seed)[u])
    <2>1. Bounded(DOMAIN Traces(rs)) /\ (\A u \in DOMAIN Traces(rs) : Number(Traces(rs)[u]))
          /\ DOMAIN Traces(rs) = DOMAIN rs
      BY DEF Traces, StreakRows
    <2>2. \A u \in DOMAIN rs : Number(Preceding(rs, seed)[u])
      BY <2>1, ShiftedType DEF Preceding
    <2> QED
      BY <1>1, <2>2 DEF StreakRows
  <1>6. IsFiniteSet(Sources(w, rs, seed, t))
    <2> HIDE DEF f, g
    <2>1. IsFiniteSet({f[u] : u \in DOMAIN f} \cup {g[u] : u \in DOMAIN g})
      BY <1>3, FS_Union
    <2> QED
      BY <1>4, <2>1
  <1>7. \A x \in Sources(w, rs, seed, t) : Number(x)
    BY <1>5 DEF Sources, S
  <1> QED
    BY <1>6, <1>7 DEF TraceSet

LEMMA TracesUpto ==
    ASSUME NEW rs, StreakRows(rs), NEW k \in Nat, NEW w, NEW p, Before(w, p, rs, k), NEW seed
    PROVE  Checkpoint!RunTraces(Upto(rs, k), p, seed) = Upto(Checkpoint!RunTraces(rs, w, seed), k)
  <1> DEFINE x == Upto(rs, k)
             c == Checkpoint!RunTraces(x, p, seed)
             a == Checkpoint!RunTraces(rs, w, seed)
  <1>0. DOMAIN rs \in SUBSET Nat /\ Bounded(DOMAIN rs)
    BY DEF StreakRows, Bounded
  <1>1. /\ DOMAIN x = {t \in DOMAIN rs : t <= k} /\ (\A t \in DOMAIN x : x[t] = rs[t])
        /\ DOMAIN rs \in SUBSET Nat
    BY <1>0, CutRows
  <1>2. \A t \in DOMAIN x : Preceding(x, seed)[t] = Preceding(rs, seed)[t]
    <2>1. Traces(x) = Upto(Traces(rs), k) /\ DOMAIN Traces(rs) = DOMAIN rs
      BY CutValues
    <2>2. Preceding(x, seed) = Upto(Preceding(rs, seed), k)
      BY <1>0, <2>1, ShiftedUpto DEF Preceding
    <2>3. DOMAIN Preceding(rs, seed) = DOMAIN rs
      BY <2>1 DEF Preceding, Checkpoint!Shifted
    <2> HIDE DEF x
    <2> QED
      BY <1>1, <2>2, <2>3 DEF Upto
  <1> HIDE DEF x
  <1>3. ASSUME NEW t \in DOMAIN x PROVE c[t] = a[t]
    <2>1. SameRun(p, x, t) = SameRun(w, rs, t)
      BY <1>1 DEF SameRun, Before
    <2>2. p.run[t] = w.run[t]
      BY <1>1 DEF Before
    <2>3. Sources(p, x, seed, t) = Sources(w, rs, seed, t)
      <3>1. \A u \in SameRun(p, x, t) : x[u].trace = rs[u].trace /\ Preceding(x, seed)[u] = Preceding(rs, seed)[u]
        BY <1>1, <1>2 DEF SameRun
      <3> QED
        BY <2>1, <3>1 DEF Sources
    <2>4. Inherited(p, seed, t) = Inherited(w, seed, t)
      BY <2>2 DEF Inherited
    <2>5. t \in DOMAIN rs /\ x[t] = rs[t]
      BY <1>1
    <2>6. c[t] = IF Checkpoint!Valid(x[t])
                 THEN Checkpoint!MaxHorizontal(Inherited(p, seed, t) \cup Sources(p, x, seed, t))
                 ELSE x[t].trace
      BY RunTracesAre
    <2>7. a[t] = IF Checkpoint!Valid(rs[t])
                 THEN Checkpoint!MaxHorizontal(Inherited(w, seed, t) \cup Sources(w, rs, seed, t))
                 ELSE rs[t].trace
      BY <2>5, RunTracesAre
    <2> HIDE DEF c, a
    <2> QED
      BY <2>3, <2>4, <2>5, <2>6, <2>7
  <1>4. DOMAIN c = DOMAIN x /\ DOMAIN a = DOMAIN rs /\ c = [t \in DOMAIN x |-> c[t]]
    BY DEF Checkpoint!RunTraces
  <1> HIDE DEF c, a
  <1>5. Upto(a, k) = [t \in DOMAIN x |-> a[t]]
    BY <1>1, <1>4 DEF Upto
  <1> QED
    BY <1>3, <1>4, <1>5 DEF c, a, x

\* The rows behind inherit the trace of the run they continue.
LEMMA TracesBeyond ==
    ASSUME Null \notin Int, NEW rs, StreakRows(rs), NEW k \in Nat, NEW w, NEW q,
           NEW resets \in BOOLEAN, Runs(w, rs, resets),
           NEW seed, Number(seed.previous_trace), Number(seed.run_trace), NEW saved,
           NEW m \in DOMAIN rs, m <= k, \A t \in DOMAIN rs : t <= k => t <= m,
           Behind(w, q, rs, k, w.run[m]),
           saved.previous_trace = rs[m].trace,
           saved.run_trace = Checkpoint!RunTraces(rs, w, seed)[m]
    PROVE  Checkpoint!RunTraces(Beyond(rs, k), q, saved) = Beyond(Checkpoint!RunTraces(rs, w, seed), k)
  <1> DEFINE x == Beyond(rs, k)
             c == Checkpoint!RunTraces(x, q, saved)
             a == Checkpoint!RunTraces(rs, w, seed)
  <1>0. DOMAIN rs \in SUBSET Nat /\ Bounded(DOMAIN rs)
    BY DEF StreakRows, Bounded
  <1>1. /\ DOMAIN x = {t \in DOMAIN rs : t > k} /\ (\A t \in DOMAIN x : x[t] = rs[t])
        /\ DOMAIN rs \in SUBSET Nat /\ Bounded(DOMAIN rs) /\ StreakRows(x)
    BY <1>0, CutRows
  <1>2. \A t \in DOMAIN x : Preceding(x, saved)[t] = Preceding(rs, seed)[t]
    <2>1. Traces(x) = Beyond(Traces(rs), k) /\ DOMAIN Traces(rs) = DOMAIN rs
      BY CutValues
    <2>2. saved.previous_trace = Final(Upto(Traces(rs), k), seed.previous_trace)
      <3> DEFINE D == {u \in DOMAIN rs : u <= k}
      <3>1. D \in SUBSET DOMAIN rs
        OBVIOUS
      <3>2. Bounded(D)
        BY <1>1, <3>1, BoundedSubset
      <3>3. Max(D) = m
        BY <3>2, MaxIs
      <3> QED
        BY <3>3 DEF Final, Upto, Traces
    <2>3. Preceding(x, saved) = Beyond(Preceding(rs, seed), k)
      BY <1>1, <2>1, <2>2, ShiftedBeyond DEF Preceding
    <2>4. DOMAIN Preceding(rs, seed) = DOMAIN rs
      BY <2>1 DEF Preceding, Checkpoint!Shifted
    <2> HIDE DEF x
    <2> QED
      BY <1>1, <2>3, <2>4 DEF Beyond
  <1> HIDE DEF x
  <1>3. ASSUME NEW t \in DOMAIN x PROVE c[t] = a[t]
    <2>1. t \in DOMAIN rs /\ x[t] = rs[t] /\ t > k /\ m < t /\ t \in Nat /\ m \in Nat
      BY <1>1
    <2>2. q.run[t] \in Nat /\ w.run[t] = w.run[m] + q.run[t] /\ w.run[m] \in Nat
      BY <2>1 DEF Behind, Runs
    <2> DEFINE R == {u \in DOMAIN x : u <= t /\ w.run[u] = w.run[t]}
    <2>3. SameRun(q, x, t) = R
      <3>1. \A u \in DOMAIN x : q.run[u] = q.run[t] <=> w.run[u] = w.run[t]
        BY <1>1, <2>2 DEF Behind
      <3> QED
        BY <3>1 DEF SameRun
    <2>4. \A u \in R : x[u].trace = rs[u].trace /\ Preceding(x, saved)[u] = Preceding(rs, seed)[u]
      BY <1>1, <1>2
    <2> HIDE DEF R
    <2>5. c[t] = IF Checkpoint!Valid(rs[t])
                 THEN Checkpoint!MaxHorizontal(Inherited(q, saved, t) \cup Sources(q, x, saved, t))
                 ELSE rs[t].trace
      BY <2>1, RunTracesAre
    <2>6. a[t] = IF Checkpoint!Valid(rs[t])
                 THEN Checkpoint!MaxHorizontal(Inherited(w, seed, t) \cup Sources(w, rs, seed, t))
                 ELSE rs[t].trace
      BY <2>1, RunTracesAre
    <2> HIDE DEF c, a
    <2>7. CASE ~ Checkpoint!Valid(rs[t])
      BY <2>5, <2>6, <2>7
    <2>8. CASE Checkpoint!Valid(rs[t]) /\ q.run[t] # 0
      <3>1. SameRun(w, rs, t) = R
        <4>1. ASSUME NEW u \in DOMAIN rs, u <= k PROVE w.run[u] # w.run[t]
          <5>1. w.run[u] <= w.run[m] /\ w.run[u] \in Nat
            BY <4>1 DEF Runs
          <5> QED
            BY <2>2, <2>8, <5>1
        <4> QED
          BY <1>1, <4>1 DEF SameRun, R
      <3>2. Sources(q, x, saved, t) = Sources(w, rs, seed, t)
        BY <2>3, <2>4, <3>1 DEF Sources
      <3>3. Inherited(q, saved, t) = {} /\ Inherited(w, seed, t) = {}
        BY <2>2, <2>8 DEF Inherited
      <3> QED
        BY <2>5, <2>6, <3>2, <3>3
    <2>9. CASE Checkpoint!Valid(rs[t]) /\ q.run[t] = 0
      <3>1. w.run[m] = w.run[t]
        BY <2>2, <2>9
      <3>2. Checkpoint!Valid(rs[m])
        BY <1>1, <2>1, <2>9, <3>1, RunGoesOn
      <3> DEFINE A == Inherited(w, seed, m) \cup Sources(w, rs, seed, m)
                 B == Sources(q, x, saved, t)
      <3>3. saved.run_trace = Checkpoint!MaxHorizontal(A)
        BY <3>2, RunTracesAre
      <3>4. Inherited(q, saved, t) = {Checkpoint!MaxHorizontal(A)}
        BY <2>9, <3>3 DEF Inherited
      <3>5. Inherited(w, seed, t) \cup Sources(w, rs, seed, t) = A \cup B
        <4>1. SameRun(w, rs, t) = SameRun(w, rs, m) \cup R
          BY <1>1, <2>1, <3>1 DEF SameRun, R
        <4>2. Sources(w, rs, seed, t) = Sources(w, rs, seed, m) \cup B
          BY <2>3, <2>4, <4>1 DEF Sources
        <4>3. Inherited(w, seed, t) = Inherited(w, seed, m)
          BY <3>1 DEF Inherited
        <4> QED
          BY <4>2, <4>3
      <3>6. TraceSet(A) /\ TraceSet(B)
        <4>1. TraceSet(Sources(w, rs, seed, m))
          BY SourcesType
        <4>2. Number(saved.previous_trace)
          BY DEF StreakRows
        <4>3. TraceSet(B)
          BY <1>1, <4>2, SourcesType
        <4>4. TraceSet(Inherited(w, seed, m))
          BY FS_Singleton, FS_EmptySet DEF Inherited, TraceSet
        <4>5. IsFiniteSet(A)
          BY <4>1, <4>4, FS_Union DEF TraceSet
        <4> QED
          BY <4>1, <4>3, <4>4, <4>5 DEF TraceSet
      <3> HIDE DEF A, B
      <3>7. Checkpoint!MaxHorizontal({Checkpoint!MaxHorizontal(A)} \cup B) = Checkpoint!MaxHorizontal(A \cup B)
        BY <3>6, MaxHorizontalJoins
      <3> QED
        BY <2>5, <2>6, <2>9, <3>4, <3>5, <3>7 DEF B
    <2> QED
      BY <2>7, <2>8, <2>9
  <1>4. DOMAIN c = DOMAIN x /\ DOMAIN a = DOMAIN rs /\ c = [t \in DOMAIN x |-> c[t]]
    BY DEF Checkpoint!RunTraces
  <1> HIDE DEF c, a
  <1>5. Beyond(a, k) = [t \in DOMAIN x |-> a[t]]
    BY <1>1, <1>4 DEF Beyond
  <1> QED
    BY <1>3, <1>4, <1>5 DEF c, a, x

-----------------------------------------------------------------------------
(* Streaks and moments, continued from what they save. *)

\* A column is determined by its rows.
Column(f) == f = [t \in DOMAIN f |-> f[t]]

LEMMA AllBefore ==
    ASSUME NEW f, Column(f), NEW k, {t \in DOMAIN f : t > k} = {}, k \in Nat, Bounded(DOMAIN f)
    PROVE  Upto(f, k) = f
  <1>1. {u \in DOMAIN f : u <= k} = DOMAIN f
    BY DEF Bounded
  <1> QED
    BY <1>1 DEF Upto, Column

LEMMA AllBehind ==
    ASSUME NEW f, Column(f), NEW k, {t \in DOMAIN f : t <= k} = {}, k \in Nat, Bounded(DOMAIN f)
    PROVE  Beyond(f, k) = f
  <1>1. {u \in DOMAIN f : u > k} = DOMAIN f
    BY DEF Bounded
  <1> QED
    BY <1>1 DEF Beyond, Column

\* The last session before a cut, and that behind it.
LEMMA LastBefore ==
    ASSUME NEW D, Bounded(D), NEW k \in Nat, {t \in D : t <= k} # {}
    PROVE  LET m == Max({t \in D : t <= k}) IN m \in D /\ m <= k /\ \A t \in D : t <= k => t <= m
  <1> DEFINE E == {t \in D : t <= k}
  <1>1. E \in SUBSET D /\ E # {}
    OBVIOUS
  <1>2. Bounded(E)
    BY <1>1, BoundedSubset
  <1>3. Max(E) \in E /\ \A t \in E : t <= Max(E)
    BY <1>1, <1>2, MaxOfSessions
  <1> QED
    BY <1>3

LEMMA LastBehind ==
    ASSUME NEW D, Bounded(D), NEW k \in Nat, {t \in D : t > k} # {}
    PROVE  LET l == Max({t \in D : t > k}) IN l \in D /\ l > k /\ Max(D) = l
  <1> DEFINE E == {t \in D : t > k}
  <1>1. E \in SUBSET D /\ E # {}
    OBVIOUS
  <1>2. Bounded(E)
    BY <1>1, BoundedSubset
  <1>3. Max(E) \in E /\ \A t \in E : t <= Max(E)
    BY <1>1, <1>2, MaxOfSessions
  <1> DEFINE l == Max(E)
  <1>4. l \in D /\ l > k /\ \A t \in E : t <= l
    BY <1>3
  <1> HIDE DEF l
  <1>5. \A t \in D : t <= l
    BY <1>4 DEF Bounded
  <1>6. Max(D) = l
    BY <1>4, <1>5, MaxIs
  <1> QED
    BY <1>4, <1>6 DEF l

\* What a streak saves of a table: the columns of its last row.
Row(rs, w, counts, traces, t) ==
    [value |-> rs[t].value, direction |-> w.direction[t], count |-> counts[t],
     previous_trace |-> rs[t].trace, run_trace |-> traces[t]]

LEMMA StreakIs ==
    ASSUME NEW rs, NEW seed, NEW resets
    PROVE  LET w == Checkpoint!State(rs, seed, resets)
               counts == Checkpoint!Counts(rs, w, seed, resets)
               traces == Checkpoint!RunTraces(rs, w, seed)
           IN  Checkpoint!Streak(rs, seed, resets) =
                 [output |-> [t \in DOMAIN rs |-> [value |-> counts[t], trace |-> traces[t]]],
                  saved |-> IF DOMAIN rs = {} THEN seed ELSE Row(rs, w, counts, traces, Max(DOMAIN rs))]
  BY KernelBounds DEF Checkpoint!Streak, Row

\* Over the rows before a session a streak gives what it gives over all of them.
LEMMA StreakBefore ==
    ASSUME Null \notin Int, NEW rs, StreakRows(rs), NEW k \in Nat, NEW resets \in BOOLEAN
    PROVE  LET seed == Checkpoint!NoSeed
               w == Checkpoint!State(rs, seed, resets)
               counts == Checkpoint!Counts(rs, w, seed, resets)
               traces == Checkpoint!RunTraces(rs, w, seed)
               m == Max({t \in DOMAIN rs : t <= k})
               prefix == Checkpoint!Streak(Upto(rs, k), seed, resets)
           IN  /\ DOMAIN prefix.output = {t \in DOMAIN rs : t <= k}
               /\ \A t \in DOMAIN prefix.output : prefix.output[t] = Checkpoint!Streak(rs, seed, resets).output[t]
               /\ prefix.saved = IF {t \in DOMAIN rs : t <= k} = {} THEN seed ELSE Row(rs, w, counts, traces, m)
  <1> DEFINE seed == Checkpoint!NoSeed
             w == Checkpoint!State(rs, seed, resets)
             counts == Checkpoint!Counts(rs, w, seed, resets)
             traces == Checkpoint!RunTraces(rs, w, seed)
             D == {t \in DOMAIN rs : t <= k}
             x == Upto(rs, k)
             p == Checkpoint!State(x, seed, resets)
             pcounts == Checkpoint!Counts(x, p, seed, resets)
             ptraces == Checkpoint!RunTraces(x, p, seed)
             prefix == Checkpoint!Streak(x, seed, resets)
             whole == Checkpoint!Streak(rs, seed, resets)
  <1>0. Bounded(DOMAIN rs)
    BY DEF StreakRows
  <1>1. StreakRows(x) /\ DOMAIN x = D /\ (\A t \in D : x[t] = rs[t])
    BY CutRows
  <1>2. Fresh(seed)
    BY DEF Fresh, Checkpoint!NoSeed
  <1> HIDE DEF seed, x
  <1>3. Runs(w, rs, resets) /\ Runs(p, x, resets)
    BY <1>1, <1>2, StateRuns
  <1>4. Before(w, p, rs, k)
    BY <1>0, StateUpto DEF x
  <1> HIDE DEF w, p
  <1>5. pcounts = Upto(counts, k)
    BY <1>0, <1>3, <1>4, CountsUpto DEF x
  <1>6. ptraces = Upto(traces, k)
    BY <1>4, TracesUpto DEF x
  <1>7. DOMAIN counts = DOMAIN rs /\ DOMAIN traces = DOMAIN rs
    BY CountDomain, RunTracesAre
  <1>8. prefix = [output |-> [t \in DOMAIN x |-> [value |-> pcounts[t], trace |-> ptraces[t]]],
                  saved |-> IF DOMAIN x = {} THEN seed ELSE Row(x, p, pcounts, ptraces, Max(DOMAIN x))]
    BY StreakIs DEF p
  <1>9. whole = [output |-> [t \in DOMAIN rs |-> [value |-> counts[t], trace |-> traces[t]]],
                 saved |-> IF DOMAIN rs = {} THEN seed ELSE Row(rs, w, counts, traces, Max(DOMAIN rs))]
    BY StreakIs DEF w
  <1> HIDE DEF prefix, whole, counts, traces, pcounts, ptraces
  <1>10. \A t \in D : pcounts[t] = counts[t] /\ ptraces[t] = traces[t]
    BY <1>5, <1>6, <1>7 DEF Upto
  <1>11. \A t \in D : Row(x, p, pcounts, ptraces, t) = Row(rs, w, counts, traces, t)
    BY <1>1, <1>4, <1>10 DEF Row, Before, Agree
  <1>12. D # {} => Max(D) \in D
    BY <1>0, LastBefore
  <1>13. DOMAIN prefix.output = D /\ \A t \in D : prefix.output[t] = whole.output[t]
    BY <1>1, <1>8, <1>9, <1>10
  <1>14. prefix.saved = IF D = {} THEN seed ELSE Row(rs, w, counts, traces, Max(D))
    BY <1>1, <1>8, <1>11, <1>12
  <1> QED
    BY <1>13, <1>14 DEF prefix, whole, seed, w, counts, traces, x

\* Continued from what it saved there, it gives the rest, and saves the same.
LEMMA StreakContinues ==
    ASSUME Null \notin Int, NEW rs, StreakRows(rs), Column(rs),
           NEW k \in Nat, NEW resets \in BOOLEAN
    PROVE  LET whole == Checkpoint!Streak(rs, Checkpoint!NoSeed, resets)
               prefix == Checkpoint!Streak(Upto(rs, k), Checkpoint!NoSeed, resets)
               rest == Checkpoint!Streak(Beyond(rs, k), prefix.saved, resets)
           IN  /\ DOMAIN rest.output = {t \in DOMAIN rs : t > k}
               /\ \A t \in DOMAIN rest.output : rest.output[t] = whole.output[t]
               /\ rest.saved = whole.saved
  <1> DEFINE seed == Checkpoint!NoSeed
             w == Checkpoint!State(rs, seed, resets)
             counts == Checkpoint!Counts(rs, w, seed, resets)
             traces == Checkpoint!RunTraces(rs, w, seed)
             D == {t \in DOMAIN rs : t <= k}
             E == {t \in DOMAIN rs : t > k}
             x == Beyond(rs, k)
             prefix == Checkpoint!Streak(Upto(rs, k), seed, resets)
             saved == prefix.saved
             q == Checkpoint!State(x, saved, resets)
             qcounts == Checkpoint!Counts(x, q, saved, resets)
             qtraces == Checkpoint!RunTraces(x, q, saved)
             rest == Checkpoint!Streak(x, saved, resets)
             whole == Checkpoint!Streak(rs, seed, resets)
  <1>0. Bounded(DOMAIN rs)
    BY DEF StreakRows
  <1>1. StreakRows(x) /\ DOMAIN x = E /\ (\A t \in E : x[t] = rs[t])
    BY CutRows
  <1>2. Fresh(seed) /\ Number(seed.previous_trace) /\ Number(seed.run_trace) /\ seed.count = Null
    BY DEF Fresh, Checkpoint!NoSeed, Number
  <1>3. prefix.saved = IF D = {} THEN seed ELSE Row(rs, w, counts, traces, Max(D))
    BY StreakBefore
  <1>4. E = {} => Upto(rs, k) = rs
    BY <1>0, AllBefore
  <1>5. D = {} => x = rs
    BY <1>0, AllBehind
  <1>8. rest = [output |-> [t \in DOMAIN x |-> [value |-> qcounts[t], trace |-> qtraces[t]]],
                saved |-> IF DOMAIN x = {} THEN saved ELSE Row(x, q, qcounts, qtraces, Max(DOMAIN x))]
    BY StreakIs
  <1>9. whole = [output |-> [t \in DOMAIN rs |-> [value |-> counts[t], trace |-> traces[t]]],
                 saved |-> IF DOMAIN rs = {} THEN seed ELSE Row(rs, w, counts, traces, Max(DOMAIN rs))]
    BY StreakIs
  <1>10. CASE D = {}
    <2>1. rest = whole
      BY <1>3, <1>5, <1>10
    <2>2. DOMAIN rest.output = E
      BY <1>1, <1>8
    <2> QED
      BY <2>1, <2>2
  <1>11. CASE D # {}
    <2> DEFINE m == Max(D)
    <2>1. m \in DOMAIN rs /\ m <= k /\ \A t \in DOMAIN rs : t <= k => t <= m
      BY <1>0, <1>11, LastBefore
    <2> HIDE DEF m
    <2>2. /\ saved.value = rs[m].value /\ saved.direction = w.direction[m] /\ saved.count = counts[m]
          /\ saved.previous_trace = rs[m].trace /\ saved.run_trace = traces[m]
      BY <1>3, <1>11 DEF Row, m
    <2> HIDE DEF seed, prefix, saved
    <2>3. Runs(w, rs, resets)
      BY <1>2, StateRuns
    <2>4. Behind(w, q, rs, k, w.run[m]) /\ q.direction = Beyond(w.direction, k)
      BY <1>0, <2>1, <2>2, StateBeyond
    <2>5. w.run[m] \in Nat
      BY <2>1, <2>3 DEF Runs
    <2> HIDE DEF w, q
    <2>6. Runs(q, x, resets)
      BY <1>0, <2>3, <2>4, <2>5, RunsBehind
    <2>7. qcounts = Beyond(counts, k)
      BY <1>0, <1>2, <2>1, <2>2, <2>3, <2>4, <2>6, CountsBeyond
    <2>8. qtraces = Beyond(traces, k)
      BY <1>2, <2>1, <2>2, <2>3, <2>4, TracesBeyond
    <2>9. DOMAIN counts = DOMAIN rs /\ DOMAIN traces = DOMAIN rs
      BY CountDomain, RunTracesAre
    <2> HIDE DEF counts, traces, qcounts, qtraces, x, rest, whole
    <2>10. \A t \in E : qcounts[t] = counts[t] /\ qtraces[t] = traces[t]
      BY <2>7, <2>8, <2>9 DEF Beyond
    <2>11. \A t \in E : Row(x, q, qcounts, qtraces, t) = Row(rs, w, counts, traces, t)
      BY <1>1, <2>4, <2>10 DEF Row, Behind, Agree
    <2>12. DOMAIN rest.output = E /\ \A t \in E : rest.output[t] = whole.output[t]
      BY <1>1, <1>8, <1>9, <2>10
    <2>13. rest.saved = whole.saved
      <3>1. CASE E = {}
        <4>1. rest.saved = saved
          BY <1>1, <1>8, <3>1
        <4>2. saved = whole.saved
          BY <1>4, <3>1 DEF saved, prefix, whole
        <4> QED
          BY <4>1, <4>2
      <3>2. CASE E # {}
        <4>1. Max(E) \in E /\ Max(DOMAIN rs) = Max(E)
          BY <1>0, <3>2, LastBehind
        <4>2. DOMAIN rs # {}
          BY <3>2
        <4> HIDE DEF E
        <4> QED
          BY <1>1, <1>8, <1>9, <2>11, <3>2, <4>1, <4>2
      <3> QED
        BY <3>1, <3>2
    <2> QED
      BY <2>12, <2>13 DEF rest, whole, saved, prefix, seed, x
  <1> QED
    BY <1>10, <1>11

-----------------------------------------------------------------------------
(* Exponential moments. *)

NoMoment == [Checkpoint!NoSeed EXCEPT !.value = {}, !.count = 0]
ValidRows(rs) == [t \in DOMAIN rs |-> Checkpoint!Valid(rs[t])]
ValidCounts(rs) == Checkpoint!Numbered(ValidRows(rs))
SeenUntil(rs, t) == {<<u, rs[u].value>> : u \in {v \in DOMAIN rs : v <= t}}
TracesTo(rs, t) == {rs[u].trace : u \in {v \in DOMAIN rs : v <= t}}
TraceUntil(rs, seed, t) == Checkpoint!MaxHorizontal({seed.run_trace} \cup TracesTo(rs, t))
Moment(rs, seed, t) ==
    [seed EXCEPT !.value = seed.value \cup SeenUntil(rs, t), !.count = seed.count + ValidCounts(rs)[t],
                 !.run_trace = TraceUntil(rs, seed, t)]

LEMMA MomentsAre ==
    ASSUME NEW rs, NEW seed
    PROVE  Checkpoint!Moments(rs, seed) =
             [output |-> [t \in DOMAIN rs |-> [value |-> <<seed.value \cup SeenUntil(rs, t),
                                                           seed.count + ValidCounts(rs)[t]>>,
                                               trace |-> TraceUntil(rs, seed, t)]],
              saved |-> IF DOMAIN rs = {} THEN seed
                        ELSE [seed EXCEPT !.value = seed.value \cup SeenUntil(rs, Max(DOMAIN rs)),
                                          !.count = seed.count + ValidCounts(rs)[Max(DOMAIN rs)],
                                          !.run_trace = Checkpoint!CumulativeTraces(rs, seed)[Max(DOMAIN rs)]]]
  <1>1. Checkpoint!CumulativeTraces(rs, seed) = [t \in DOMAIN rs |-> TraceUntil(rs, seed, t)]
    BY DEF Checkpoint!CumulativeTraces, TraceUntil, TracesTo
  <1>2. \A t \in DOMAIN rs : Checkpoint!CumulativeTraces(rs, seed)[t] = TraceUntil(rs, seed, t)
    BY <1>1
  <1> QED
    BY <1>2, KernelBounds DEF Checkpoint!Moments, SeenUntil, ValidCounts, ValidRows

LEMMA MomentSaved ==
    ASSUME NEW rs, Bounded(DOMAIN rs), NEW seed
    PROVE  Checkpoint!Moments(rs, seed).saved =
             IF DOMAIN rs = {} THEN seed ELSE Moment(rs, seed, Max(DOMAIN rs))
  <1>1. Checkpoint!CumulativeTraces(rs, seed) = [t \in DOMAIN rs |-> TraceUntil(rs, seed, t)]
    BY DEF Checkpoint!CumulativeTraces, TraceUntil, TracesTo
  <1>2. DOMAIN rs # {} => Max(DOMAIN rs) \in DOMAIN rs
    BY MaxOfSessions
  <1> DEFINE l == Max(DOMAIN rs)
  <1> HIDE DEF l
  <1>3. DOMAIN rs # {} => Checkpoint!CumulativeTraces(rs, seed)[l] = TraceUntil(rs, seed, l)
    BY <1>1, <1>2 DEF l
  <1>4. Checkpoint!Moments(rs, seed).saved =
          IF DOMAIN rs = {} THEN seed
          ELSE [seed EXCEPT !.value = seed.value \cup SeenUntil(rs, l), !.count = seed.count + ValidCounts(rs)[l],
                            !.run_trace = Checkpoint!CumulativeTraces(rs, seed)[l]]
    BY MomentsAre DEF l
  <1> QED
    BY <1>3, <1>4 DEF Moment, l

\* The valid rows up to a session, and those behind another one.
LEMMA ValidCountsCut ==
    ASSUME NEW rs, StreakRows(rs), NEW k \in Nat
    PROVE  /\ \A t \in DOMAIN rs : t <= k => ValidCounts(Upto(rs, k))[t] = ValidCounts(rs)[t]
           /\ \A t \in DOMAIN rs : t > k
                                    => ValidCounts(rs)[t] = Starts(ValidRows(rs), k) + ValidCounts(Beyond(rs, k))[t]
           /\ \A t \in DOMAIN rs : ValidCounts(rs)[t] \in Nat
  <1> DEFINE f == ValidRows(rs)
             p == Upto(rs, k)
             x == Beyond(rs, k)
  <1>1. DOMAIN f = DOMAIN rs /\ Bounded(DOMAIN f) /\ \A t \in DOMAIN rs : f[t] = Checkpoint!Valid(rs[t])
    BY DEF ValidRows, StreakRows
  <1>2. /\ DOMAIN p = {t \in DOMAIN rs : t <= k} /\ DOMAIN x = {t \in DOMAIN rs : t > k}
        /\ (\A t \in DOMAIN p : p[t] = rs[t]) /\ (\A t \in DOMAIN x : x[t] = rs[t])
    BY CutRows
  <1>3. ValidRows(p) = Upto(f, k)
    <2> HIDE DEF f, p
    <2> QED
      BY <1>1, <1>2 DEF ValidRows, Upto
  <1>4. ValidRows(x) = Beyond(f, k)
    <2> HIDE DEF f, x
    <2> QED
      BY <1>1, <1>2 DEF ValidRows, Beyond
  <1> HIDE DEF f, p, x
  <1>5. ValidCounts(p) = Upto(ValidCounts(rs), k)
    BY <1>1, <1>3, NumberedUpto DEF ValidCounts, f
  <1>6. DOMAIN ValidCounts(rs) = DOMAIN rs
    BY <1>1 DEF ValidCounts, Checkpoint!Numbered, f
  <1>7. DOMAIN Beyond(f, k) = {t \in DOMAIN rs : t > k}
    BY <1>1 DEF Beyond
  <1>8. \A t \in DOMAIN rs : t > k => ValidCounts(rs)[t] = Starts(f, k) + ValidCounts(x)[t]
    BY <1>1, <1>4, <1>7, NumberedBeyond DEF ValidCounts, f
  <1>9. \A t \in DOMAIN rs : t <= k => ValidCounts(p)[t] = ValidCounts(rs)[t]
    BY <1>5, <1>6 DEF Upto
  <1>10. \A t \in DOMAIN rs : ValidCounts(rs)[t] \in Nat
    <2>1. \A t \in DOMAIN f : Checkpoint!Numbered(f)[t] = Starts(f, t) /\ t \in Nat
      BY <1>1, NumberedIs DEF Bounded
    <2>2. \A t \in Nat : Starts(f, t) \in Nat
      BY <1>1, NumberedIs
    <2> QED
      BY <1>1, <2>1, <2>2 DEF ValidCounts, f
  <1> QED
    BY <1>8, <1>9, <1>10 DEF f, p, x

LEMMA MomentsContinue ==
    ASSUME Null \notin Int, NEW rs, StreakRows(rs), Column(rs), NEW k \in Nat
    PROVE  LET whole == Checkpoint!Moments(rs, NoMoment)
               prefix == Checkpoint!Moments(Upto(rs, k), NoMoment)
               rest == Checkpoint!Moments(Beyond(rs, k), prefix.saved)
           IN  /\ DOMAIN prefix.output = {t \in DOMAIN rs : t <= k}
               /\ \A t \in DOMAIN prefix.output : prefix.output[t] = whole.output[t]
               /\ DOMAIN rest.output = {t \in DOMAIN rs : t > k}
               /\ \A t \in DOMAIN rest.output : rest.output[t] = whole.output[t]
               /\ rest.saved = whole.saved
  <1> DEFINE D == {t \in DOMAIN rs : t <= k}
             E == {t \in DOMAIN rs : t > k}
             p == Upto(rs, k)
             x == Beyond(rs, k)
             whole == Checkpoint!Moments(rs, NoMoment)
             prefix == Checkpoint!Moments(p, NoMoment)
             saved == prefix.saved
             rest == Checkpoint!Moments(x, saved)
  <1>0. Bounded(DOMAIN rs) /\ DOMAIN rs \in SUBSET Nat
    BY DEF StreakRows, Bounded
  <1>1. /\ StreakRows(x) /\ DOMAIN x = E /\ (\A t \in E : x[t] = rs[t])
        /\ StreakRows(p) /\ DOMAIN p = D /\ (\A t \in D : p[t] = rs[t])
    <2>1. StreakRows(x) /\ StreakRows(p) /\ DOMAIN x = E /\ DOMAIN p = D
      BY CutRows
    <2>2. (\A t \in DOMAIN x : x[t] = rs[t]) /\ (\A t \in DOMAIN p : p[t] = rs[t])
      BY CutRows
    <2> HIDE DEF x, p
    <2> QED
      BY <2>1, <2>2
  <1>2. Bounded(DOMAIN p) /\ Bounded(DOMAIN x)
    BY <1>1 DEF StreakRows
  <1>3. E = {} => p = rs
    BY <1>0, AllBefore
  <1>4. D = {} => x = rs
    BY <1>0, AllBehind
  <1>5. NoMoment = [value |-> {}, direction |-> Null, count |-> 0, previous_trace |-> Null, run_trace |-> Null]
    <2>1. \A v, n : [Checkpoint!NoSeed EXCEPT !.value = v, !.count = n]
                    = [value |-> v, direction |-> Null, count |-> n, previous_trace |-> Null, run_trace |-> Null]
      <3> TAKE v, n
      <3> DEFINE seed == Checkpoint!NoSeed
                 moment == [seed EXCEPT !.value = v, !.count = n]
                 record == [value |-> v, direction |-> Null, count |-> n, previous_trace |-> Null, run_trace |-> Null]
      <3>1. /\ DOMAIN seed = {"value", "direction", "count", "previous_trace", "run_trace"}
            /\ seed.direction = Null /\ seed.previous_trace = Null /\ seed.run_trace = Null
        BY DEF Checkpoint!NoSeed
      <3> HIDE DEF seed
      <3>2. moment = [field \in DOMAIN seed |-> moment[field]]
        OBVIOUS
      <3>3. record = [field \in DOMAIN seed |-> record[field]]
        BY <3>1
      <3>4. \A field \in DOMAIN seed : moment[field] = record[field]
        <4>1. /\ moment.value = v /\ moment.count = n /\ moment.direction = seed.direction
              /\ moment.previous_trace = seed.previous_trace /\ moment.run_trace = seed.run_trace
          BY <3>1
        <4> HIDE DEF moment
        <4> QED
          BY <3>1, <4>1
      <3> HIDE DEF moment, record
      <3>5. moment = record
        BY <3>2, <3>3, <3>4
      <3> QED
        BY <3>5 DEF moment, record, seed
    <2> QED
      BY ONLY <2>1 DEF NoMoment
  <1>15. /\ \A t \in D : ValidCounts(p)[t] = ValidCounts(rs)[t]
         /\ \A t \in E : ValidCounts(rs)[t] = Starts(ValidRows(rs), k) + ValidCounts(x)[t]
         /\ \A t \in DOMAIN rs : ValidCounts(rs)[t] \in Nat
    BY ValidCountsCut
  <1> HIDE DEF p, x
  <1>6. saved = IF D = {} THEN NoMoment ELSE Moment(p, NoMoment, Max(D))
    BY <1>1, <1>2, MomentSaved
  <1>7. rest.saved = IF E = {} THEN saved ELSE Moment(x, saved, Max(E))
    BY <1>1, <1>2, MomentSaved
  <1>8. whole.saved = IF DOMAIN rs = {} THEN NoMoment ELSE Moment(rs, NoMoment, Max(DOMAIN rs))
    BY <1>0, MomentSaved
  <1>9. /\ DOMAIN prefix.output = D
        /\ \A t \in D : prefix.output[t] = [value |-> <<NoMoment.value \cup SeenUntil(p, t),
                                                        NoMoment.count + ValidCounts(p)[t]>>,
                                           trace |-> TraceUntil(p, NoMoment, t)]
        /\ \A t \in DOMAIN rs : whole.output[t] = [value |-> <<NoMoment.value \cup SeenUntil(rs, t),
                                                               NoMoment.count + ValidCounts(rs)[t]>>,
                                                  trace |-> TraceUntil(rs, NoMoment, t)]
    BY <1>1, MomentsAre
  <1> HIDE DEF saved
  <1>10. /\ DOMAIN rest.output = E
         /\ \A t \in E : rest.output[t] = [value |-> <<saved.value \cup SeenUntil(x, t),
                                                       saved.count + ValidCounts(x)[t]>>,
                                           trace |-> TraceUntil(x, saved, t)]
    BY <1>1, MomentsAre
  <1> HIDE DEF prefix, rest, whole
  <1>11. \A t \in D : SeenUntil(p, t) = SeenUntil(rs, t) /\ TracesTo(p, t) = TracesTo(rs, t)
    <2> SUFFICES ASSUME NEW t \in D PROVE SeenUntil(p, t) = SeenUntil(rs, t) /\ TracesTo(p, t) = TracesTo(rs, t)
      OBVIOUS
    <2>1. {v \in DOMAIN p : v <= t} = {v \in DOMAIN rs : v <= t}
      BY <1>0, <1>1
    <2>2. \A v \in {v \in DOMAIN rs : v <= t} : p[v] = rs[v]
      BY <1>1, <2>1
    <2> QED
      BY <2>1, <2>2 DEF SeenUntil, TracesTo
  <1>12. \A t \in D : prefix.output[t] = whole.output[t]
    BY <1>9, <1>11, <1>15 DEF TraceUntil
  <1>13. CASE D = {}
    <2>1. rest = whole
      BY <1>4, <1>6, <1>13 DEF rest, whole
    <2> QED
      BY <1>9, <1>10, <1>12, <2>1, <1>13 DEF rest, whole, prefix, saved, x, p
  <1>14. CASE D # {}
    <2> DEFINE m == Max(D)
    <2>1. m \in DOMAIN rs /\ m <= k /\ \A t \in DOMAIN rs : t <= k => t <= m
      BY <1>0, <1>14, LastBefore
    <2> HIDE DEF m
    <2>2. m \in D
      BY <2>1
    <2>9. Starts(ValidRows(rs), k) = ValidCounts(rs)[m] /\ ValidCounts(rs)[m] \in Nat
      <3>1. DOMAIN ValidRows(rs) = DOMAIN rs
        BY DEF ValidRows
      <3> QED
        BY <1>0, <1>15, <2>1, <3>1, StartsOfLast DEF ValidCounts
    <2>3. saved = [NoMoment EXCEPT !.value = SeenUntil(rs, m), !.count = ValidCounts(rs)[m],
                                   !.run_trace = TraceUntil(rs, NoMoment, m)]
      <3>1. saved = Moment(p, NoMoment, m)
        BY <1>6, <1>14 DEF m
      <3>2. SeenUntil(p, m) = SeenUntil(rs, m) /\ TracesTo(p, m) = TracesTo(rs, m)
        BY <1>11, <2>2
      <3>3. NoMoment.value \cup SeenUntil(rs, m) = SeenUntil(rs, m)
        BY <1>5
      <3>4. NoMoment.count + ValidCounts(p)[m] = ValidCounts(rs)[m]
        BY <1>5, <1>15, <2>2, <2>9
      <3> QED
        BY <3>1, <3>2, <3>3, <3>4 DEF Moment, TraceUntil
    <2>4. /\ saved.value = SeenUntil(rs, m) /\ saved.count = ValidCounts(rs)[m]
          /\ saved.run_trace = TraceUntil(rs, NoMoment, m)
      BY <1>5, <2>3
    <2>5. ASSUME NEW t \in E
          PROVE  /\ saved.value \cup SeenUntil(x, t) = NoMoment.value \cup SeenUntil(rs, t)
                 /\ saved.count + ValidCounts(x)[t] = NoMoment.count + ValidCounts(rs)[t]
                 /\ TraceUntil(x, saved, t) = TraceUntil(rs, NoMoment, t)
      <3>8. saved.count + ValidCounts(x)[t] = NoMoment.count + ValidCounts(rs)[t]
        <4>1. t \in DOMAIN rs /\ NoMoment.count = 0
          BY <1>5
        <4> QED
          BY <1>15, <2>4, <2>9, <4>1
      <3>1. {v \in DOMAIN rs : v <= t} = {v \in DOMAIN rs : v <= m} \cup {v \in DOMAIN x : v <= t}
        BY <1>0, <1>1, <2>1
      <3>2. \A v \in {v \in DOMAIN x : v <= t} : x[v] = rs[v]
        BY <1>1
      <3>3. SeenUntil(rs, t) = SeenUntil(rs, m) \cup SeenUntil(x, t)
        BY <3>1, <3>2 DEF SeenUntil
      <3>4. TracesTo(rs, t) = TracesTo(rs, m) \cup TracesTo(x, t)
        BY <3>1, <3>2 DEF TracesTo
      <3>5. \A u : TraceSet(TracesTo(rs, u)) /\ TraceSet(TracesTo(x, u))
        <4> SUFFICES ASSUME NEW u, NEW r, r \in {rs, x} PROVE TraceSet(TracesTo(r, u))
          OBVIOUS
        <4>1. StreakRows(r)
          BY <1>1
        <4> DEFINE S == {v \in DOMAIN r : v <= u}
                   f == [v \in S |-> r[v].trace]
        <4>2. S \in SUBSET DOMAIN r
          OBVIOUS
        <4>3. IsFiniteSet(S)
          BY <4>1, <4>2, BoundedIsFinite, FS_Subset DEF StreakRows
        <4>4. TracesTo(r, u) = {f[v] : v \in DOMAIN f}
          BY DEF TracesTo
        <4>5. IsFiniteSet({f[v] : v \in DOMAIN f})
          <5>1. DOMAIN f = S
            OBVIOUS
          <5> HIDE DEF f, S
          <5> QED
            BY <4>3, <5>1, ColumnIsFinite
        <4>6. \A y \in TracesTo(r, u) : Number(y)
          BY <4>1 DEF TracesTo, StreakRows
        <4> HIDE DEF f, S
        <4> QED
          BY <4>4, <4>5, <4>6 DEF TraceSet
      <3>6. TraceSet({NoMoment.run_trace} \cup TracesTo(rs, m))
        <4>1. NoMoment.run_trace = Null
          BY <1>5
        <4>2. IsFiniteSet({NoMoment.run_trace} \cup TracesTo(rs, m))
          BY <3>5, FS_Singleton, FS_Union DEF TraceSet
        <4>3. Number(Null)
          BY DEF Number
        <4>4. \A y \in TracesTo(rs, m) : Number(y)
          BY <3>5 DEF TraceSet
        <4> QED
          BY <4>1, <4>2, <4>3, <4>4 DEF TraceSet
      <3>7. TraceUntil(x, saved, t) = TraceUntil(rs, NoMoment, t)
        <4> DEFINE A == {NoMoment.run_trace} \cup TracesTo(rs, m)
                   B == TracesTo(x, t)
        <4>1. TraceSet(A) /\ TraceSet(B)
          BY <3>5, <3>6
        <4>2. TraceUntil(x, saved, t) = Checkpoint!MaxHorizontal({Checkpoint!MaxHorizontal(A)} \cup B)
          BY <2>4 DEF TraceUntil
        <4>3. TraceUntil(rs, NoMoment, t) = Checkpoint!MaxHorizontal(A \cup B)
          <5>1. {NoMoment.run_trace} \cup TracesTo(rs, t) = A \cup B
            BY <3>4
          <5> QED
            BY <5>1 DEF TraceUntil
        <4> HIDE DEF A, B
        <4> QED
          BY <4>1, <4>2, <4>3, MaxHorizontalJoins
      <3> QED
        BY <1>5, <2>4, <3>3, <3>7, <3>8
    <2>6. \A t \in E : rest.output[t] = whole.output[t]
      BY <1>9, <1>10, <2>5
    <2>7. rest.saved = whole.saved
      <3>1. CASE E = {}
        BY <1>3, <1>7, <3>1 DEF saved, prefix, whole
      <3>2. CASE E # {}
        <4> DEFINE l == Max(E)
        <4>1. l \in E /\ Max(DOMAIN rs) = l
          BY <1>0, <3>2, LastBehind
        <4> HIDE DEF l
        <4>2. rest.saved = Moment(x, saved, l) /\ whole.saved = Moment(rs, NoMoment, l)
          BY <1>7, <1>8, <3>2, <4>1 DEF l
        <4>3. /\ saved.value \cup SeenUntil(x, l) = NoMoment.value \cup SeenUntil(rs, l)
              /\ saved.count + ValidCounts(x)[l] = NoMoment.count + ValidCounts(rs)[l]
              /\ TraceUntil(x, saved, l) = TraceUntil(rs, NoMoment, l)
          BY <2>5, <4>1
        <4>4. \A y, n, z : [saved EXCEPT !.value = y, !.count = n, !.run_trace = z]
                          = [NoMoment EXCEPT !.value = y, !.count = n, !.run_trace = z]
          BY <1>5, <2>3
        <4> QED
          BY <4>2, <4>3, <4>4 DEF Moment
      <3> QED
        BY <3>1, <3>2
    <2> QED
      BY <1>9, <1>10, <1>12, <2>6, <2>7 DEF rest, whole, prefix, saved, x, p
  <1> QED
    BY <1>13, <1>14

-----------------------------------------------------------------------------
(* Rolling estimators. *)

Cell == {Absent} \cup [value : Int \cup {Null}, trace : Int \cup {Null}]
Estimator(c) == c.window \in Nat /\ c.label_maturity \in Nat
FitsIn(c, a, b) == {u \in a .. b : Checkpoint!Fits(c, u)}

\* Of two sources: the features agree up to k, and so do the labels that fits up to k consume.
Agreeing(c, p, s, k) ==
    \A t \in 1 .. k :
        /\ p[t] = Absent <=> s[t] = Absent
        /\ p[t] # Absent => p[t].value = s[t].value
        /\ t <= Checkpoint!LabelEnd(c, k) => p[t] = s[t]

LEMMA FitsAreBounded ==
    ASSUME NEW c, NEW a \in Nat, NEW b \in Nat, FitsIn(c, a, b) # {}
    PROVE  LET u == Max(FitsIn(c, a, b)) IN
           /\ u \in Nat /\ a <= u /\ u <= b /\ Checkpoint!Fits(c, u) /\ \A v \in FitsIn(c, a, b) : v <= u
  <1> DEFINE S == FitsIn(c, a, b)
  <1>1. S \in SUBSET Nat /\ (\A v \in S : a <= v /\ v <= b /\ Checkpoint!Fits(c, v))
    BY DEF FitsIn
  <1> HIDE DEF S
  <1>2. Max(S) \in S /\ \A v \in S : v <= Max(S)
    BY <1>1, MaxOfBounded DEF S
  <1> QED
    BY <1>1, <1>2 DEF S

\* Every label of a fit up to k is one that is proven.
LEMMA FitLabels ==
    ASSUME NEW c, Estimator(c), NEW k \in Nat, NEW u \in FitsIn(c, 1, k)
    PROVE  Checkpoint!LabelEnd(c, k) \in Nat /\ u - c.label_maturity <= Checkpoint!LabelEnd(c, k)
  <1> DEFINE l == Max(FitsIn(c, 1, k))
             d == l - c.label_maturity
  <1>1. l \in Nat /\ u <= l /\ u \in Nat /\ c.label_maturity \in Nat
    <2>1. 1 \in Nat /\ FitsIn(c, 1, k) # {}
      OBVIOUS
    <2>2. l \in Nat /\ u <= l
      BY <2>1, FitsAreBounded
    <2>3. u \in Nat
      BY DEF FitsIn
    <2> QED
      BY <2>2, <2>3 DEF Estimator
  <1>2. Checkpoint!LabelEnd(c, k) = Max({0, d})
    <2> DEFINE F == {v \in 1 .. k : Checkpoint!Fits(c, v)}
    <2>1. F = FitsIn(c, 1, k) /\ F # {}
      BY DEF FitsIn
    <2>2. Checkpoint!LabelEnd(c, k) =
            IF F = {} THEN 0 ELSE Checkpoint!Max({0, Checkpoint!Max(F) - c.label_maturity})
      BY DEF Checkpoint!LabelEnd
    <2> HIDE DEF F
    <2> QED
      BY <2>1, <2>2, KernelBounds
  <1> HIDE DEF l
  <1>3. d \in Int /\ u - c.label_maturity <= d
    BY <1>1
  <1> HIDE DEF d
  <1>4. Max({0, d}) \in {0, d} /\ 0 <= Max({0, d}) /\ d <= Max({0, d})
    <2>1. \E x \in {0, d} : \A y \in {0, d} : x >= y
      BY <1>3
    <2>2. Max({0, d}) \in {0, d} /\ \A y \in {0, d} : Max({0, d}) >= y
      BY <2>1 DEF Max
    <2> QED
      BY <1>3, <2>2
  <1>5. \A x \in {0, d} : 0 <= x => x \in Nat
    BY <1>3
  <1> QED
    BY <1>1, <1>2, <1>3, <1>4, <1>5

LEMMA FitsAgree ==
    ASSUME NEW c, Estimator(c), NEW k \in Nat, NEW p, NEW s, Agreeing(c, p, s, k), NEW u \in FitsIn(c, 1, k)
    PROVE  Checkpoint!Fit(c, p, u) = Checkpoint!Fit(c, s, u)
  <1> DEFINE last == u - c.label_maturity
             first == Checkpoint!Max({1, last - c.window + 1})
             P == {v \in first .. last : Checkpoint!Trainable(p[v])}
             S == {v \in first .. last : Checkpoint!Trainable(s[v])}
  <1>1. u \in Nat /\ u <= k /\ c.label_maturity \in Nat /\ c.window \in Nat
    BY DEF FitsIn, Estimator
  <1>2. Checkpoint!LabelEnd(c, k) \in Nat /\ last <= Checkpoint!LabelEnd(c, k)
    BY FitLabels
  <1>3. last \in Int /\ last <= k
    BY <1>1
  <1>4. first \in Int /\ 1 <= first
    <2> DEFINE e == last - c.window + 1
    <2>1. e \in Int
      BY <1>1
    <2> HIDE DEF e
    <2>2. \E x \in {1, e} : \A y \in {1, e} : x >= y
      BY <2>1
    <2>3. first \in {1, e} /\ first >= 1
      BY <2>2 DEF Checkpoint!Max, e
    <2> HIDE DEF first
    <2> QED
      BY <2>1, <2>3
  <1> HIDE DEF last, first
  <1>5. \A v \in first .. last : p[v] = s[v]
    BY <1>1, <1>2, <1>3, <1>4 DEF Agreeing
  <1>6. P = S
    BY <1>5
  <1> DEFINE days == Checkpoint!Sampled(c, P)
  <1>7. days \subseteq P
    BY DEF Checkpoint!Sampled
  <1>8. \A v \in days : p[v] = s[v]
    BY <1>5, <1>7
  <1> DEFINE before(v) == [time |-> v, feature |-> p[v].value, label |-> p[v].trace]
             after(v) == [time |-> v, feature |-> s[v].value, label |-> s[v].trace]
  <1>9. Checkpoint!Fit(c, p, u) =
          IF Checkpoint!Cardinality(days) < c.min_samples THEN Null ELSE {before(v) : v \in days}
    BY DEF Checkpoint!Fit, last, first
  <1>10. Checkpoint!Fit(c, s, u) =
          IF Checkpoint!Cardinality(days) < c.min_samples THEN Null ELSE {after(v) : v \in days}
    BY <1>6 DEF Checkpoint!Fit, last, first
  <1> HIDE DEF days
  <1>11. \A v \in days : before(v) = after(v)
    BY <1>8
  <1> HIDE DEF before, after
  <1> QED
    BY <1>9, <1>10, <1>11

\* The model in effect, of fits after `after` or before.
ModelAt(c, s, after, t, restored) ==
    IF FitsIn(c, after + 1, t) = {} THEN restored
    ELSE Checkpoint!Fit(c, s, Max(FitsIn(c, after + 1, t)))

LEMMA ModelsAre ==
    ASSUME NEW c, NEW s, NEW n, NEW after, NEW restored
    PROVE  Checkpoint!Models(c, s, n, after, restored) = [t \in after .. n |-> ModelAt(c, s, after, t, restored)]
  BY KernelBounds DEF Checkpoint!Models, ModelAt, FitsIn

LEMMA ModelsBefore ==
    ASSUME NEW c, Estimator(c), NEW k \in Nat, NEW p, NEW s, Agreeing(c, p, s, k), NEW t \in 0 .. k
    PROVE  ModelAt(c, p, 0, t, Null) = ModelAt(c, s, 0, t, Null)
  <1> DEFINE F == FitsIn(c, 1, t)
  <1>1. F # {} => Max(F) \in FitsIn(c, 1, k)
    <2> SUFFICES ASSUME F # {} PROVE Max(F) \in FitsIn(c, 1, k)
      OBVIOUS
    <2> DEFINE u == Max(F)
    <2>1. u \in Nat /\ 1 <= u /\ u <= t /\ Checkpoint!Fits(c, u)
      BY FitsAreBounded
    <2> HIDE DEF u
    <2>2. u \in 1 .. k
      BY <2>1
    <2> QED
      BY <2>1, <2>2 DEF FitsIn, u
  <1>2. F # {} => Checkpoint!Fit(c, p, Max(F)) = Checkpoint!Fit(c, s, Max(F))
    BY <1>1, FitsAgree
  <1>3. 0 + 1 = 1
    OBVIOUS
  <1> QED
    BY <1>2, <1>3 DEF ModelAt

LEMMA ModelsBehind ==
    ASSUME NEW c, NEW k \in Nat, NEW s, NEW n \in Nat, NEW t \in k .. n
    PROVE  ModelAt(c, s, k, t, ModelAt(c, s, 0, k, Null)) = ModelAt(c, s, 0, t, Null)
  <1> DEFINE A == FitsIn(c, 1, k)
             B == FitsIn(c, k + 1, t)
             W == FitsIn(c, 1, t)
  <1>1. t \in Nat /\ k <= t
    OBVIOUS
  <1>2. W = A \cup B
    BY <1>1 DEF FitsIn
  <1>3. 0 + 1 = 1
    OBVIOUS
  <1>4. CASE B = {}
    <2>1. W = A
      BY <1>2, <1>4
    <2> QED
      BY <1>3, <1>4, <2>1 DEF ModelAt
  <1>5. CASE B # {}
    <2> DEFINE u == Max(B)
    <2>1. u \in Nat /\ k + 1 <= u /\ u <= t /\ Checkpoint!Fits(c, u) /\ \A v \in B : v <= u
      BY <1>1, <1>5, FitsAreBounded
    <2> HIDE DEF u
    <2>2. u \in W /\ \A v \in W : v <= u
      <3>1. \A v \in A : v <= k /\ v \in Nat
        BY DEF FitsIn
      <3>2. u \in W
        BY <2>1 DEF FitsIn
      <3> HIDE DEF A, B, W
      <3> QED
        BY <1>2, <2>1, <3>1, <3>2
    <2>3. Max(W) = u
      <3>1. W # {}
        BY <2>2
      <3>2. Max(W) \in Nat /\ Max(W) \in W /\ \A v \in W : v <= Max(W)
        <4>1. W \in SUBSET Nat /\ \A v \in W : v <= t
          BY <1>1 DEF FitsIn
        <4> HIDE DEF W
        <4> QED
          BY <1>1, <3>1, <4>1, MaxOfBounded
      <3> HIDE DEF W
      <3> QED
        BY <2>1, <2>2, <3>2
    <2>4. ModelAt(c, s, 0, t, Null) = Checkpoint!Fit(c, s, u)
      BY <1>3, <2>2, <2>3 DEF ModelAt
    <2>5. ModelAt(c, s, k, t, ModelAt(c, s, 0, k, Null)) = Checkpoint!Fit(c, s, u)
      BY <1>5 DEF ModelAt, u
    <2> QED
      BY <2>4, <2>5
  <1> QED
    BY <1>4, <1>5

-----------------------------------------------------------------------------
(* Kernels over a source and over a prefix of it. *)

\* Cells up to a session, followed by those behind it.
Joins(f, g, h, k, n) ==
    /\ f = [i \in 1 .. k |-> f[i]] /\ g = [i \in 1 .. n - k |-> g[i]] /\ h = [i \in 1 .. n |-> h[i]]
    /\ \A i \in 1 .. k : f[i] = h[i]
    /\ \A i \in 1 .. n - k : g[i] = h[k + i]

LEMMA CellsJoin ==
    ASSUME NEW k \in Nat, NEW n \in Nat, k <= n, NEW f, NEW g, NEW h, Joins(f, g, h, k, n)
    PROVE  f \o g = h
  <1> DEFINE S == {f[i] : i \in 1 .. k} \cup {g[i] : i \in 1 .. n - k}
  <1>0. n - k \in Nat
    OBVIOUS
  <1>1. f \in Seq(S) /\ Len(f) = k
    <2>0. f = [i \in 1 .. k |-> f[i]] /\ \A i \in 1 .. k : f[i] \in S
      BY DEF Joins
    <2> HIDE DEF S
    <2>1. f \in [1 .. k -> S]
      BY <2>0, Zenon
    <2> QED
      BY <2>1
  <1>2. g \in Seq(S) /\ Len(g) = n - k
    <2>0. g = [i \in 1 .. n - k |-> g[i]] /\ \A i \in 1 .. n - k : g[i] \in S
      BY DEF Joins
    <2> HIDE DEF S
    <2>1. g \in [1 .. n - k -> S]
      BY <2>0, Zenon
    <2> QED
      BY <1>0, <2>1
  <1> HIDE DEF S
  <1>3. /\ f \o g \in Seq(S) /\ Len(f \o g) = k + (n - k)
        /\ \A i \in 1 .. k + (n - k) : (f \o g)[i] = IF i <= k THEN f[i] ELSE g[i - k]
    <2>1. /\ f \o g \in Seq(S) /\ Len(f \o g) = Len(f) + Len(g)
          /\ \A i \in 1 .. Len(f) + Len(g) : (f \o g)[i] = IF i <= Len(f) THEN f[i] ELSE g[i - Len(f)]
      BY <1>1, <1>2, ConcatProperties
    <2> QED
      BY <1>1, <1>2, <2>1, Zenon
  <1>4. k + (n - k) = n
    OBVIOUS
  <1>5. \A i \in 1 .. n : (f \o g)[i] = h[i]
    <2> SUFFICES ASSUME NEW i \in 1 .. n PROVE (f \o g)[i] = h[i]
      OBVIOUS
    <2>1. CASE i <= k
      <3>1. (f \o g)[i] = f[i]
        BY <1>3, <1>4, <2>1
      <3>2. i \in 1 .. k
        BY <2>1
      <3>3. f[i] = h[i]
        BY <3>2 DEF Joins
      <3> QED
        BY <3>1, <3>3
    <2>2. CASE i > k
      <3>1. i - k \in 1 .. n - k /\ k + (i - k) = i
        BY <2>2
      <3>2. (f \o g)[i] = g[i - k]
        BY <1>3, <1>4, <2>2
      <3>3. g[i - k] = h[k + (i - k)]
        BY <3>1 DEF Joins
      <3> QED
        BY <3>1, <3>2, <3>3
    <2>3. i <= k \/ i > k
      OBVIOUS
    <2> QED
      BY <2>1, <2>2, <2>3, Zenon
  <1>7. f \o g = [i \in 1 .. n |-> (f \o g)[i]]
    <2> DEFINE j == f \o g
    <2>1. j \in Seq(S) /\ Len(j) = n
      BY <1>3, <1>4
    <2> HIDE DEF j
    <2>2. j = [i \in 1 .. n |-> j[i]]
      BY <2>1
    <2> QED
      BY <2>2 DEF j
  <1>8. h = [i \in 1 .. n |-> h[i]]
    BY DEF Joins
  <1> QED
    BY <1>5, <1>7, <1>8

-----------------------------------------------------------------------------
(* Kernels, continued from what they leave over a prefix. *)

LEMMA RowsAre ==
    ASSUME NEW s \in Seq(Cell), NEW first \in Nat, 1 <= first
    PROVE  LET rs == Checkpoint!Rows(s, first) IN
           /\ StreakRows(rs) /\ Column(rs)
           /\ DOMAIN rs = {t \in 1 .. Len(s) : first <= t /\ s[t] # Absent}
           /\ \A t \in DOMAIN rs : rs[t] = s[t]
  <1> DEFINE rs == Checkpoint!Rows(s, first)
  <1>1. Len(s) \in Nat /\ \A t \in 1 .. Len(s) : s[t] \in Cell
    BY LenProperties, ElementOfSeq
  <1>2. /\ DOMAIN rs = {t \in 1 .. Len(s) : first <= t /\ s[t] # Absent}
        /\ \A t \in DOMAIN rs : rs[t] = s[t]
    <2>1. Checkpoint!Members(s, first) = {t \in 1 .. Len(s) : first <= t /\ s[t] # Absent}
      BY <1>1 DEF Checkpoint!Members
    <2> QED
      BY <2>1 DEF Checkpoint!Rows
  <1>3. Column(rs)
    BY DEF Checkpoint!Rows, Column
  <1> HIDE DEF rs
  <1>4. Bounded(DOMAIN rs)
    <2>1. DOMAIN rs \in SUBSET Nat /\ \A t \in DOMAIN rs : t <= Len(s)
      BY <1>1, <1>2
    <2> QED
      BY <1>1, <2>1 DEF Bounded
  <1>5. \A t \in DOMAIN rs : Number(rs[t].value) /\ Number(rs[t].trace)
    <2> SUFFICES ASSUME NEW t \in DOMAIN rs PROVE Number(rs[t].value) /\ Number(rs[t].trace)
      OBVIOUS
    <2>1. rs[t] \in [value : Int \cup {Null}, trace : Int \cup {Null}]
      BY <1>1, <1>2 DEF Cell
    <2> QED
      BY <2>1 DEF Number
  <1> QED
    BY <1>2, <1>3, <1>4, <1>5 DEF StreakRows, rs

LEMMA AllRows ==
    ASSUME NEW s \in Seq(Cell)
    PROVE  /\ StreakRows(Checkpoint!Rows(s, 1)) /\ Column(Checkpoint!Rows(s, 1))
           /\ DOMAIN Checkpoint!Rows(s, 1) = {t \in 1 .. Len(s) : s[t] # Absent}
           /\ \A t \in {t \in 1 .. Len(s) : s[t] # Absent} : Checkpoint!Rows(s, 1)[t] = s[t]
  <1> DEFINE rs == Checkpoint!Rows(s, 1)
  <1>1. 1 \in Nat /\ 1 <= 1 /\ Len(s) \in Nat
    BY LenProperties
  <1>2. StreakRows(rs) /\ Column(rs)
    BY <1>1, RowsAre
  <1>3. DOMAIN rs = {t \in 1 .. Len(s) : 1 <= t /\ s[t] # Absent} /\ \A t \in DOMAIN rs : rs[t] = s[t]
    BY <1>1, RowsAre
  <1>4. {t \in 1 .. Len(s) : 1 <= t /\ s[t] # Absent} = {t \in 1 .. Len(s) : s[t] # Absent}
    BY <1>1
  <1> HIDE DEF rs
  <1> QED
    BY <1>2, <1>3, <1>4 DEF rs

LEMMA RowsCut ==
    ASSUME NEW s \in Seq(Cell), NEW k \in 0 .. Len(s), NEW p \in Seq(Cell), Len(p) = k,
           \A t \in 1 .. k : p[t] = s[t]
    PROVE  /\ Checkpoint!Rows(p, 1) = Upto(Checkpoint!Rows(s, 1), k)
           /\ Checkpoint!Rows(s, k + 1) = Beyond(Checkpoint!Rows(s, 1), k)
  <1> DEFINE w == Checkpoint!Rows(s, 1)
             a == Checkpoint!Rows(p, 1)
             b == Checkpoint!Rows(s, k + 1)
             D == {t \in 1 .. Len(s) : s[t] # Absent}
             A == {t \in D : t <= k}
             B == {t \in D : t > k}
  <1>0. Len(s) \in Nat /\ k \in Nat /\ k <= Len(s)
    BY LenProperties
  <1>1. DOMAIN w = D /\ \A t \in D : w[t] = s[t]
    BY AllRows
  <1>2. Column(a) /\ DOMAIN a = A /\ \A t \in A : a[t] = s[t]
    <2> DEFINE P == {t \in 1 .. Len(p) : p[t] # Absent}
    <2>1. Column(a) /\ DOMAIN a = P /\ \A t \in P : a[t] = p[t]
      BY AllRows
    <2>2. P = A
      BY <1>0
    <2>3. \A t \in A : p[t] = s[t]
      BY <1>0
    <2> HIDE DEF a, A, P
    <2> QED
      BY <2>1, <2>2, <2>3
  <1>3. Column(b) /\ DOMAIN b = B /\ \A t \in B : b[t] = s[t]
    <2>1. k + 1 \in Nat /\ 1 <= k + 1
      BY <1>0
    <2>2. /\ Column(b)
          /\ DOMAIN b = {t \in 1 .. Len(s) : k + 1 <= t /\ s[t] # Absent} /\ \A t \in DOMAIN b : b[t] = s[t]
      BY <2>1, RowsAre
    <2>3. {t \in 1 .. Len(s) : k + 1 <= t /\ s[t] # Absent} = B
      BY <1>0
    <2> HIDE DEF b, B
    <2> QED
      BY <2>2, <2>3
  <1>4. \A t \in A : t \in D
    OBVIOUS
  <1>5. \A t \in B : t \in D
    OBVIOUS
  <1>6. Upto(w, k) = [t \in A |-> w[t]] /\ Beyond(w, k) = [t \in B |-> w[t]]
    BY <1>1 DEF Upto, Beyond
  <1> HIDE DEF w, a, b, D, A, B
  <1>7. a = [t \in A |-> w[t]]
    BY <1>1, <1>2, <1>4 DEF Column
  <1>8. b = [t \in B |-> w[t]]
    BY <1>1, <1>3, <1>5 DEF Column
  <1> QED
    BY <1>6, <1>7, <1>8 DEF w, a, b

\* A streak or a moment over a table.
Run(rs, seed) ==
    IF operation = "ewm" THEN Checkpoint!Moments(rs, seed) ELSE Checkpoint!Streak(rs, seed, operation = "reset")

LEMMA RunContinues ==
    ASSUME Null \notin Int, NEW rs, StreakRows(rs), Column(rs), NEW k \in Nat
    PROVE  LET whole == Run(rs, Checkpoint!Unseeded)
               prefix == Run(Upto(rs, k), Checkpoint!Unseeded)
               rest == Run(Beyond(rs, k), prefix.saved)
           IN  /\ \A t \in DOMAIN rs : t <= k => prefix.output[t] = whole.output[t]
               /\ \A t \in DOMAIN rs : t > k => rest.output[t] = whole.output[t]
               /\ rest.saved = whole.saved
  <1>1. CASE operation = "ewm"
    <2>1. Checkpoint!Unseeded = NoMoment
      BY <1>1 DEF Checkpoint!Unseeded, NoMoment
    <2> QED
      BY <1>1, <2>1, MomentsContinue DEF Run
  <1>2. CASE operation # "ewm"
    <2>1. Checkpoint!Unseeded = Checkpoint!NoSeed
      BY <1>2 DEF Checkpoint!Unseeded
    <2> DEFINE resets == operation = "reset"
    <2>2. resets \in BOOLEAN
      OBVIOUS
    <2>3. \A x, seed : Run(x, seed) = Checkpoint!Streak(x, seed, resets)
      BY <1>2 DEF Run
    <2> HIDE DEF resets
    <2> DEFINE whole == Checkpoint!Streak(rs, Checkpoint!NoSeed, resets)
               prefix == Checkpoint!Streak(Upto(rs, k), Checkpoint!NoSeed, resets)
               rest == Checkpoint!Streak(Beyond(rs, k), prefix.saved, resets)
    <2>4. /\ DOMAIN prefix.output = {t \in DOMAIN rs : t <= k}
          /\ \A t \in DOMAIN prefix.output : prefix.output[t] = whole.output[t]
      BY <2>2, StreakBefore
    <2>5. /\ DOMAIN rest.output = {t \in DOMAIN rs : t > k}
          /\ \A t \in DOMAIN rest.output : rest.output[t] = whole.output[t]
          /\ rest.saved = whole.saved
      BY <2>2, StreakContinues
    <2>6. /\ Run(rs, Checkpoint!Unseeded) = whole
          /\ Run(Upto(rs, k), Checkpoint!Unseeded) = prefix
          /\ Run(Beyond(rs, k), Run(Upto(rs, k), Checkpoint!Unseeded).saved) = rest
      BY <2>1, <2>3
    <2> HIDE DEF whole, prefix, rest
    <2> QED
      BY <2>4, <2>5, <2>6
  <1> QED
    BY <1>1, <1>2

\* A moment has state where it has seen a row.
Leaves(s) == operation = "ewm" => Checkpoint!Members(s, 1) # {}

ContinuesAt(kernel, s, after, rs, seed) ==
    /\ kernel.cells = [i \in 1 .. Len(s) - after |->
                         IF s[after + i] = Absent THEN Absent ELSE Run(rs, seed).output[after + i]]
    /\ kernel.checkpoint # None => (operation = "ewm" => DOMAIN rs # {})
    /\ (operation = "ewm" => DOMAIN rs # {}) => kernel.checkpoint.state = Run(rs, seed).saved

LEMMA ContinuationIs ==
    ASSUME NEW s, NEW after, NEW seed, operation # "train"
    PROVE  ContinuesAt(Checkpoint!Kernel(s, after, seed), s, after, Checkpoint!Rows(s, after + 1), seed)
  BY DEF Checkpoint!Kernel, Checkpoint!Continuation, Run, ContinuesAt

LEMMA ContinuationContinues ==
    ASSUME Null \notin Int, operation # "train",
           NEW s \in Seq(Cell), NEW k \in 0 .. Len(s), NEW p \in Seq(Cell), Len(p) = k,
           \A t \in 1 .. k : p[t] = s[t], Leaves(p)
    PROVE  LET a == Checkpoint!WholeHistory(p)
               b == Checkpoint!WholeHistory(s)
               c == Checkpoint!Kernel(s, k, a.checkpoint.state)
           IN  /\ a.cells \o c.cells = b.cells
               /\ c.checkpoint # None => Leaves(s) /\ c.checkpoint.state = b.checkpoint.state
               /\ k = Len(s) => a.cells = b.cells /\ Leaves(s) /\ a.checkpoint.state = b.checkpoint.state
  <1> DEFINE seed == Checkpoint!Unseeded
             w == Checkpoint!Rows(s, 1)
             whole == Run(w, seed)
             prefix == Run(Upto(w, k), seed)
             saved == prefix.saved
             rest == Run(Beyond(w, k), saved)
             a == Checkpoint!WholeHistory(p)
             b == Checkpoint!WholeHistory(s)
             c == Checkpoint!Kernel(s, k, a.checkpoint.state)
             D == {t \in 1 .. Len(s) : s[t] # Absent}
  <1>0. Len(s) \in Nat /\ k \in Nat /\ k <= Len(s)
    BY LenProperties
  <1>1. Checkpoint!Rows(p, 1) = Upto(w, k) /\ Checkpoint!Rows(s, k + 1) = Beyond(w, k)
    BY RowsCut
  <1>2. StreakRows(w) /\ Column(w) /\ DOMAIN w = D
    BY AllRows
  <1>3. DOMAIN Upto(w, k) = Checkpoint!Members(p, 1) /\ DOMAIN w = Checkpoint!Members(s, 1)
    <2>1. DOMAIN Checkpoint!Rows(p, 1) = Checkpoint!Members(p, 1)
      BY DEF Checkpoint!Rows
    <2>2. DOMAIN w = Checkpoint!Members(s, 1)
      BY DEF Checkpoint!Rows
    <2> QED
      BY <1>1, <2>1, <2>2
  <1>4. DOMAIN Upto(w, k) \subseteq DOMAIN w /\ DOMAIN Beyond(w, k) \subseteq DOMAIN w
    BY DEF Upto, Beyond
  <1>5. 0 + 1 = 1
    OBVIOUS
  <1> HIDE DEF w, seed
  <1>6. /\ \A t \in D : t <= k => prefix.output[t] = whole.output[t]
        /\ \A t \in D : t > k => rest.output[t] = whole.output[t]
        /\ rest.saved = whole.saved
    BY <1>0, <1>2, RunContinues DEF seed
  <1> HIDE DEF prefix, whole, rest, D
  <1>7. /\ b.cells = [i \in 1 .. Len(s) |-> IF s[i] = Absent THEN Absent ELSE whole.output[i]]
        /\ Leaves(s) => b.checkpoint.state = whole.saved
    <2>1. \A i \in 1 .. Len(s) : 0 + i = i
      OBVIOUS
    <2>2. Len(s) - 0 = Len(s)
      BY <1>0
    <2>3. /\ b.cells = [i \in 1 .. Len(s) - 0 |->
                          IF s[0 + i] = Absent THEN Absent ELSE whole.output[0 + i]]
          /\ (operation = "ewm" => DOMAIN w # {}) => b.checkpoint.state = whole.saved
      <3>1. ContinuesAt(b, s, 0, Checkpoint!Rows(s, 0 + 1), seed)
        BY ContinuationIs DEF Checkpoint!WholeHistory, seed
      <3> HIDE DEF b
      <3> QED
        BY <1>5, <3>1 DEF w, whole, ContinuesAt
    <2> HIDE DEF b
    <2> QED
      BY <1>3, <2>1, <2>2, <2>3 DEF Leaves
  <1>8. /\ a.cells = [i \in 1 .. k |-> IF p[i] = Absent THEN Absent ELSE prefix.output[i]]
        /\ a.checkpoint.state = saved
    <2>1. \A i \in 1 .. k : 0 + i = i
      OBVIOUS
    <2>2. Len(p) - 0 = k
      BY <1>0
    <2>3. /\ a.cells = [i \in 1 .. Len(p) - 0 |->
                          IF p[0 + i] = Absent THEN Absent ELSE prefix.output[0 + i]]
          /\ (operation = "ewm" => DOMAIN Upto(w, k) # {}) => a.checkpoint.state = prefix.saved
      <3>1. ContinuesAt(a, p, 0, Checkpoint!Rows(p, 0 + 1), seed)
        BY ContinuationIs DEF Checkpoint!WholeHistory, seed
      <3> HIDE DEF a
      <3> QED
        BY <1>1, <1>5, <3>1 DEF prefix, ContinuesAt
    <2> HIDE DEF a
    <2> QED
      BY <1>3, <2>1, <2>2, <2>3 DEF Leaves
  <1>9. /\ c.cells = [i \in 1 .. Len(s) - k |-> IF s[k + i] = Absent THEN Absent ELSE rest.output[k + i]]
        /\ c.checkpoint # None => (operation = "ewm" => DOMAIN Beyond(w, k) # {}) /\ c.checkpoint.state = rest.saved
    <2>1. c = Checkpoint!Kernel(s, k, saved)
      BY <1>8
    <2> HIDE DEF a, saved, c
    <2>2. /\ c.cells = [i \in 1 .. Len(s) - k |-> IF s[k + i] = Absent THEN Absent ELSE rest.output[k + i]]
          /\ c.checkpoint # None => (operation = "ewm" => DOMAIN Beyond(w, k) # {})
          /\ (operation = "ewm" => DOMAIN Beyond(w, k) # {}) => c.checkpoint.state = rest.saved
      <3>1. ContinuesAt(Checkpoint!Kernel(s, k, saved), s, k, Checkpoint!Rows(s, k + 1), saved)
        BY ContinuationIs
      <3> QED
        BY <1>1, <2>1, <3>1 DEF rest, ContinuesAt
    <2> QED
      BY <2>2
  <1> HIDE DEF a, b, c, saved
  <1>10. a.cells \o c.cells = b.cells
    <2>1. ASSUME NEW i \in 1 .. k PROVE a.cells[i] = b.cells[i]
      <3>1. i \in 1 .. Len(s) /\ i <= k /\ p[i] = s[i]
        BY <1>0
      <3>2. s[i] # Absent => prefix.output[i] = whole.output[i]
        BY <1>6, <3>1 DEF D
      <3> QED
        BY <1>7, <1>8, <3>1, <3>2
    <2>2. ASSUME NEW i \in 1 .. Len(s) - k PROVE c.cells[i] = b.cells[k + i]
      <3>1. k + i \in 1 .. Len(s) /\ k + i > k
        BY <1>0
      <3>2. s[k + i] # Absent => rest.output[k + i] = whole.output[k + i]
        BY <1>6, <3>1 DEF D
      <3> QED
        BY <1>7, <1>9, <3>1, <3>2
    <2>3. a.cells = [i \in 1 .. k |-> a.cells[i]]
      BY <1>8
    <2>4. b.cells = [i \in 1 .. Len(s) |-> b.cells[i]]
      BY <1>7
    <2>5. c.cells = [i \in 1 .. Len(s) - k |-> c.cells[i]]
      BY <1>9
    <2> DEFINE f == a.cells
               g == c.cells
               h == b.cells
    <2> HIDE DEF f, g, h
    <2>6. f \o g = h
      <3>1. Joins(f, g, h, k, Len(s))
        BY <2>1, <2>2, <2>3, <2>4, <2>5 DEF f, g, h, Joins
      <3> QED
        BY <1>0, <3>1, CellsJoin
    <2> QED
      BY <2>6 DEF f, g, h
  <1>11. c.checkpoint # None => Leaves(s) /\ c.checkpoint.state = b.checkpoint.state
    <2> SUFFICES ASSUME c.checkpoint # None PROVE Leaves(s) /\ c.checkpoint.state = b.checkpoint.state
      OBVIOUS
    <2>1. Leaves(s)
      BY <1>3, <1>4, <1>9 DEF Leaves
    <2> QED
      BY <1>6, <1>7, <1>9, <2>1
  <1>12. k = Len(s) => a.cells = b.cells /\ Leaves(s) /\ a.checkpoint.state = b.checkpoint.state
    <2> SUFFICES ASSUME k = Len(s) PROVE a.cells = b.cells /\ Leaves(s) /\ a.checkpoint.state = b.checkpoint.state
      OBVIOUS
    <2>1. p = s
      <3>1. p = [t \in 1 .. k |-> p[t]] /\ s = [t \in 1 .. k |-> s[t]]
        BY LenProperties
      <3> QED
        BY <3>1
    <2> QED
      BY <2>1 DEF a, b
  <1> QED
    BY <1>10, <1>11, <1>12 DEF a, b, c

LEMMA TrainingContinues ==
    ASSUME operation = "train", Estimator(scope.training),
           NEW s \in Seq(Cell), NEW k \in 0 .. Len(s), NEW p \in Seq(Cell), Len(p) = k,
           Agreeing(scope.training, p, s, k)
    PROVE  LET a == Checkpoint!WholeHistory(p)
               b == Checkpoint!WholeHistory(s)
               c == Checkpoint!Kernel(s, k, a.checkpoint.state)
           IN  /\ a.cells \o c.cells = b.cells
               /\ c.checkpoint.state = b.checkpoint.state
               /\ k = Len(s) => a.cells = b.cells /\ a.checkpoint.state = b.checkpoint.state
  <1> DEFINE e == scope.training
             a == Checkpoint!WholeHistory(p)
             b == Checkpoint!WholeHistory(s)
             c == Checkpoint!Kernel(s, k, a.checkpoint.state)
             model(t) == ModelAt(e, s, 0, t, Null)
             state(x) == [Checkpoint!NoSeed EXCEPT !.value = x]
  <1>0. Len(s) \in Nat /\ k \in Nat /\ k <= Len(s)
    BY LenProperties
  <1>1. Checkpoint!Unseeded.value = Null
    BY DEF Checkpoint!Unseeded, Checkpoint!NoSeed
  <1>2. \A x : state(x).value = x
    BY DEF Checkpoint!NoSeed
  <1>3. \A x, after, seed :
          LET kernel == Checkpoint!Kernel(x, after, seed) IN
          /\ kernel.cells = [i \in 1 .. Len(x) - after |->
                 Checkpoint!Predicted(Checkpoint!Models(e, x, Len(x), after, seed.value)[after + i], x[after + i])]
          /\ kernel.checkpoint.state = state(Checkpoint!Models(e, x, Len(x), after, seed.value)[Len(x)])
    BY DEF Checkpoint!Kernel, Checkpoint!Training
  <1> HIDE DEF e, state
  <1>4. /\ b.cells = [i \in 1 .. Len(s) |-> Checkpoint!Predicted(model(i), s[i])]
        /\ b.checkpoint.state = state(model(Len(s)))
    <2> DEFINE m == Checkpoint!Models(e, s, Len(s), 0, Null)
    <2>1. /\ b.cells = [i \in 1 .. Len(s) - 0 |-> Checkpoint!Predicted(m[0 + i], s[0 + i])]
          /\ b.checkpoint.state = state(m[Len(s)])
      BY <1>1, <1>3 DEF Checkpoint!WholeHistory
    <2>2. m = [t \in 0 .. Len(s) |-> model(t)]
      BY ModelsAre
    <2> HIDE DEF m, b, model
    <2>3. Len(s) - 0 = Len(s) /\ \A i \in 1 .. Len(s) : 0 + i = i /\ i \in 0 .. Len(s)
      BY <1>0
    <2>4. m[Len(s)] = model(Len(s)) /\ \A i \in 1 .. Len(s) : m[i] = model(i)
      BY <1>0, <2>2, <2>3
    <2> QED
      BY <2>1, <2>3, <2>4
  <1>5. \A t \in 0 .. k : ModelAt(e, p, 0, t, Null) = model(t)
    BY <1>0, ModelsBefore DEF e
  <1>6. /\ a.cells = [i \in 1 .. k |-> Checkpoint!Predicted(model(i), p[i])]
        /\ a.checkpoint.state = state(model(k))
    <2> DEFINE m == Checkpoint!Models(e, p, k, 0, Null)
    <2>1. /\ a.cells = [i \in 1 .. k - 0 |-> Checkpoint!Predicted(m[0 + i], p[0 + i])]
          /\ a.checkpoint.state = state(m[k])
      BY <1>1, <1>3 DEF Checkpoint!WholeHistory
    <2>2. m = [t \in 0 .. k |-> ModelAt(e, p, 0, t, Null)]
      BY ModelsAre
    <2> HIDE DEF m, a, model
    <2>3. k - 0 = k /\ k \in 0 .. k /\ \A i \in 1 .. k : 0 + i = i /\ i \in 0 .. k
      BY <1>0
    <2>4. m[k] = model(k) /\ \A i \in 1 .. k : m[i] = model(i)
      BY <1>5, <2>2, <2>3
    <2> QED
      BY <2>1, <2>3, <2>4
  <1>7. /\ c.cells = [i \in 1 .. Len(s) - k |-> Checkpoint!Predicted(model(k + i), s[k + i])]
        /\ c.checkpoint.state = state(model(Len(s)))
    <2> DEFINE m == Checkpoint!Models(e, s, Len(s), k, model(k))
    <2>1. /\ c.cells = [i \in 1 .. Len(s) - k |-> Checkpoint!Predicted(m[k + i], s[k + i])]
          /\ c.checkpoint.state = state(m[Len(s)])
      <3> DEFINE z == a.checkpoint.state
      <3>1. z.value = model(k)
        BY <1>2, <1>6
      <3>2. c = Checkpoint!Kernel(s, k, z)
        OBVIOUS
      <3> HIDE DEF z, c, a, model
      <3>3. /\ c.cells = [i \in 1 .. Len(s) - k |->
                  Checkpoint!Predicted(Checkpoint!Models(e, s, Len(s), k, z.value)[k + i], s[k + i])]
            /\ c.checkpoint.state = state(Checkpoint!Models(e, s, Len(s), k, z.value)[Len(s)])
        <4>1. LET kernel == Checkpoint!Kernel(s, k, z) IN
              /\ kernel.cells = [i \in 1 .. Len(s) - k |->
                     Checkpoint!Predicted(Checkpoint!Models(e, s, Len(s), k, z.value)[k + i], s[k + i])]
              /\ kernel.checkpoint.state = state(Checkpoint!Models(e, s, Len(s), k, z.value)[Len(s)])
          BY DEF Checkpoint!Kernel, Checkpoint!Training, e, state
        <4> QED
          BY <3>2, <4>1
      <3> QED
        BY <3>1, <3>3
    <2>2. m = [t \in k .. Len(s) |-> ModelAt(e, s, k, t, model(k))]
      BY ModelsAre
    <2>3. \A t \in k .. Len(s) : ModelAt(e, s, k, t, model(k)) = model(t)
      BY <1>0, ModelsBehind
    <2> HIDE DEF m, c, model
    <2>4. Len(s) \in k .. Len(s) /\ \A i \in 1 .. Len(s) - k : k + i \in k .. Len(s)
      BY <1>0
    <2>5. m[Len(s)] = model(Len(s)) /\ \A i \in 1 .. Len(s) - k : m[k + i] = model(k + i)
      BY <2>2, <2>3, <2>4
    <2> QED
      BY <2>1, <2>5
  <1> HIDE DEF a, b, c, model
  <1>8. \A i \in 1 .. k : a.cells[i] = b.cells[i]
    <2> SUFFICES ASSUME NEW i \in 1 .. k PROVE a.cells[i] = b.cells[i]
      OBVIOUS
    <2>1. i \in 1 .. Len(s)
      BY <1>0
    <2>2. (p[i] = Absent <=> s[i] = Absent) /\ (p[i] # Absent => p[i].value = s[i].value)
      BY DEF Agreeing
    <2>3. Checkpoint!Predicted(model(i), p[i]) = Checkpoint!Predicted(model(i), s[i])
      BY <2>2 DEF Checkpoint!Predicted
    <2> QED
      BY <1>4, <1>6, <2>1, <2>3
  <1>9. \A i \in 1 .. Len(s) - k : c.cells[i] = b.cells[k + i]
    <2> SUFFICES ASSUME NEW i \in 1 .. Len(s) - k PROVE c.cells[i] = b.cells[k + i]
      OBVIOUS
    <2>1. k + i \in 1 .. Len(s)
      BY <1>0
    <2> QED
      BY <1>4, <1>7, <2>1
  <1>10. /\ a.cells = [i \in 1 .. k |-> a.cells[i]] /\ b.cells = [i \in 1 .. Len(s) |-> b.cells[i]]
         /\ c.cells = [i \in 1 .. Len(s) - k |-> c.cells[i]]
    BY <1>4, <1>6, <1>7
  <1>11. a.cells \o c.cells = b.cells
    <2> DEFINE f == a.cells
               g == c.cells
               h == b.cells
    <2>1. Joins(f, g, h, k, Len(s))
      BY <1>8, <1>9, <1>10 DEF Joins
    <2> HIDE DEF f, g, h
    <2>2. f \o g = h
      BY <1>0, <2>1, CellsJoin
    <2> QED
      BY <2>2 DEF f, g, h
  <1>12. k = Len(s) => a.cells = b.cells /\ a.checkpoint.state = b.checkpoint.state
    BY <1>4, <1>6, <1>8, <1>10
  <1> QED
    BY <1>4, <1>7, <1>11, <1>12 DEF a, b, c

-----------------------------------------------------------------------------
(* Causal replay: the nodes, what they need and what they give. *)

CausalGraph == scope \in CausalScopes

LEMMA CausalFacts ==
    ASSUME CausalGraph
    PROVE  /\ Len(scope.history) \in Nat /\ Causal!Nodes = 1 .. Len(scope.history)
           /\ scope.sessions \in Nat \ {0} /\ scope.ends \subseteq Nat
           /\ \A n \in Causal!Nodes : /\ n \in Nat /\ scope.history[n] \in Nat
                                      /\ Causal!Parent(n) = None \/ (Causal!Parent(n) \in Causal!Nodes
                                                                     /\ Causal!Parent(n) \in 1 .. n - 1)
           /\ \A roots \in scope.roots : roots \subseteq Causal!Nodes
  <1>1. /\ scope.history \in Seq(Nat) /\ scope.sessions \in Nat \ {0} /\ scope.ends \subseteq Nat
        /\ \A n \in DOMAIN scope.history : scope.parent[n] = None \/ scope.parent[n] \in 1 .. n - 1
        /\ \A roots \in scope.roots : roots \subseteq DOMAIN scope.history
    BY CausalScopesAssumption DEF CausalGraph
  <1> QED
    BY <1>1 DEF Causal!Nodes, Causal!Parent

LEMMA CausalBounds == \A S : Causal!Min(S) = Min(S) /\ Causal!Max(S) = Max(S)
  BY DEF Causal!Max, Max, Causal!Min, Min

LEMMA WarmIs ==
    ASSUME NEW t \in Int, NEW h \in Int
    PROVE  Causal!Warm(t, h) = IF t - h >= 1 THEN t - h ELSE 1
  <1>1. Causal!Warm(t, h) = Max({1, t - h})
    BY CausalBounds DEF Causal!Warm
  <1>2. PICK a \in Int : a = t - h
    OBVIOUS
  <1> QED
    BY <1>1, <1>2, MaxOfTwo

\* What node n requires, given what earlier nodes do.
NodeRequires(f, n) == scope.history[n] + (IF Causal!Parent(n) = None THEN 0 ELSE f[Causal!Parent(n)])

LEMMA RequirementsExist ==
    ASSUME CausalGraph
    PROVE  \E f : f = [n \in Causal!Nodes |-> NodeRequires(f, n)]
  <1> DEFINE Has(k) == \E f : f = [n \in 1 .. k |-> NodeRequires(f, n)]
             Without == {k \in 0 .. Len(scope.history) : ~ Has(k)}
  <1>1. Causal!Nodes = 1 .. Len(scope.history) /\ Len(scope.history) \in Nat
    BY CausalFacts
  <1>2. SUFFICES Without = {}
    BY <1>1
  <1>3. SUFFICES ASSUME Without # {} PROVE FALSE
    OBVIOUS
  <1>4. PICK k \in Without : \A j \in Without : k <= j
    <2>1. Without \in SUBSET Nat
      BY <1>1
    <2> HIDE DEF Without
    <2> QED
      BY <1>3, <2>1, LeastNatural
  <1>5. k # 0
    <2>1. \A f : [n \in 1 .. 0 |-> NodeRequires(f, n)] = [n \in 1 .. 0 |-> 0]
      OBVIOUS
    <2> DEFINE e == [n \in 1 .. 0 |-> 0]
    <2>2. e = [n \in 1 .. 0 |-> NodeRequires(e, n)]
      BY <2>1
    <2>3. Has(0)
      BY <2>2
    <2> QED
      BY <2>3
  <1>6. k - 1 \in 0 .. Len(scope.history) /\ k \in 1 .. Len(scope.history)
    BY <1>1, <1>5
  <1>7. Has(k - 1)
    BY <1>1, <1>4, <1>6
  <1>8. PICK f : f = [n \in 1 .. k - 1 |-> NodeRequires(f, n)]
    BY <1>7
  <1> DEFINE g == [n \in 1 .. k |-> IF n = k THEN NodeRequires(f, k) ELSE f[n]]
  <1>9. ASSUME NEW n \in 1 .. k PROVE NodeRequires(g, n) = NodeRequires(f, n)
    <2>1. Causal!Parent(n) # None => g[Causal!Parent(n)] = f[Causal!Parent(n)]
      <3>1. Causal!Parent(n) # None => Causal!Parent(n) \in 1 .. k - 1
        BY <1>1, <1>6, CausalFacts
      <3> QED
        BY <1>6, <3>1
    <2> HIDE DEF g
    <2> QED
      BY <2>1 DEF NodeRequires
  <1>10. \A n \in 1 .. k - 1 : f[n] = NodeRequires(f, n)
    BY <1>8
  <1>11. g = [n \in 1 .. k |-> NodeRequires(f, n)]
    BY <1>10, <1>6
  <1> HIDE DEF g
  <1>12. g = [n \in 1 .. k |-> NodeRequires(g, n)]
    BY <1>9, <1>11
  <1>13. Has(k)
    BY <1>12
  <1> QED
    BY <1>4, <1>13

LEMMA RequirementsUnfold ==
    ASSUME CausalGraph, NEW n \in Causal!Nodes
    PROVE  Causal!Required[n] = NodeRequires(Causal!Required, n)
  <1>1. Causal!Required = CHOOSE f : f = [m \in Causal!Nodes |-> NodeRequires(f, m)]
    BY Zenon DEF Causal!Required, NodeRequires
  <1>2. Causal!Required = [m \in Causal!Nodes |-> NodeRequires(Causal!Required, m)]
    BY <1>1, RequirementsExist
  <1> QED
    BY <1>2

LEMMA RequirementsAreNumbers ==
    ASSUME CausalGraph
    PROVE  \A n \in Causal!Nodes : Causal!Required[n] \in Nat
  <1> DEFINE Bad == {n \in Causal!Nodes : Causal!Required[n] \notin Nat}
  <1>1. SUFFICES ASSUME Bad # {} PROVE FALSE
    OBVIOUS
  <1>2. Bad \in SUBSET Nat
    BY CausalFacts
  <1> HIDE DEF Bad
  <1>3. PICK n \in Bad : \A m \in Bad : n <= m
    BY <1>1, <1>2, LeastNatural
  <1>4. n \in Causal!Nodes /\ Causal!Required[n] \notin Nat
    BY DEF Bad
  <1>5. Causal!Parent(n) # None => Causal!Required[Causal!Parent(n)] \in Nat
    <2>1. Causal!Parent(n) # None => Causal!Parent(n) \in Causal!Nodes /\ Causal!Parent(n) \in 1 .. n - 1
      BY <1>4, CausalFacts
    <2>2. Causal!Parent(n) # None => Causal!Parent(n) \notin Bad
      BY <1>2, <1>3, <2>1
    <2> QED
      BY <2>1, <2>2 DEF Bad
  <1>6. scope.history[n] \in Nat
    BY <1>4, CausalFacts
  <1>7. Causal!Required[n] \in Nat
    BY <1>4, <1>5, <1>6, RequirementsUnfold DEF NodeRequires
  <1> QED
    BY <1>4, <1>7

\* The node and what it is made of.
NodeLine(f, n) == {n} \cup (IF Causal!Parent(n) = None THEN {} ELSE f[Causal!Parent(n)])

LEMMA LinesExist ==
    ASSUME CausalGraph
    PROVE  \E f : f = [n \in Causal!Nodes |-> NodeLine(f, n)]
  <1> DEFINE Has(k) == \E f : f = [n \in 1 .. k |-> NodeLine(f, n)]
             Without == {k \in 0 .. Len(scope.history) : ~ Has(k)}
  <1>1. Causal!Nodes = 1 .. Len(scope.history) /\ Len(scope.history) \in Nat
    BY CausalFacts
  <1>2. SUFFICES Without = {}
    BY <1>1
  <1>3. SUFFICES ASSUME Without # {} PROVE FALSE
    OBVIOUS
  <1>4. PICK k \in Without : \A j \in Without : k <= j
    <2>1. Without \in SUBSET Nat
      BY <1>1
    <2> HIDE DEF Without
    <2> QED
      BY <1>3, <2>1, LeastNatural
  <1>5. k # 0
    <2>1. \A f : [n \in 1 .. 0 |-> NodeLine(f, n)] = [n \in 1 .. 0 |-> 0]
      OBVIOUS
    <2> DEFINE e == [n \in 1 .. 0 |-> 0]
    <2>2. e = [n \in 1 .. 0 |-> NodeLine(e, n)]
      BY <2>1
    <2>3. Has(0)
      BY <2>2
    <2> QED
      BY <2>3
  <1>6. k - 1 \in 0 .. Len(scope.history) /\ k \in 1 .. Len(scope.history)
    BY <1>1, <1>5
  <1>7. Has(k - 1)
    BY <1>1, <1>4, <1>6
  <1>8. PICK f : f = [n \in 1 .. k - 1 |-> NodeLine(f, n)]
    BY <1>7
  <1> DEFINE g == [n \in 1 .. k |-> IF n = k THEN NodeLine(f, k) ELSE f[n]]
  <1>9. ASSUME NEW n \in 1 .. k PROVE NodeLine(g, n) = NodeLine(f, n)
    <2>1. Causal!Parent(n) # None => g[Causal!Parent(n)] = f[Causal!Parent(n)]
      <3>1. Causal!Parent(n) # None => Causal!Parent(n) \in 1 .. k - 1
        BY <1>1, <1>6, CausalFacts
      <3> QED
        BY <1>6, <3>1
    <2> HIDE DEF g
    <2> QED
      BY <2>1 DEF NodeLine
  <1>10. \A n \in 1 .. k - 1 : f[n] = NodeLine(f, n)
    BY <1>8
  <1>11. g = [n \in 1 .. k |-> NodeLine(f, n)]
    BY <1>10, <1>6
  <1> HIDE DEF g
  <1>12. g = [n \in 1 .. k |-> NodeLine(g, n)]
    BY <1>9, <1>11
  <1>13. Has(k)
    BY <1>12
  <1> QED
    BY <1>4, <1>13

LEMMA ClosureHasNodes ==
    ASSUME CausalGraph, NEW roots \in SUBSET Causal!Nodes
    PROVE  Causal!Closure(roots) \subseteq Causal!Nodes
  <1> DEFINE lines == CHOOSE f : f = [m \in Causal!Nodes |-> NodeLine(f, m)]
             Bad == {n \in Causal!Nodes : ~ (lines[n] \subseteq Causal!Nodes)}
  <1>1. Causal!Closure(roots) = UNION {lines[n] : n \in roots}
    BY Zenon DEF Causal!Closure, NodeLine
  <1>2. lines = [m \in Causal!Nodes |-> NodeLine(lines, m)]
    BY LinesExist
  <1> HIDE DEF lines
  <1>3. Bad = {}
    <2>1. SUFFICES ASSUME Bad # {} PROVE FALSE
      OBVIOUS
    <2>2. Bad \in SUBSET Nat
      BY CausalFacts
    <2> HIDE DEF Bad
    <2>3. PICK n \in Bad : \A m \in Bad : n <= m
      BY <2>1, <2>2, LeastNatural
    <2>4. n \in Causal!Nodes /\ ~ (lines[n] \subseteq Causal!Nodes)
      BY DEF Bad
    <2>5. Causal!Parent(n) # None => lines[Causal!Parent(n)] \subseteq Causal!Nodes
      <3>1. Causal!Parent(n) # None => Causal!Parent(n) \in Causal!Nodes /\ Causal!Parent(n) \in 1 .. n - 1
        BY <2>4, CausalFacts
      <3>2. Causal!Parent(n) # None => Causal!Parent(n) \notin Bad
        BY <2>2, <2>3, <3>1
      <3> QED
        BY <3>1, <3>2 DEF Bad
    <2>6. lines[n] = NodeLine(lines, n)
      BY <1>2, <2>4
    <2> QED
      BY <2>4, <2>5, <2>6 DEF NodeLine
  <1> QED
    BY <1>1, <1>3

\* What node n gathers, given what earlier nodes do.
NodeCells(acquired, cutoff, f, n) ==
    [t \in 1 .. cutoff |->
        LET first == Causal!Warm(t, scope.history[n]) IN
        [s \in first .. t |->
            IF Causal!Parent(n) = None THEN Causal!Observation(acquired, s, cutoff) ELSE f[Causal!Parent(n)][s]]]

LEMMA NodeCellsExist ==
    ASSUME CausalGraph, NEW acquired, NEW cutoff
    PROVE  \E f : f = [n \in Causal!Nodes |-> NodeCells(acquired, cutoff, f, n)]
  <1> DEFINE Has(k) == \E f : f = [n \in 1 .. k |-> NodeCells(acquired, cutoff, f, n)]
             Without == {k \in 0 .. Len(scope.history) : ~ Has(k)}
  <1>1. Causal!Nodes = 1 .. Len(scope.history) /\ Len(scope.history) \in Nat
    BY CausalFacts
  <1>2. SUFFICES Without = {}
    BY <1>1
  <1>3. SUFFICES ASSUME Without # {} PROVE FALSE
    OBVIOUS
  <1>4. PICK k \in Without : \A j \in Without : k <= j
    <2>1. Without \in SUBSET Nat
      BY <1>1
    <2> HIDE DEF Without
    <2> QED
      BY <1>3, <2>1, LeastNatural
  <1>5. k # 0
    <2>1. \A f : [n \in 1 .. 0 |-> NodeCells(acquired, cutoff, f, n)] = [n \in 1 .. 0 |-> 0]
      OBVIOUS
    <2> DEFINE e == [n \in 1 .. 0 |-> 0]
    <2>2. e = [n \in 1 .. 0 |-> NodeCells(acquired, cutoff, e, n)]
      BY <2>1
    <2>3. Has(0)
      BY <2>2
    <2> QED
      BY <2>3
  <1>6. k - 1 \in 0 .. Len(scope.history) /\ k \in 1 .. Len(scope.history)
    BY <1>1, <1>5
  <1>7. Has(k - 1)
    BY <1>1, <1>4, <1>6
  <1>8. PICK f : f = [n \in 1 .. k - 1 |-> NodeCells(acquired, cutoff, f, n)]
    BY <1>7
  <1> DEFINE g == [n \in 1 .. k |-> IF n = k THEN NodeCells(acquired, cutoff, f, k) ELSE f[n]]
  <1>9. ASSUME NEW n \in 1 .. k PROVE NodeCells(acquired, cutoff, g, n) = NodeCells(acquired, cutoff, f, n)
    <2>1. Causal!Parent(n) # None => g[Causal!Parent(n)] = f[Causal!Parent(n)]
      <3>1. Causal!Parent(n) # None => Causal!Parent(n) \in 1 .. k - 1
        BY <1>1, <1>6, CausalFacts
      <3> QED
        BY <1>6, <3>1
    <2> HIDE DEF g
    <2> QED
      BY <2>1 DEF NodeCells
  <1>10. \A n \in 1 .. k - 1 : f[n] = NodeCells(acquired, cutoff, f, n)
    BY <1>8
  <1>11. g = [n \in 1 .. k |-> NodeCells(acquired, cutoff, f, n)]
    BY <1>10, <1>6
  <1> HIDE DEF g
  <1>12. g = [n \in 1 .. k |-> NodeCells(acquired, cutoff, g, n)]
    BY <1>9, <1>11
  <1>13. Has(k)
    BY <1>12
  <1> QED
    BY <1>4, <1>13

LEMMA CellsUnfold ==
    ASSUME CausalGraph, NEW acquired, NEW cutoff, NEW n \in Causal!Nodes
    PROVE  Causal!Evaluate(acquired, cutoff)[n]
             = NodeCells(acquired, cutoff, Causal!Evaluate(acquired, cutoff), n)
  <1>1. Causal!Evaluate(acquired, cutoff)
          = CHOOSE f : f = [m \in Causal!Nodes |-> NodeCells(acquired, cutoff, f, m)]
    BY Zenon DEF Causal!Evaluate, NodeCells
  <1>2. Causal!Evaluate(acquired, cutoff)
          = [m \in Causal!Nodes |-> NodeCells(acquired, cutoff, Causal!Evaluate(acquired, cutoff), m)]
    BY <1>1, NodeCellsExist
  <1> QED
    BY <1>2

\* A node gives the same when the observations it requires are the same.
LEMMA GivesAlike ==
    ASSUME CausalGraph, NEW acquired, NEW cutoff \in Nat, NEW others, NEW limit \in Nat
    PROVE  \A n \in Causal!Nodes : \A t \in Nat \ {0} :
              /\ t <= cutoff /\ t <= limit
              /\ \A s \in Causal!Warm(t, Causal!Required[n]) .. t :
                    Causal!Observation(acquired, s, cutoff) = Causal!Observation(others, s, limit)
              => Causal!Evaluate(acquired, cutoff)[n][t] = Causal!Evaluate(others, limit)[n][t]
  <1> DEFINE Same(n, t) == \A s \in Causal!Warm(t, Causal!Required[n]) .. t :
                              Causal!Observation(acquired, s, cutoff) = Causal!Observation(others, s, limit)
             F == Causal!Evaluate(acquired, cutoff)
             G == Causal!Evaluate(others, limit)
             Alike(n) == \A t \in Nat \ {0} : t <= cutoff /\ t <= limit /\ Same(n, t) => F[n][t] = G[n][t]
             Bad == {n \in Causal!Nodes : ~ Alike(n)}
  <1>1. SUFFICES ASSUME Bad # {} PROVE FALSE
    OBVIOUS
  <1>2. Bad \in SUBSET Nat
    BY CausalFacts
  <1> HIDE DEF Bad, Alike
  <1>3. PICK n \in Bad : \A m \in Bad : n <= m
    BY <1>1, <1>2, LeastNatural
  <1>4. n \in Causal!Nodes /\ ~ Alike(n)
    BY DEF Bad
  <1> DEFINE p == Causal!Parent(n)
             h == scope.history[n]
  <1>5. h \in Nat /\ (p # None => p \in Causal!Nodes /\ p \in 1 .. n - 1)
    BY <1>4, CausalFacts
  <1>6. p # None => Alike(p)
    BY <1>2, <1>3, <1>5 DEF Bad
  <1>7. Causal!Required[n] \in Nat /\ (p # None => Causal!Required[p] \in Nat)
    BY <1>4, <1>5, RequirementsAreNumbers
  <1>8. Causal!Required[n] = h + (IF p = None THEN 0 ELSE Causal!Required[p])
    BY <1>4, RequirementsUnfold DEF NodeRequires
  <1>9. F[n] = NodeCells(acquired, cutoff, F, n) /\ G[n] = NodeCells(others, limit, G, n)
    BY <1>4, CellsUnfold
  <1> HIDE DEF F, G
  <1>10. ASSUME NEW t \in Nat \ {0}, t <= cutoff, t <= limit, Same(n, t) PROVE F[n][t] = G[n][t]
    <2> DEFINE first == Causal!Warm(t, h)
    <2>1. first = (IF t - h >= 1 THEN t - h ELSE 1) /\ first \in Nat \ {0}
      BY <1>5, WarmIs
    <2>2. Causal!Warm(t, Causal!Required[n])
            = IF t - Causal!Required[n] >= 1 THEN t - Causal!Required[n] ELSE 1
      BY <1>7, WarmIs
    <2>3. /\ F[n][t] = [s \in first .. t |-> IF p = None THEN Causal!Observation(acquired, s, cutoff) ELSE F[p][s]]
          /\ G[n][t] = [s \in first .. t |-> IF p = None THEN Causal!Observation(others, s, limit) ELSE G[p][s]]
      BY <1>9, <1>10 DEF NodeCells
    <2> HIDE DEF first
    <2>4. ASSUME NEW s \in first .. t, p = None
          PROVE  Causal!Observation(acquired, s, cutoff) = Causal!Observation(others, s, limit)
      <3>1. s \in Causal!Warm(t, Causal!Required[n]) .. t
        BY <1>5, <1>7, <1>8, <2>1, <2>2, <2>4
      <3> QED
        BY <1>10, <3>1
    <2>5. ASSUME NEW s \in first .. t, p # None PROVE F[p][s] = G[p][s]
      <3>1. s \in Nat \ {0} /\ s <= t /\ s <= cutoff /\ s <= limit /\ s >= t - h
        BY <1>5, <1>10, <2>1
      <3>2. Causal!Warm(s, Causal!Required[p])
              = IF s - Causal!Required[p] >= 1 THEN s - Causal!Required[p] ELSE 1
        BY <1>7, <2>5, <3>1, WarmIs
      <3>3. \A r \in Causal!Warm(s, Causal!Required[p]) .. s : r \in Causal!Warm(t, Causal!Required[n]) .. t
        BY <1>5, <1>7, <1>8, <2>2, <2>5, <3>1, <3>2
      <3>4. Same(p, s)
        BY <1>10, <3>3
      <3> QED
        BY <1>6, <2>5, <3>1, <3>4 DEF Alike
    <2> QED
      BY <2>3, <2>4, <2>5
  <1> QED
    BY <1>4, <1>10 DEF Alike

-----------------------------------------------------------------------------
(* What is known of a session. *)

Seen(s, cutoff) == {v \in versions \cup {Causal!First(s)} : v.time = s /\ v.known <= cutoff}
Understood(s, cutoff) == IF Seen(s, cutoff) = {} THEN None ELSE Causal!Latest(Seen(s, cutoff)).revision

\* Versions are known on their day or later.
VersionsDated == \A v \in versions : v.time \in Nat /\ v.known \in Nat /\ v.time <= v.known

\* All versions of some sessions, as known at a limit, and no others.
Covers(acquired, S, limit) ==
    \A v : v \in acquired <=> /\ v \in versions \/ v = Causal!First(v.time)
                              /\ v.time \in S /\ v.known <= limit

LEMMA WindowHas ==
    \A first, last, cutoff, v :
        v \in Causal!Window(versions, first, last, cutoff)
            <=> /\ v \in versions \/ v = Causal!First(v.time)
                /\ v.time \in first .. last /\ v.known <= cutoff
  <1>1. \A t : Causal!First(t).time = t
    BY DEF Causal!First
  <1> QED
    BY <1>1 DEF Causal!Window

\* What an output is told of a session when only some are covered.
Told(S, s, cutoff) == IF s \in S THEN Understood(s, cutoff) ELSE None

\* Of a session that is covered an output sees what there is, of another nothing.
LEMMA CoveredShows ==
    ASSUME VersionsDated, NEW acquired, NEW S, NEW limit \in Nat, Covers(acquired, S, limit),
           NEW s \in Nat, NEW c \in Nat, c <= limit
    PROVE  Causal!Observation(acquired, s, c) = Told(S, s, c)
  <1> DEFINE T == {v \in acquired : v.time = s /\ v.known <= c}
  <1>1. \A t : Causal!First(t).time = t /\ Causal!First(t).known = t
    BY DEF Causal!First
  <1>2. Causal!Observation(acquired, s, c) = IF T = {} THEN None ELSE Causal!Latest(T).revision
    BY Zenon DEF Causal!Observation
  <1>3. CASE s \notin S
    <2>1. T = {}
      BY <1>3 DEF Covers
    <2> QED
      BY <1>2, <1>3, <2>1 DEF Told
  <1>4. CASE s \in S
    <2>1. \A v \in T : v \in Seen(s, c)
      BY DEF Covers, Seen
    <2>2. ASSUME NEW v \in Seen(s, c) PROVE v \in T
      <3>1. (v \in versions \/ v = Causal!First(s)) /\ v.time = s /\ v.known <= c
        BY DEF Seen
      <3>2. v.known \in Nat
        BY <1>1, <3>1 DEF VersionsDated
      <3>3. v.known <= limit
        BY <3>1, <3>2
      <3> QED
        BY <1>4, <3>1, <3>3 DEF Covers
    <2>3. T = Seen(s, c)
      <3> HIDE DEF T
      <3> QED
        BY <2>1, <2>2
    <2> QED
      BY <1>2, <1>4, <2>3 DEF Understood, Told
  <1> QED
    BY <1>3, <1>4

\* What a node gives on a session with what is known on it of some sessions.
TodayOf(S, n, t) == Causal!Evaluate({v \in Causal!Window(versions, 1, t, t) : v.time \in S}, t)[n][t]

LEMMA GivesToday ==
    ASSUME CausalGraph, VersionsDated, NEW S, NEW n \in Causal!Nodes, NEW t \in Nat \ {0},
           NEW acquired, NEW c \in Nat, t <= c,
           \A s \in Causal!Warm(t, Causal!Required[n]) .. t :
               Causal!Observation(acquired, s, c) = Told(S, s, t)
    PROVE  Causal!Evaluate(acquired, c)[n][t] = TodayOf(S, n, t)
  <1> DEFINE B == {v \in Causal!Window(versions, 1, t, t) : v.time \in S}
             warm == Causal!Warm(t, Causal!Required[n])
  <1>1. Causal!Required[n] \in Nat
    BY RequirementsAreNumbers
  <1>2. warm = (IF t - Causal!Required[n] >= 1 THEN t - Causal!Required[n] ELSE 1)
    BY <1>1, WarmIs
  <1>3. Covers(B, S \cap 1 .. t, t)
    BY WindowHas DEF Covers
  <1> HIDE DEF warm, B
  <1>4. ASSUME NEW s \in warm .. t
        PROVE  Causal!Observation(acquired, s, c) = Causal!Observation(B, s, t)
    <2>1. s \in 1 .. t /\ s \in Nat /\ t \in Nat
      BY <1>1, <1>2
    <2>2. Causal!Observation(B, s, t) = Told(S \cap 1 .. t, s, t)
      BY <1>3, <2>1, CoveredShows
    <2> QED
      BY <2>1, <2>2 DEF warm, Told
  <1>5. Causal!Evaluate(acquired, c)[n][t] = Causal!Evaluate(B, t)[n][t]
    BY <1>4, GivesAlike DEF warm
  <1> QED
    BY <1>5 DEF TodayOf, B

\* A key lets its node gather on a day what is known on it.
LEMMA KeyMeansToday ==
    ASSUME CausalGraph, VersionsDated, NEW n \in Causal!Nodes, NEW t \in Nat \ {0}, NEW last \in Nat, t <= last,
           NEW first \in Nat \ {0}, first <= Causal!Warm(t, Causal!Required[n]), NEW S,
           NEW key, key.node = n, key.proof = Causal!Window(versions, first, last, last)
    PROVE  Causal!Gathers(key, t, S) = TodayOf(S, n, t)
  <1> DEFINE A == {v \in key.proof : v.time \in S /\ v.known <= t}
             warm == Causal!Warm(t, Causal!Required[n])
  <1>1. Causal!Required[n] \in Nat
    BY RequirementsAreNumbers
  <1>2. warm = (IF t - Causal!Required[n] >= 1 THEN t - Causal!Required[n] ELSE 1)
    BY <1>1, WarmIs
  <1>3. Covers(A, S \cap first .. last, t)
    <2>1. \A k : Causal!First(k).time = k /\ Causal!First(k).known = k
      BY DEF Causal!First
    <2>2. ASSUME NEW v, v \in versions \/ v = Causal!First(v.time), v.time \in first .. last, v.known <= t
          PROVE  v.known <= last
      <3>1. v.known \in Int
        BY <2>1, <2>2 DEF VersionsDated
      <3> QED
        BY <2>2, <3>1
    <2> QED
      BY <2>2, WindowHas DEF Covers
  <1> HIDE DEF warm, A
  <1>4. ASSUME NEW s \in warm .. t
        PROVE  Causal!Observation(A, s, t) = Told(S, s, t)
    <2>1. s \in first .. last /\ s \in Nat /\ t \in Nat
      BY <1>1, <1>2 DEF warm
    <2>2. Causal!Observation(A, s, t) = Told(S \cap first .. last, s, t)
      BY <1>3, <2>1, CoveredShows
    <2> QED
      BY <2>1, <2>2 DEF Told
  <1>5. PICK c \in Nat : c = t /\ t <= c
    OBVIOUS
  <1>6. PICK acquired : acquired = A
    OBVIOUS
  <1>7. \A s \in Causal!Warm(t, Causal!Required[n]) .. t : Causal!Observation(acquired, s, c) = Told(S, s, t)
    BY <1>4, <1>5, <1>6 DEF warm
  <1>8. Causal!Evaluate(acquired, c)[n][t] = TodayOf(S, n, t)
    BY <1>5, <1>6, <1>7, GivesToday
  <1> QED
    BY <1>5, <1>6, <1>8, Zenon DEF Causal!Gathers, A

LEMMA BlockMeansToday ==
    ASSUME CausalGraph, VersionsDated, NEW n \in Causal!Nodes, NEW first \in Nat \ {0}, NEW last \in Nat,
           NEW t \in first .. last, NEW S
    PROVE  Causal!Gathers(Causal!BlockKey(versions, n, first, last), t, S) = TodayOf(S, n, t)
  <1> DEFINE key == Causal!BlockKey(versions, n, first, last)
             warm == Causal!Warm(first, Causal!Required[n])
  <1>1. key.node = n /\ key.proof = Causal!Window(versions, warm, last, last)
    BY DEF Causal!BlockKey, Causal!Proof
  <1>2. Causal!Required[n] \in Nat /\ t \in Nat \ {0} /\ first <= t /\ t <= last
    BY RequirementsAreNumbers
  <1>3. /\ warm = (IF first - Causal!Required[n] >= 1 THEN first - Causal!Required[n] ELSE 1)
        /\ Causal!Warm(t, Causal!Required[n]) = (IF t - Causal!Required[n] >= 1 THEN t - Causal!Required[n] ELSE 1)
    BY <1>2, WarmIs
  <1> HIDE DEF key, warm
  <1>4. warm \in Nat \ {0} /\ warm <= Causal!Warm(t, Causal!Required[n])
    BY <1>2, <1>3
  <1>5. Causal!Gathers(key, t, S) = TodayOf(S, n, t)
    BY <1>1, <1>2, <1>4, KeyMeansToday
  <1> QED
    BY <1>5 DEF key

LEMMA ResultMeansToday ==
    ASSUME CausalGraph, VersionsDated, NEW n \in Causal!Nodes, NEW last \in Nat, NEW t \in 1 .. last, NEW S
    PROVE  Causal!Gathers(Causal!ResultKey(versions, n, last), t, S) = TodayOf(S, n, t)
  <1> DEFINE key == Causal!ResultKey(versions, n, last)
  <1>1. key.node = n /\ key.proof = Causal!Window(versions, 1, last, last)
    BY DEF Causal!ResultKey
  <1>2. Causal!Required[n] \in Nat /\ t \in Nat \ {0} /\ t <= last
    BY RequirementsAreNumbers
  <1>3. Causal!Warm(t, Causal!Required[n]) = IF t - Causal!Required[n] >= 1 THEN t - Causal!Required[n] ELSE 1
    BY <1>2, WarmIs
  <1> HIDE DEF key
  <1>4. 1 <= Causal!Warm(t, Causal!Required[n])
    BY <1>2, <1>3
  <1>5. Causal!Gathers(key, t, S) = TodayOf(S, n, t)
    BY <1>1, <1>2, <1>4, KeyMeansToday
  <1> QED
    BY <1>5 DEF key

\* A segment ends before anything becomes known of the sessions up to its output.
LEMMA SegmentEnds ==
    ASSUME NEW S \in SUBSET Nat, \A s \in S : s <= Causal!BlockEnd,
           NEW begin \in Nat, NEW t \in begin .. Causal!BlockEnd,
           Causal!BlockEnd \in Nat, through \in Nat, Causal!BlockEnd <= through, VersionsDated,
           NEW acquired, Covers(acquired, S, through)
    PROVE  LET c == Causal!Cutoffs(acquired, begin)[t] IN
           /\ c \in Nat /\ t <= c /\ c <= Causal!BlockEnd
           /\ \A s \in S : s <= t => Understood(s, c) = Understood(s, t)
  <1> DEFINE E == Causal!BlockEnd
             cuts == {v.known : v \in {w \in acquired : w.known > w.time}}
             ends == {E} \cup {k - 1 : k \in {j \in cuts : j > t /\ j <= E}}
             c == Causal!Cutoffs(acquired, begin)[t]
  <1>1. c = Min(ends)
    BY CausalBounds DEF Causal!Cutoffs
  <1>2. \A k \in cuts : k \in Nat
    <2>1. \A v \in acquired : v.known \in Nat
      <3>1. \A t0 : Causal!First(t0).known = t0
        BY DEF Causal!First
      <3> QED
        BY <3>1 DEF Covers, VersionsDated
    <2> QED
      BY <2>1
  <1> HIDE DEF E, cuts, c
  <1>3. E \in Nat /\ t \in Nat /\ t <= E
    BY DEF E
  <1>4. \A x \in ends : x \in Nat /\ t <= x
    BY <1>2, <1>3
  <1>5. ends \in SUBSET Nat /\ ends # {} /\ E \in ends
    BY <1>4
  <1>6. \A k \in cuts : k > t /\ k <= E => k - 1 \in ends
    OBVIOUS
  <1> HIDE DEF ends
  <1>7. c \in ends /\ \A x \in ends : c <= x
    BY <1>1, <1>5, MinOfNumbers
  <1>8. c \in Nat /\ t <= c /\ c <= E
    BY <1>4, <1>5, <1>7
  <1>9. ASSUME NEW s \in S, s <= t PROVE Seen(s, c) = Seen(s, t)
    <2>1. \A x : Causal!First(x).time = x /\ Causal!First(x).known = x
      BY DEF Causal!First
    <2>2. ASSUME NEW v \in Seen(s, c) PROVE v.known <= t
      <3>1. (v \in versions \/ v = Causal!First(s)) /\ v.time = s /\ v.known <= c
        BY <2>2 DEF Seen
      <3>2. v.known \in Nat /\ s \in Nat /\ s <= t
        BY <1>9, <2>1, <3>1 DEF VersionsDated
      <3>3. SUFFICES ASSUME v.known > t PROVE FALSE
        BY <3>2
      <3>4. v \in versions
        BY <2>1, <3>1, <3>2, <3>3
      <3>5. v.known <= through
        BY <1>3, <1>8, <3>1, <3>2 DEF E
      <3>6. v \in acquired
        BY <3>1, <3>4, <3>5 DEF Covers
      <3>7. v.known \in cuts
        BY <3>1, <3>2, <3>3, <3>6 DEF cuts
      <3>8. v.known - 1 \in ends
        BY <1>3, <1>6, <1>8, <3>1, <3>2, <3>3, <3>7
      <3>9. c <= v.known - 1
        BY <1>7, <3>8
      <3> QED
        BY <1>8, <3>1, <3>2, <3>9
    <2>3. ASSUME NEW v \in Seen(s, t) PROVE v.known <= c
      <3>1. (v \in versions \/ v = Causal!First(s)) /\ v.known <= t /\ s \in Nat
        BY <2>3 DEF Seen
      <3>2. v.known \in Nat
        BY <2>1, <3>1 DEF VersionsDated
      <3> QED
        BY <1>3, <1>8, <3>1, <3>2
    <2> QED
      BY <2>2, <2>3 DEF Seen
  <1> QED
    BY <1>8, <1>9 DEF c, E, Understood

-----------------------------------------------------------------------------
(* A block of a replay. *)

\* Histories with which a buffer loses nothing that is read later.
Exact == Causal!EvenHistories \/ Causal!ChainedHistories

\* A cell is what the node gives with what is known on its day of some of the sessions
\* that it reads, and of all of them when the histories are such.
OfDay(n, t, cell) ==
    /\ \E S \in SUBSET (Causal!Warm(t, Causal!Required[n]) .. t) : cell = TodayOf(S, n, t)
    /\ Exact => cell = TodayOf(1 .. t, n, t)

OfDays(n, first, last, cells) ==
    /\ cells = [t \in first .. last |-> cells[t]]
    /\ \A t \in first .. last : OfDay(n, t, cells[t])

\* A plan has come to a block.
InBlock ==
    /\ CausalGraph /\ VersionsDated /\ through \in Nat
    /\ replay.begin \in Nat \ {0} /\ replay.begin <= through
    /\ replay.nodes \subseteq Causal!Nodes

LEMMA BlockEndIs ==
    ASSUME InBlock
    PROVE  /\ Causal!BlockEnd \in Nat /\ replay.begin <= Causal!BlockEnd /\ Causal!BlockEnd <= through
           /\ Causal!BlockEnd = IF replay.begin + scope.sessions - 1 <= through
                                THEN replay.begin + scope.sessions - 1 ELSE through
  <1>1. scope.sessions \in Nat \ {0} /\ replay.begin \in Nat \ {0} /\ through \in Nat /\ replay.begin <= through
    BY CausalFacts DEF InBlock
  <1>2. PICK a \in Int : a = replay.begin + scope.sessions - 1
    BY <1>1
  <1>3. Causal!BlockEnd = Min({a, through})
    BY <1>2, CausalBounds DEF Causal!BlockEnd
  <1>4. Causal!BlockEnd = IF a <= through THEN a ELSE through
    BY <1>1, <1>3, MinOfTwo
  <1> QED
    BY <1>1, <1>2, <1>4

LEMMA PrefixIs ==
    ASSUME InBlock, NEW n
    PROVE  /\ Causal!Prefix(n) \in Nat
           /\ replay.begin - 1 <= Causal!Prefix(n) /\ Causal!Prefix(n) < Causal!BlockEnd
           /\ Causal!Prefix(n) >= replay.begin =>
                 Causal!BlockKey(versions, n, replay.begin, Causal!Prefix(n)) \in replay.inventory
           /\ \A e \in replay.begin .. Causal!BlockEnd - 1 :
                 Causal!BlockKey(versions, n, replay.begin, e) \in replay.inventory => e <= Causal!Prefix(n)
  <1> DEFINE ends == {e \in replay.begin .. Causal!BlockEnd - 1 :
                        Causal!BlockKey(versions, n, replay.begin, e) \in replay.inventory}
  <1>1. Causal!Prefix(n) = IF ends = {} THEN replay.begin - 1 ELSE Max(ends)
    BY CausalBounds DEF Causal!Prefix
  <1>2. replay.begin \in Nat \ {0} /\ Causal!BlockEnd \in Nat /\ replay.begin <= Causal!BlockEnd
    BY BlockEndIs DEF InBlock
  <1>3. \A e \in ends : e \in Nat /\ replay.begin <= e /\ e <= Causal!BlockEnd - 1
    BY <1>2
  <1>4. ends \in SUBSET Nat /\ Causal!BlockEnd - 1 \in Nat
    BY <1>2, <1>3
  <1> HIDE DEF ends
  <1>5. ends # {} => Max(ends) \in ends /\ \A e \in ends : e <= Max(ends)
    BY <1>3, <1>4, MaxOfBounded
  <1>8. \A e \in replay.begin .. Causal!BlockEnd - 1 :
           Causal!BlockKey(versions, n, replay.begin, e) \in replay.inventory => e \in ends
    BY DEF ends
  <1>6. CASE ends = {}
    BY <1>1, <1>2, <1>6, <1>8
  <1>7. CASE ends # {}
    <2>1. Causal!Prefix(n) \in ends
      BY <1>1, <1>5, <1>7
    <2>2. Causal!BlockKey(versions, n, replay.begin, Causal!Prefix(n)) \in replay.inventory
      BY <2>1 DEF ends
    <2>3. \A e \in ends : e <= Causal!Prefix(n)
      BY <1>1, <1>5, <1>7
    <2> QED
      BY <1>2, <1>3, <1>8, <2>1, <2>2, <2>3
  <1> QED
    BY <1>6, <1>7

LEMMA NeededIs ==
    ASSUME InBlock, Causal!Missing # {}
    PROVE  /\ Causal!Needed \in Nat \ {0} /\ Causal!Needed <= Causal!BlockEnd
           /\ \A n \in Causal!Missing : Causal!Needed <= Causal!Warm(Causal!Prefix(n) + 1, Causal!Required[n])
           /\ \E n \in Causal!Missing : Causal!Needed = Causal!Warm(Causal!Prefix(n) + 1, Causal!Required[n])
  <1> DEFINE S == {Causal!Warm(Causal!Prefix(n) + 1, Causal!Required[n]) : n \in Causal!Missing}
  <1>1. ASSUME NEW n \in Causal!Missing
        PROVE  /\ Causal!Warm(Causal!Prefix(n) + 1, Causal!Required[n]) \in Nat \ {0}
               /\ Causal!Warm(Causal!Prefix(n) + 1, Causal!Required[n]) <= Causal!BlockEnd
    <2>1. Causal!Required[n] \in Nat
      BY RequirementsAreNumbers DEF Causal!Missing, InBlock
    <2>2. Causal!Prefix(n) \in Nat /\ Causal!Prefix(n) < Causal!BlockEnd /\ Causal!BlockEnd \in Nat
      BY PrefixIs, BlockEndIs
    <2>3. Causal!Warm(Causal!Prefix(n) + 1, Causal!Required[n])
            = IF Causal!Prefix(n) + 1 - Causal!Required[n] >= 1 THEN Causal!Prefix(n) + 1 - Causal!Required[n] ELSE 1
      BY <2>1, <2>2, WarmIs
    <2> QED
      BY <2>1, <2>2, <2>3
  <1>2. S \in SUBSET Nat /\ S # {}
    BY <1>1
  <1>3. Causal!Needed = Min(S)
    BY CausalBounds DEF Causal!Needed
  <1> HIDE DEF S
  <1>4. Causal!Needed \in S /\ \A x \in S : Causal!Needed <= x
    BY <1>2, <1>3, MinOfNumbers
  <1> QED
    BY <1>1, <1>4 DEF S

\* All versions of some sessions that a plan can know.
Slice(S) == {v \in versions \cup {Causal!First(s) : s \in S} : v.time \in S /\ v.known <= through}

LEMMA SliceCovers == \A S : Covers(Slice(S), S, through)
  <1>1. \A t : Causal!First(t).time = t
    BY DEF Causal!First
  <1> QED
    BY <1>1 DEF Slice, Covers

LEMMA WindowIsSlice == \A first, last : Causal!Window(versions, first, last, through) = Slice(first .. last)
  BY DEF Slice, Causal!Window

LEMMA SliceHas == \A S, v : v \in Slice(S) <=> /\ v \in versions \/ v = Causal!First(v.time)
                                               /\ v.time \in S /\ v.known <= through
  BY SliceCovers DEF Covers

\* Of a session the buffer has every version or none.
BufferTrue ==
    /\ replay.loaded \in Nat /\ replay.from \in Nat
    /\ \E S \in SUBSET Nat : replay.buffer = Slice(S)

\* What is loaded, kept and acquired is whole sessions as well.
LEMMA LoadedIs ==
    ASSUME InBlock, Causal!Missing # {}, BufferTrue
    PROVE  \E S \in SUBSET Nat : Causal!Loaded = Slice(S)
  <1> DEFINE N == Causal!Needed
             E == Causal!BlockEnd
             W(a, b) == Causal!Window(versions, a, b, through)
  <1>1. N \in Nat /\ E \in Nat /\ replay.from \in Nat /\ replay.loaded \in Nat
    BY NeededIs, BlockEndIs DEF BufferTrue
  <1>2. \A a \in Nat : \A b \in Int : a .. b \in SUBSET Nat /\ W(a, b) = Slice(a .. b)
    <2>1. \A a \in Nat : \A b \in Int : a .. b \in SUBSET Nat
      OBVIOUS
    <2> QED
      BY <2>1, WindowIsSlice
  <1>3. \A A, B \in SUBSET Nat : Slice(A) \cup Slice(B) = Slice(A \cup B)
    <2> SUFFICES ASSUME NEW A \in SUBSET Nat, NEW B \in SUBSET Nat PROVE Slice(A) \cup Slice(B) = Slice(A \cup B)
      OBVIOUS
    <2>1. \A v : v \in Slice(A \cup B) <=> v \in Slice(A) \/ v \in Slice(B)
      BY SliceHas
    <2> QED
      BY <2>1
  <1>4. {} = Slice({})
    BY SliceHas
  <1>5. CASE replay.loaded = 0
    <2>1. Causal!Loaded = W(N, E)
      BY <1>5 DEF Causal!Loaded
    <2> QED
      BY <1>1, <1>2, <2>1
  <1>6. CASE replay.loaded # 0
    <2>1. PICK S \in SUBSET Nat : replay.buffer = Slice(S)
      BY DEF BufferTrue
    <2>2. PICK m \in Nat : m = Causal!Max({N, replay.loaded + 1})
      <3>1. PICK a \in Nat : a = replay.loaded + 1
        BY <1>1
      <3> QED
        BY <1>1, <3>1, CausalBounds, MaxOfTwo
    <2> DEFINE before == IF N < replay.from THEN W(N, replay.from - 1) ELSE {}
               after == IF replay.loaded < E THEN W(m, E) ELSE {}
    <2>3. Causal!Loaded = (replay.buffer \cup before) \cup after
      BY <1>6, <2>2 DEF Causal!Loaded
    <2>4. PICK A \in SUBSET Nat : before = Slice(A)
      <3>1. replay.from - 1 \in Int
        BY <1>1
      <3>2. W(N, replay.from - 1) = Slice(N .. replay.from - 1) /\ N .. replay.from - 1 \in SUBSET Nat
        BY <1>1, <1>2, <3>1
      <3> QED
        BY <1>4, <3>2
    <2>5. PICK B \in SUBSET Nat : after = Slice(B)
      <3>1. W(m, E) = Slice(m .. E) /\ m .. E \in SUBSET Nat
        BY <1>1, <1>2
      <3> QED
        BY <1>4, <3>1
    <2> HIDE DEF before, after
    <2>6. Causal!Loaded = Slice((S \cup A) \cup B) /\ (S \cup A) \cup B \in SUBSET Nat
      BY <1>3, <2>1, <2>3, <2>4, <2>5
    <2> QED
      BY <2>6
  <1> QED
    BY <1>5, <1>6

LEMMA KeptIs ==
    ASSUME InBlock, Causal!Missing # {}, BufferTrue
    PROVE  /\ \E S \in SUBSET Nat : Causal!Kept = Slice(S)
           /\ \E S \in SUBSET (Causal!Needed .. Causal!BlockEnd) : Causal!Acquired = Slice(S)
  <1>1. PICK S \in SUBSET Nat : Causal!Loaded = Slice(S)
    BY LoadedIs
  <1> DEFINE K == {s \in S : s >= Causal!KeptFrom}
             A == {s \in K : s \in Causal!Needed .. Causal!BlockEnd}
  <1>2. Causal!Kept = Slice(K)
    BY <1>1, SliceHas DEF Causal!Kept
  <1>3. Causal!Acquired = Slice(A)
    <2> HIDE DEF K
    <2> QED
      BY <1>2, SliceHas DEF Causal!Acquired
  <1>4. K \in SUBSET Nat /\ A \in SUBSET (Causal!Needed .. Causal!BlockEnd)
    OBVIOUS
  <1> HIDE DEF K, A
  <1> QED
    BY <1>2, <1>3, <1>4

\* The block has all that it needs.
AcquiresAll == Causal!Acquired = Slice(Causal!Needed .. Causal!BlockEnd)

\* What a block evaluates for a node is, on every session, what the node gives on that
\* very day with the sessions it has.
LEMMA SliceCells ==
    ASSUME InBlock, NEW n \in Causal!Missing, Exact => AcquiresAll,
           NEW S \in SUBSET (Causal!Needed .. Causal!BlockEnd), Causal!Acquired = Slice(S),
           NEW output \in Nat, output <= Causal!Prefix(n) + 1,
           NEW t \in Causal!Prefix(n) + 1 .. Causal!BlockEnd
    PROVE  OfDay(n, t, Causal!Evaluate(Causal!Acquired, Causal!Cutoffs(Causal!Acquired, output)[t])[n][t])
  <1> DEFINE E == Causal!BlockEnd
             N == Causal!Needed
             first == Causal!Prefix(n) + 1
             required == Causal!Required[n]
             warm == Causal!Warm(t, required)
  <1>1. /\ E \in Nat /\ E <= through /\ through \in Nat /\ N \in Nat \ {0} /\ N <= E
        /\ first \in Nat \ {0} /\ first <= E /\ CausalGraph /\ VersionsDated /\ n \in Causal!Nodes
        /\ N <= Causal!Warm(first, required)
    BY BlockEndIs, NeededIs, PrefixIs DEF InBlock, Causal!Missing
  <1>2. required \in Nat
    BY <1>1, RequirementsAreNumbers
  <1>3. t \in Nat \ {0} /\ t \in output .. E /\ first <= t /\ t <= E
    BY <1>1
  <1>4. warm = (IF t - required >= 1 THEN t - required ELSE 1)
        /\ Causal!Warm(first, required) = (IF first - required >= 1 THEN first - required ELSE 1)
    BY <1>1, <1>2, <1>3, WarmIs
  <1>5. warm \in Nat \ {0} /\ N <= warm /\ warm <= t
    <2> HIDE DEF first, required, warm, N, E
    <2> QED
      BY <1>1, <1>2, <1>3, <1>4
  <1>6. ASSUME NEW T \in SUBSET (N .. E), NEW acquired, acquired = Slice(T)
        PROVE  Causal!Evaluate(acquired, Causal!Cutoffs(acquired, output)[t])[n][t] = TodayOf(T \cap warm .. t, n, t)
    <2> DEFINE c == Causal!Cutoffs(acquired, output)[t]
    <2>1. Covers(acquired, T, through) /\ T \in SUBSET Nat /\ \A s \in T : s <= E
      BY <1>1, <1>6, SliceCovers
    <2>2. c \in Nat /\ t <= c /\ c <= E /\ \A s \in T : s <= t => Understood(s, c) = Understood(s, t)
      BY <1>1, <1>3, <2>1, SegmentEnds
    <2> HIDE DEF c
    <2>3. c <= through
      BY <1>1, <2>2
    <2>4. \A s \in warm .. t :
             Causal!Observation(acquired, s, c) = Told(T \cap warm .. t, s, t)
      <3> SUFFICES ASSUME NEW s \in warm .. t
                   PROVE  Causal!Observation(acquired, s, c) = Told(T \cap warm .. t, s, t)
        OBVIOUS
      <3>1. s \in Nat /\ s <= t
        BY <1>3, <1>5
      <3>2. Causal!Observation(acquired, s, c) = Told(T, s, c)
        BY <1>1, <2>1, <2>2, <2>3, <3>1, CoveredShows
      <3> QED
        BY <2>2, <3>1, <3>2 DEF Told
    <2>5. Causal!Evaluate(acquired, c)[n][t] = TodayOf(T \cap warm .. t, n, t)
      <3>1. PICK R : R = T \cap warm .. t
        OBVIOUS
      <3>2. \A s \in Causal!Warm(t, Causal!Required[n]) .. t :
               Causal!Observation(acquired, s, c) = Told(R, s, t)
        BY <2>4, <3>1 DEF warm, required
      <3>3. /\ CausalGraph /\ VersionsDated /\ n \in Causal!Nodes /\ t \in Nat \ {0}
            /\ c \in Nat /\ t <= c
        BY <1>1, <1>3, <2>2
      <3>4. Causal!Evaluate(acquired, c)[n][t] = TodayOf(R, n, t)
        BY <3>2, <3>3, GivesToday, Zenon
      <3> QED
        BY <3>1, <3>4
    <2> QED
      BY <2>5 DEF c
  <1>7. ASSUME Exact
        PROVE  Causal!Evaluate(Causal!Acquired, Causal!Cutoffs(Causal!Acquired, output)[t])[n][t] = TodayOf(1 .. t, n, t)
    <2>1. Causal!Acquired = Slice(N .. E)
      BY <1>7 DEF AcquiresAll
    <2>2. Causal!Evaluate(Causal!Acquired, Causal!Cutoffs(Causal!Acquired, output)[t])[n][t]
            = TodayOf((N .. E) \cap (warm .. t), n, t)
      BY <1>6, <2>1
    <2>3. (N .. E) \cap (warm .. t) = warm .. t
      BY <1>1, <1>3, <1>5
    <2>4. TodayOf(warm .. t, n, t) = TodayOf(1 .. t, n, t)
      <3> DEFINE B == {v \in Causal!Window(versions, 1, t, t) : v.time \in warm .. t}
      <3>1. Covers(B, warm .. t, t)
        <4>1. \A s \in warm .. t : s \in 1 .. t
          BY <1>3, <1>5
        <4> QED
          BY <4>1, WindowHas DEF Covers
      <3>2. t \in Nat /\ t <= t
        BY <1>3
      <3> HIDE DEF B, warm
      <3>3. \A s \in warm .. t :
               Causal!Observation(B, s, t) = Told(1 .. t, s, t)
        <4> SUFFICES ASSUME NEW s \in warm .. t
                     PROVE  Causal!Observation(B, s, t) = Told(1 .. t, s, t)
          OBVIOUS
        <4>1. s \in Nat /\ s \in 1 .. t
          BY <1>3, <1>5
        <4>2. PICK R : R = warm .. t
          OBVIOUS
        <4>3. Causal!Observation(B, s, t) = Told(R, s, t)
          BY <1>1, <3>1, <3>2, <4>1, <4>2, CoveredShows
        <4> QED
          BY <4>1, <4>2, <4>3 DEF Told
      <3>4. PICK R : R = 1 .. t
        OBVIOUS
      <3>5. \A s \in Causal!Warm(t, Causal!Required[n]) .. t :
               Causal!Observation(B, s, t) = Told(R, s, t)
        BY <3>3, <3>4 DEF warm, required
      <3>6. Causal!Evaluate(B, t)[n][t] = TodayOf(R, n, t)
        BY <1>1, <1>3, <3>2, <3>5, GivesToday, Zenon
      <3> QED
        BY <3>4, <3>6 DEF TodayOf, B
    <2> QED
      BY <2>2, <2>3, <2>4
  <1>8. Causal!Evaluate(Causal!Acquired, Causal!Cutoffs(Causal!Acquired, output)[t])[n][t] = TodayOf(S \cap warm .. t, n, t)
    BY <1>6
  <1>9. S \cap warm .. t \in SUBSET (warm .. t)
    OBVIOUS
  <1> HIDE DEF warm
  <1> QED
    BY <1>7, <1>8, <1>9 DEF OfDay, warm, required

LEMMA BlockCells ==
    ASSUME InBlock, BufferTrue, Exact => AcquiresAll, NEW n \in Causal!Missing
    PROVE  OfDays(n, Causal!Prefix(n) + 1, Causal!BlockEnd,
                  Causal!Cells(Causal!Acquired, n, Causal!Prefix(n) + 1,
                        Causal!Cutoffs(Causal!Acquired, Causal!Min({Causal!Prefix(m) + 1 : m \in Causal!Missing}))))
  <1> DEFINE S == {Causal!Prefix(m) + 1 : m \in Causal!Missing}
             output == Causal!Min(S)
             first == Causal!Prefix(n) + 1
             cells == Causal!Cells(Causal!Acquired, n, first, Causal!Cutoffs(Causal!Acquired, output))
  <1>1. PICK T \in SUBSET (Causal!Needed .. Causal!BlockEnd) : Causal!Acquired = Slice(T)
    BY KeptIs
  <1>2. S \in SUBSET Nat /\ S # {} /\ first \in S
    BY PrefixIs
  <1> HIDE DEF S
  <1>3. output \in S /\ \A x \in S : output <= x
    BY <1>2, CausalBounds, MinOfNumbers
  <1>4. output \in Nat /\ output <= first
    BY <1>2, <1>3
  <1> HIDE DEF output
  <1>5. cells = [t \in first .. Causal!BlockEnd |->
                   Causal!Evaluate(Causal!Acquired, Causal!Cutoffs(Causal!Acquired, output)[t])[n][t]]
    BY Zenon DEF Causal!Cells
  <1>6. \A t \in first .. Causal!BlockEnd :
           OfDay(n, t, Causal!Evaluate(Causal!Acquired, Causal!Cutoffs(Causal!Acquired, output)[t])[n][t])
    BY <1>1, <1>4, SliceCells
  <1> HIDE DEF cells, first
  <1>7. OfDays(n, first, Causal!BlockEnd, cells)
    BY <1>5, <1>6 DEF OfDays
  <1> QED
    BY <1>7 DEF output, S, cells, first

-----------------------------------------------------------------------------
(* Sessions of blocks. *)

\* Blocks are counted from the first: a session of the next is of none before.
LEMMA QuotientOf ==
    ASSUME NEW c \in Nat \ {0}, NEW l \in Nat, NEW a \in Nat, l * c <= a, a < l * c + c
    PROVE  a \div c = l
  <1>1. PICK q \in Nat, r \in 0 .. c - 1 : a = c * q + r /\ q = a \div c
    <2>1. a \div c \in Nat /\ a % c \in 0 .. c - 1 /\ a = c * (a \div c) + (a % c)
      OBVIOUS
    <2> QED
      BY <2>1
  <1>2. l * c = c * l
    OBVIOUS
  <1>3. ~ q > l
    <2>1. SUFFICES ASSUME q > l PROVE FALSE
      OBVIOUS
    <2>2. PICK d \in Nat : q = l + 1 + d
      <3>1. q - l - 1 \in Nat /\ q = l + 1 + (q - l - 1)
        BY <2>1
      <3> QED
        BY <3>1
    <2>3. c * q = c * l + c + c * d /\ c * d \in Nat
      BY <2>2
    <2> QED
      BY <1>1, <1>2, <2>3
  <1>4. ~ q < l
    <2>1. SUFFICES ASSUME q < l PROVE FALSE
      OBVIOUS
    <2>2. PICK d \in Nat : l = q + 1 + d
      <3>1. l - q - 1 \in Nat /\ l = q + 1 + (l - q - 1)
        BY <2>1
      <3> QED
        BY <3>1
    <2>3. c * l = c * q + c + c * d /\ c * d \in Nat
      BY <2>2
    <2> QED
      BY <1>1, <1>2, <2>3
  <1> QED
    BY <1>1, <1>3, <1>4

\* A session is of the block that starts at or before it, at an origin.
BlockStart(t, c) == ((t - 1) \div c) * c + 1

LEMMA StartOfSession ==
    ASSUME NEW c \in Nat \ {0}, NEW t \in Nat \ {0}, NEW o, o = BlockStart(t, c)
    PROVE  o \in Nat \ {0} /\ o <= t /\ t <= o + c - 1 /\ (o - 1) % c = 0
  <1>1. PICK q \in Nat, r \in 0 .. c - 1 : t - 1 = c * q + r /\ q = (t - 1) \div c
    <2>1. PICK a \in Nat : a = t - 1
      OBVIOUS
    <2>2. a \div c \in Nat /\ a % c \in 0 .. c - 1 /\ a = c * (a \div c) + (a % c)
      BY <2>1
    <2> QED
      BY <2>1, <2>2
  <1>2. q * c = c * q /\ c * q \in Nat
    OBVIOUS
  <1>3. (c * q) % c = 0
    BY <1>1
  <1>4. o = c * q + 1
    BY <1>1, <1>2 DEF BlockStart
  <1> QED
    BY <1>1, <1>2, <1>3, <1>4

\* A session of a block is of the block that starts where its calendar does.
LEMMA SessionsOfBlock ==
    ASSUME NEW c \in Nat \ {0}, NEW b \in Nat \ {0}, (b - 1) % c = 0, NEW t \in b .. b + c - 1
    PROVE  BlockStart(t, c) = b
  <1>1. PICK q \in Nat : b - 1 = c * q
    <2>1. PICK a \in Nat : a = b - 1
      OBVIOUS
    <2>2. a \div c \in Nat /\ a = c * (a \div c) + (a % c)
      BY <2>1
    <2> QED
      BY <2>1, <2>2
  <1>2. q * c = c * q /\ c * q \in Nat
    OBVIOUS
  <1>3. PICK a \in Nat : a = t - 1
    OBVIOUS
  <1>4. q * c <= a /\ a < q * c + c
    BY <1>1, <1>2, <1>3
  <1>5. a \div c = q
    BY <1>4, QuotientOf
  <1> QED
    BY <1>1, <1>2, <1>3, <1>5 DEF BlockStart

-----------------------------------------------------------------------------
(* What every step of a replay keeps. *)

\* Cells that are published are those of their days, blocks that are behind are
\* published, and so is the rest of a block whose nodes are not pending.
BlockBehind(n, b) == Causal!BlockKey(versions, n, b, Causal!Min({b + scope.sessions - 1, through}))

ReplayFields == {"step", "nodes", "inventory", "begin", "parts", "from", "loaded", "buffer"}

Replaying(w) ==
    /\ DOMAIN w = ReplayFields
    /\ w.step \in {"block", "publish", "join", "complete"}
    /\ w.nodes \subseteq Causal!Nodes /\ w.inventory \subseteq DOMAIN rows
    /\ \E roots \in scope.roots : w.nodes = Causal!Closure(roots)
    /\ w.begin \in Nat \ {0} /\ w.begin <= through + 1
    /\ w.begin = through + 1 \/ (w.begin - 1) % scope.sessions = 0
    /\ \A n \in w.nodes : \A t \in 1 .. w.begin - 1 :
          BlockBehind(n, BlockStart(t, scope.sessions)) \in DOMAIN rows
    /\ w.loaded \in Nat /\ w.from \in Nat
    /\ \E S \in SUBSET Nat : w.buffer = Slice(S)

PartOfDay(w, n, part) ==
    LET end == Causal!Min({w.begin + scope.sessions - 1, through}) IN
    /\ part.first \in w.begin .. end
    /\ OfDays(n, part.first, end, part.cells)
    /\ part.first > w.begin => Causal!BlockKey(versions, n, w.begin, part.first - 1) \in DOMAIN rows

Publishing(w) ==
    /\ w.begin <= through /\ DOMAIN w.parts \subseteq w.nodes /\ DOMAIN w.parts # {}
    /\ \A n \in DOMAIN w.parts : PartOfDay(w, n, w.parts[n])
    /\ \A n \in w.nodes \ DOMAIN w.parts : BlockBehind(n, w.begin) \in DOMAIN rows

\* What is published under a key is of its days.
CellHolds(key, t, cell) ==
    /\ \E S \in SUBSET (Causal!Warm(t, Causal!Required[key.node]) .. t) : cell = Causal!Gathers(key, t, S)
    /\ Exact => cell = Causal!Gathers(key, t, 1 .. t)
KeyHolds(key, cells) ==
    /\ cells = [t \in key.first .. key.last |-> cells[t]]
    /\ \A t \in key.first .. key.last : CellHolds(key, t, cells[t])
RowsHold == \A key \in DOMAIN rows : key.kind # "fragment" => KeyHolds(key, rows[key])

\* Of histories that grow along the graph, the block of a node is only published when
\* those of the nodes before it are.
Narrowed(key, m) ==
    [key EXCEPT !.node = m, !.proof = {v \in key.proof : v.time >= Causal!Warm(key.first, Causal!Required[m])}]
RowsNested ==
    Causal!ChainedHistories =>
        \A key \in DOMAIN rows : \A m \in Causal!Nodes :
            key.kind = "block" /\ m < key.node => Narrowed(key, m) \in DOMAIN rows

CausalInv ==
    /\ CausalGraph /\ VersionsDated /\ through \in Nat
    /\ RowsHold /\ RowsNested
    /\ replay.step # "idle" => Replaying(replay)
    /\ replay.step \in {"publish", "join"} => Publishing(replay)

Lines == CHOOSE f : f = [m \in Causal!Nodes |-> NodeLine(f, m)]

\* What nodes give depends on the run only.
LEMMA CausalMeaningStays ==
    ASSUME scope' = scope
    PROVE  /\ CausalGraph => CausalGraph'
           /\ Causal!Nodes' = Causal!Nodes
           /\ \A n : Causal!Parent(n)' = Causal!Parent(n)
           /\ Causal!Required' = Causal!Required
           /\ \A acquired, cutoff : Causal!Evaluate(acquired, cutoff)' = Causal!Evaluate(acquired, cutoff)
           /\ \A roots : Causal!Closure(roots)' = Causal!Closure(roots)
           /\ Exact' <=> Exact
           /\ Causal!ChainedHistories' <=> Causal!ChainedHistories
           /\ \A key, m : Narrowed(key, m)' = Narrowed(key, m)
           /\ \A key, cells : KeyHolds(key, cells)' <=> KeyHolds(key, cells)
           /\ \A late, n, first, last : Causal!BlockKey(late, n, first, last)' = Causal!BlockKey(late, n, first, last)
  <1>1. CausalGraph => CausalGraph'
    BY DEF CausalGraph
  <1>2. Causal!Nodes' = Causal!Nodes /\ \A n : Causal!Parent(n)' = Causal!Parent(n)
    BY DEF Causal!Nodes, Causal!Parent
  <1>3. Causal!Required' = Causal!Required
    BY <1>2 DEF Causal!Required
  <1>4. \A acquired, cutoff : Causal!Evaluate(acquired, cutoff)' = Causal!Evaluate(acquired, cutoff)
    BY <1>2 DEF Causal!Evaluate
  <1>5. \A key, t, S : Causal!Gathers(key, t, S)' = Causal!Gathers(key, t, S)
    BY <1>4 DEF Causal!Gathers
  <1>6. \A late, n, first, last : Causal!BlockKey(late, n, first, last)' = Causal!BlockKey(late, n, first, last)
    BY <1>3 DEF Causal!BlockKey, Causal!Proof
  <1>7. \A roots : Causal!Closure(roots)' = Causal!Closure(roots)
    <2>1. \A f, n : NodeLine(f, n)' = NodeLine(f, n)
      BY <1>2 DEF NodeLine
    <2>2. Lines' = Lines
      BY <1>2, <2>1 DEF Lines
    <2>3. \A roots : Causal!Closure(roots) = UNION {Lines[n] : n \in roots}
      BY Zenon DEF Causal!Closure, NodeLine, Lines
    <2>4. \A roots : Causal!Closure(roots)' = UNION {Lines'[n] : n \in roots}
      BY Zenon DEF Causal!Closure, NodeLine, Lines
    <2> QED
      BY <2>2, <2>3, <2>4
  <1>8. (Exact' <=> Exact) /\ (Causal!ChainedHistories' <=> Causal!ChainedHistories)
    BY <1>2, <1>3, <1>7 DEF Exact, Causal!EvenHistories, Causal!ChainedHistories
  <1>9. \A key, m : Narrowed(key, m)' = Narrowed(key, m)
    BY <1>3 DEF Narrowed
  <1>10. \A key, cells : KeyHolds(key, cells)' <=> KeyHolds(key, cells)
    <2>1. \A key, t, cell : CellHolds(key, t, cell)' <=> CellHolds(key, t, cell)
      BY <1>3, <1>5, <1>8 DEF CellHolds
    <2> QED
      BY <2>1 DEF KeyHolds
  <1> QED
    BY <1>1, <1>2, <1>3, <1>4, <1>6, <1>7, <1>8, <1>9, <1>10

\* A plan leaves the source alone, and published cells stay.
Quiet ==
    /\ scope' = scope /\ versions' = versions /\ through' = through
    /\ DOMAIN rows \subseteq DOMAIN rows'

LEMMA QuietKeeps ==
    ASSUME Quiet
    PROVE  /\ \A n, first, last, cells : OfDays(n, first, last, cells)' <=> OfDays(n, first, last, cells)
           /\ \A n, b : BlockBehind(n, b)' = BlockBehind(n, b)
           /\ \A w : Replaying(w) => Replaying(w)'
           /\ \A w, n, part : PartOfDay(w, n, part) => PartOfDay(w, n, part)'
           /\ \A w : Publishing(w) => Publishing(w)'
           /\ VersionsDated => VersionsDated'
  <1>0. scope' = scope /\ versions' = versions /\ through' = through /\ DOMAIN rows \subseteq DOMAIN rows'
    BY DEF Quiet
  <1>1. \A n, first, last, cells : OfDays(n, first, last, cells)' <=> OfDays(n, first, last, cells)
    <2>1. \A S, n, t : TodayOf(S, n, t)' = TodayOf(S, n, t)
      BY <1>0, CausalMeaningStays DEF TodayOf
    <2>2. \A n, t, cell : OfDay(n, t, cell)' <=> OfDay(n, t, cell)
      BY <1>0, <2>1, CausalMeaningStays DEF OfDay
    <2> QED
      BY <2>2 DEF OfDays
  <1>2. \A n, b : BlockBehind(n, b)' = BlockBehind(n, b)
    BY <1>0, CausalMeaningStays DEF BlockBehind
  <1>3. \A w : Replaying(w) => Replaying(w)'
    <2>1. \A S : Slice(S)' = Slice(S)
      BY <1>0 DEF Slice
    <2> QED
      BY <1>0, <1>2, <2>1, CausalMeaningStays DEF Replaying
  <1>4. \A w, n, part : PartOfDay(w, n, part) => PartOfDay(w, n, part)'
    BY <1>0, <1>1, CausalMeaningStays DEF PartOfDay
  <1>5. \A w : Publishing(w) => Publishing(w)'
    BY <1>0, <1>2, <1>4 DEF Publishing
  <1>6. VersionsDated => VersionsDated'
    BY <1>0 DEF VersionsDated
  <1> QED
    BY <1>1, <1>2, <1>3, <1>4, <1>5, <1>6

\* What holds of the replay that a step leaves.
LEMMA NextReplay ==
    ASSUME NEW w, w = replay'
    PROVE  /\ Replaying(w)' => Replaying(replay)'
           /\ Publishing(w)' => Publishing(replay)'
  <1>1. Replaying(w)' => Replaying(replay)'
    BY DEF Replaying, BlockBehind, Slice
  <1>2. Publishing(w)' => Publishing(replay)'
    BY DEF Publishing, PartOfDay, BlockBehind, OfDays, OfDay
  <1> QED
    BY <1>1, <1>2

\* Cells are added under a key unless it has some.
Extended(key, cells) ==
    /\ DOMAIN rows' = DOMAIN rows \cup {key} /\ \A k \in DOMAIN rows : rows'[k] = rows[k]
    /\ key \notin DOMAIN rows => rows'[key] = cells

LEMMA PublishExtends == ASSUME NEW key, NEW cells, Causal!Publish(key, cells) PROVE Extended(key, cells)
  <1>1. CASE key \in DOMAIN rows
    <2>1. rows' = rows
      BY <1>1 DEF Causal!Publish, Causal!Known
    <2> QED
      BY <1>1, <2>1 DEF Extended
  <1>2. CASE key \notin DOMAIN rows
    <2>1. rows' = [k \in DOMAIN rows \cup {key} |-> IF k = key THEN cells ELSE rows[k]]
      BY <1>2 DEF Causal!Publish, Causal!Known
    <2> QED
      BY <1>2, <2>1 DEF Extended
  <1> QED
    BY <1>1, <1>2

LEMMA PublishKeepsRows ==
    ASSUME RowsHold, RowsNested, scope' = scope, NEW key, NEW cells, Causal!Publish(key, cells),
           key.kind # "fragment" => KeyHolds(key, cells),
           Causal!ChainedHistories /\ key.kind = "block" =>
              \A m \in Causal!Nodes : m < key.node => Narrowed(key, m) \in DOMAIN rows
    PROVE  RowsHold' /\ RowsNested'
  <1>1. Extended(key, cells)
    BY PublishExtends
  <1>2. ASSUME NEW k \in DOMAIN rows', k.kind # "fragment" PROVE KeyHolds(k, rows'[k])
    <2>1. CASE k \in DOMAIN rows
      BY <1>1, <1>2, <2>1 DEF Extended, RowsHold
    <2>2. CASE k \notin DOMAIN rows
      BY <1>1, <1>2, <2>2 DEF Extended
    <2> QED
      BY <2>1, <2>2
  <1>3. \A k, c : KeyHolds(k, c)' <=> KeyHolds(k, c)
    BY CausalMeaningStays
  <1>4. RowsHold'
    <2>1. \A k, c : (k = k /\ c = rows'[k]) => (KeyHolds(k, c)' <=> KeyHolds(k, c))
      BY <1>3
    <2> QED
      BY <1>2, <1>3 DEF RowsHold, KeyHolds, CellHolds
  <1>5. RowsNested'
    <2>1. /\ Causal!Nodes' = Causal!Nodes /\ (Causal!ChainedHistories' <=> Causal!ChainedHistories)
          /\ \A k, m : Narrowed(k, m)' = Narrowed(k, m)
      BY CausalMeaningStays
    <2>2. ASSUME Causal!ChainedHistories, NEW k \in DOMAIN rows', NEW m \in Causal!Nodes,
                 k.kind = "block", m < k.node
          PROVE  Narrowed(k, m) \in DOMAIN rows'
      BY <1>1, <2>2 DEF RowsNested, Extended
    <2> QED
      BY <2>1, <2>2 DEF RowsNested
  <1> QED
    BY <1>4, <1>5

\* Rows that do not change keep their meaning, whatever the source learns.
LEMMA RowsMeanTheSame ==
    ASSUME RowsHold, RowsNested, scope' = scope, rows' = rows
    PROVE  RowsHold' /\ RowsNested'
  <1>1. RowsHold'
    <2>1. PICK r : r = rows
      OBVIOUS
    <2>2. \A key \in DOMAIN r : key.kind # "fragment" => KeyHolds(key, r[key])
      BY <2>1 DEF RowsHold
    <2>3. \A key \in DOMAIN r : key.kind # "fragment" => KeyHolds(key, r[key])'
      BY <2>2, CausalMeaningStays
    <2> QED
      BY <2>1, <2>3 DEF RowsHold, KeyHolds, CellHolds
  <1>2. RowsNested'
    BY CausalMeaningStays DEF RowsNested
  <1> QED
    BY <1>1, <1>2

-----------------------------------------------------------------------------
(* The steps of a replay. *)

LEMMA CausalInit == ASSUME scope \in CausalScopes, versions = {}, through = 0, rows = <<>>, replay = Causal!Idle
                    PROVE  CausalInv
  <1>1. DOMAIN rows = {}
    OBVIOUS
  <1>2. replay.step = "idle"
    BY DEF Causal!Idle
  <1> QED
    BY <1>1, <1>2 DEF CausalInv, CausalGraph, VersionsDated, RowsHold, RowsNested

LEMMA ObserveKeeps == ASSUME CausalInv, NEW last \in scope.ends, Causal!Observe(last) PROVE CausalInv'
  <1>1. /\ scope' = scope /\ versions' = versions /\ rows' = rows /\ replay' = replay
        /\ through' = last /\ replay.step = "idle"
    BY DEF Causal!Observe, Causal!At
  <1>2. through' \in Nat
    BY <1>1, CausalFacts DEF CausalInv
  <1>3. RowsHold' /\ RowsNested'
    BY <1>1, RowsMeanTheSame DEF CausalInv
  <1> QED
    BY <1>1, <1>2, <1>3 DEF CausalInv, CausalGraph, VersionsDated

LEMMA DiscoverKeeps ==
    ASSUME CausalInv, NEW t \in 1 .. through, NEW known \in t .. through, Causal!Discover(t, known)
    PROVE  CausalInv'
  <1>1. PICK r : versions' = versions \cup {[time |-> t, known |-> known, revision |-> r]}
    BY DEF Causal!Discover
  <1>2. scope' = scope /\ rows' = rows /\ replay' = replay /\ through' = through /\ replay.step = "idle"
    BY DEF Causal!Discover, Causal!At
  <1>3. VersionsDated'
    BY <1>1, <1>2 DEF CausalInv, VersionsDated
  <1>4. RowsHold' /\ RowsNested'
    BY <1>2, RowsMeanTheSame DEF CausalInv
  <1> QED
    BY <1>2, <1>3, <1>4 DEF CausalInv, CausalGraph

LEMMA CausalStartKeeps == ASSUME CausalInv, NEW roots \in scope.roots, Causal!Start(roots) PROVE CausalInv'
  <1>1. PICK w : w = replay'
    OBVIOUS
  <1>2. /\ scope' = scope /\ versions' = versions /\ rows' = rows /\ through' = through
        /\ w = [step |-> "block", nodes |-> Causal!Closure(roots), inventory |-> DOMAIN rows,
                begin |-> 1, parts |-> <<>>, from |-> 0, loaded |-> 0, buffer |-> {}]
    BY <1>1 DEF Causal!Start
  <1>3. Causal!Closure(roots) \subseteq Causal!Nodes /\ scope.sessions \in Nat \ {0}
    BY CausalFacts, ClosureHasNodes DEF CausalInv
  <1>4. (1 - 1) % scope.sessions = 0
    BY <1>3
  <1>5. Replaying(w)
    <2>1. /\ DOMAIN w = ReplayFields /\ w.step = "block" /\ w.nodes = Causal!Closure(roots)
          /\ w.inventory = DOMAIN rows /\ w.begin = 1 /\ w.from = 0 /\ w.loaded = 0
      BY <1>2 DEF ReplayFields
    <2>2. 1 .. w.begin - 1 = {}
      BY <2>1
    <2>3. w.buffer = Slice({})
      BY <1>2, SliceHas
    <2> QED
      BY <1>3, <1>4, <2>1, <2>2, <2>3 DEF Replaying, CausalInv
  <1>6. Quiet
    BY <1>2 DEF Quiet
  <1>7. Replaying(w)' /\ VersionsDated'
    BY <1>5, <1>6, QuietKeeps DEF CausalInv
  <1>8. RowsHold' /\ RowsNested'
    BY <1>2, RowsMeanTheSame DEF CausalInv
  <1>9. w.step = "block"
    BY <1>2
  <1>10. Replaying(replay)'
    BY <1>1, <1>7, NextReplay
  <1>11. replay'.step = "block"
    BY <1>1, <1>9
  <1> QED
    BY <1>2, <1>7, <1>8, <1>10, <1>11 DEF CausalInv, CausalGraph

LEMMA CausalEndKeeps ==
    ASSUME CausalInv, Causal!Complete \/ Causal!Interrupt
    PROVE  CausalInv'
  <1>1. scope' = scope /\ versions' = versions /\ rows' = rows /\ through' = through /\ replay' = Causal!Idle
    BY DEF Causal!Complete, Causal!Interrupt
  <1>2. replay'.step = "idle"
    BY <1>1 DEF Causal!Idle
  <1>3. RowsHold' /\ RowsNested'
    BY <1>1, RowsMeanTheSame DEF CausalInv
  <1> QED
    BY <1>1, <1>2, <1>3 DEF CausalInv, CausalGraph, VersionsDated

LEMMA CausalRetryKeeps == ASSUME CausalInv, Causal!Retry PROVE CausalInv'
  <1>1. PICK w : w = replay'
    OBVIOUS
  <1>2. /\ scope' = scope /\ versions' = versions /\ rows' = rows /\ through' = through
        /\ w = [replay EXCEPT !.step = "block", !.begin = 1, !.parts = <<>>, !.inventory = DOMAIN rows]
    BY <1>1 DEF Causal!Retry
  <1>3. Replaying(replay) /\ scope.sessions \in Nat \ {0}
    BY CausalFacts DEF CausalInv, Causal!Retry
  <1>4. /\ DOMAIN w = ReplayFields /\ w.step = "block" /\ w.nodes = replay.nodes
        /\ w.inventory = DOMAIN rows /\ w.begin = 1 /\ w.from = replay.from /\ w.loaded = replay.loaded
        /\ w.buffer = replay.buffer
    BY <1>2, <1>3 DEF Replaying, ReplayFields
  <1>5. Replaying(w)
    <2>1. 1 .. w.begin - 1 = {} /\ (1 - 1) % scope.sessions = 0
      BY <1>3, <1>4
    <2> QED
      BY <1>3, <1>4, <2>1 DEF Replaying, CausalInv
  <1>6. Quiet
    BY <1>2 DEF Quiet
  <1>7. Replaying(w)' /\ VersionsDated'
    BY <1>5, <1>6, QuietKeeps DEF CausalInv
  <1>8. RowsHold' /\ RowsNested'
    BY <1>2, RowsMeanTheSame DEF CausalInv
  <1>9. Replaying(replay)'
    BY <1>1, <1>7, NextReplay
  <1>10. replay'.step = "block"
    BY <1>1, <1>4
  <1> QED
    BY <1>2, <1>7, <1>8, <1>9, <1>10 DEF CausalInv, CausalGraph

-----------------------------------------------------------------------------
(* Blocks. *)

\* The sessions before a block have been published.
BehindUpto(keys, b) ==
    /\ b \in Nat \ {0} /\ b <= through + 1
    /\ b = through + 1 \/ (b - 1) % scope.sessions = 0
    /\ \A n \in replay.nodes : \A t \in 1 .. b - 1 : BlockBehind(n, BlockStart(t, scope.sessions)) \in keys

\* When every node has its block, the sessions behind the block are published.
LEMMA BlockIsBehind ==
    ASSUME Replaying(replay), InBlock, NEW keys, DOMAIN rows \subseteq keys,
           \A n \in replay.nodes : BlockBehind(n, replay.begin) \in keys
    PROVE  BehindUpto(keys, Causal!BlockEnd + 1)
  <1> DEFINE E == Causal!BlockEnd
             b == replay.begin
             c == scope.sessions
  <1>1. /\ c \in Nat \ {0} /\ b \in Nat \ {0} /\ through \in Nat /\ b <= through /\ (b - 1) % c = 0
        /\ E \in Nat /\ b <= E /\ E <= through
        /\ E = IF b + c - 1 <= through THEN b + c - 1 ELSE through
    BY CausalFacts, BlockEndIs DEF InBlock, Replaying
  <1>2. \A n \in replay.nodes : \A t \in 1 .. b - 1 : BlockBehind(n, BlockStart(t, c)) \in keys
    BY DEF Replaying
  <1> HIDE DEF E, b, c
  <1>3. E = through \/ E % c = 0
    <2>1. CASE b + c - 1 <= through
      <3>1. PICK a \in Nat : a = b - 1
        BY <1>1
      <3>2. c % c = 0
        BY <1>1
      <3>3. (a + c) % c = 0
        BY <1>1, <3>1, <3>2, Multiples
      <3>4. E = a + c
        BY <1>1, <2>1, <3>1
      <3> QED
        BY <3>3, <3>4
    <2> QED
      BY <1>1, <2>1
  <1>4. ASSUME NEW n \in replay.nodes, NEW t \in 1 .. E
        PROVE  BlockBehind(n, BlockStart(t, c)) \in keys
    <2>1. CASE t \in 1 .. b - 1
      BY <1>2, <2>1
    <2>2. CASE t \notin 1 .. b - 1
      <3>1. t \in b .. b + c - 1
        BY <1>1, <2>2
      <3>2. BlockStart(t, c) = b
        BY <1>1, <3>1, SessionsOfBlock
      <3> QED
        BY <3>2 DEF b
    <2> QED
      BY <2>1, <2>2
  <1>6. PICK b1 : b1 = E + 1
    OBVIOUS
  <1>7. b1 \in Nat \ {0} /\ b1 <= through + 1 /\ b1 - 1 = E
    BY <1>1, <1>6
  <1>8. b1 = through + 1 \/ (b1 - 1) % c = 0
    BY <1>3, <1>6, <1>7
  <1>9. BehindUpto(keys, b1)
    BY <1>4, <1>7, <1>8 DEF c, BehindUpto
  <1> QED
    BY <1>6, <1>9 DEF E

\* A replay that is at a block.
LEMMA ReplayInBlock ==
    ASSUME CausalInv, replay.step # "idle", replay.begin <= through
    PROVE  /\ InBlock /\ Replaying(replay) /\ BufferTrue
           /\ \A n : Causal!Key(n) = BlockBehind(n, replay.begin)
           /\ Causal!BlockEnd = Causal!Min({replay.begin + scope.sessions - 1, through})
  BY DEF CausalInv, InBlock, Replaying, BufferTrue, Causal!Key, BlockBehind, Causal!BlockEnd

\* The buffer starts where it did, or no later than the block needs it to.
LEMMA KeptFromIs ==
    ASSUME InBlock, BufferTrue, Causal!Missing # {}
    PROVE  /\ Causal!KeptFrom \in Nat
           /\ \A t \in Nat : Causal!Needed <= t /\ (replay.loaded # 0 => replay.from <= t) => Causal!KeptFrom <= t
  <1> DEFINE S == {Causal!Required[n] : n \in replay.nodes}
  <1>1. S \in SUBSET Nat /\ S # {}
    BY RequirementsAreNumbers DEF InBlock, Causal!Missing
  <1>2. IsFiniteSet(replay.nodes)
    <2>1. replay.nodes \subseteq 1 .. Len(scope.history) /\ Len(scope.history) \in Nat
      BY CausalFacts DEF InBlock
    <2>2. IsFiniteSet(1 .. Len(scope.history))
      BY <2>1, FS_Interval
    <2> QED
      BY <2>1, <2>2, FS_Subset
  <1>3. IsFiniteSet(S)
    <2> DEFINE f == [n \in replay.nodes |-> Causal!Required[n]]
    <2>1. IsFiniteSet({f[n] : n \in DOMAIN f})
      BY <1>2, ColumnIsFinite
    <2>2. {f[n] : n \in DOMAIN f} = S
      OBVIOUS
    <2> QED
      BY <2>1, <2>2
  <1> HIDE DEF S
  <1>4. PICK g \in S : \A x \in S : x <= g
    BY <1>1, <1>3, GreatestOfFinite
  <1>5. Max(S) \in S
    BY <1>1, <1>4, MaxOfBounded
  <1>6. PICK m \in Nat : m = Causal!Max(S)
    BY <1>1, <1>5, CausalBounds
  <1>7. replay.begin \in Nat \ {0} /\ Causal!Needed \in Nat
    BY NeededIs DEF InBlock
  <1>8. Causal!Warm(replay.begin, m) \in Nat
    <2>1. Causal!Warm(replay.begin, m) = IF replay.begin - m >= 1 THEN replay.begin - m ELSE 1
      BY <1>7, WarmIs
    <2>2. PICK d \in Int : d = replay.begin - m
      BY <1>7
    <2> QED
      BY <2>1, <2>2
  <1>9. PICK u \in Nat : u = Causal!Warm(replay.begin, m)
    BY <1>8
  <1>12. Causal!Min({Causal!Needed, u}) \in Nat /\ Causal!Min({Causal!Needed, u}) <= Causal!Needed
    BY <1>7, CausalBounds, MinOfTwo
  <1>13. PICK v \in Nat : v = Causal!Min({Causal!Needed, u}) /\ v <= Causal!Needed
    BY <1>12
  <1>10. PICK f \in Nat : f = IF replay.loaded = 0 THEN Causal!Needed ELSE replay.from
    BY <1>7 DEF BufferTrue
  <1>11. Causal!KeptFrom = Causal!Max({f, v})
    BY <1>6, <1>9, <1>13, <1>10 DEF Causal!KeptFrom, S
  <1>14. Causal!KeptFrom = IF f >= v THEN f ELSE v
    BY <1>11, CausalBounds, MaxOfTwo
  <1> QED
    BY <1>7, <1>10, <1>13, <1>14

LEMMA CausalBlockKeeps ==
    ASSUME CausalInv, Causal!Block, Exact /\ Causal!Missing # {} => AcquiresAll
    PROVE  CausalInv'
  <1>1. /\ replay.step = "block" /\ replay.begin <= through
        /\ scope' = scope /\ versions' = versions /\ rows' = rows /\ through' = through
    BY DEF Causal!Block, Causal!At
  <1>2. /\ InBlock /\ Replaying(replay) /\ BufferTrue
        /\ \A n : Causal!Key(n) = BlockBehind(n, replay.begin)
        /\ Causal!BlockEnd = Causal!Min({replay.begin + scope.sessions - 1, through})
    BY <1>1, ReplayInBlock
  <1>3. PICK w : w = replay'
    OBVIOUS
  <1>4. /\ Replaying(w) /\ w.step # "idle"
        /\ w.step \in {"publish", "join"} => Publishing(w)
    <2>1. CASE Causal!Missing = {}
      <3>1. w = [replay EXCEPT !.begin = Causal!BlockEnd + 1]
        BY <1>3, <2>1 DEF Causal!Block
      <3>2. /\ DOMAIN w = ReplayFields /\ w.begin = Causal!BlockEnd + 1
            /\ w.step = "block" /\ w.nodes = replay.nodes /\ w.inventory = replay.inventory
            /\ w.from = replay.from /\ w.loaded = replay.loaded /\ w.buffer = replay.buffer
        BY <1>1, <1>2, <3>1 DEF Replaying, ReplayFields
      <3>3. \A n \in replay.nodes : BlockBehind(n, replay.begin) \in DOMAIN rows
        BY <1>2, <2>1 DEF Causal!Missing, Causal!Known
      <3>4. /\ w.begin \in Nat \ {0} /\ w.begin <= through + 1
            /\ w.begin = through + 1 \/ (w.begin - 1) % scope.sessions = 0
            /\ \A n \in replay.nodes : \A t \in 1 .. w.begin - 1 :
                  BlockBehind(n, BlockStart(t, scope.sessions)) \in DOMAIN rows
        <4>1. BehindUpto(DOMAIN rows, Causal!BlockEnd + 1)
          BY <1>2, <3>3, BlockIsBehind
        <4> QED
          BY <3>2, <4>1 DEF BehindUpto
      <3> QED
        BY <1>2, <3>2, <3>4 DEF Replaying
    <2>2. CASE Causal!Missing # {}
      <3> DEFINE acquired == Causal!Acquired
                 output == Causal!Min({Causal!Prefix(n) + 1 : n \in Causal!Missing})
                 parts == [n \in Causal!Missing |-> [first |-> Causal!Prefix(n) + 1,
                             cells |-> Causal!Cells(acquired, n, Causal!Prefix(n) + 1,
                                                    Causal!Cutoffs(acquired, output))]]
                 kept == Causal!Kept
      <3>1. w = [replay EXCEPT !.step = "publish", !.parts = parts, !.buffer = kept,
                               !.from = Causal!KeptFrom, !.loaded = Causal!BlockEnd]
        BY <1>3, <2>2 DEF Causal!Block
      <3>2. DOMAIN parts = Causal!Missing
            /\ \A n \in Causal!Missing :
                  /\ parts[n].first = Causal!Prefix(n) + 1
                  /\ OfDays(n, Causal!Prefix(n) + 1, Causal!BlockEnd, parts[n].cells)
        BY <1>2, <2>2, BlockCells
      <3>3. \E S \in SUBSET Nat : kept = Slice(S)
        BY <1>2, <2>2, KeptIs
      <3> HIDE DEF parts, kept
      <3>4. /\ DOMAIN w = ReplayFields /\ w.step = "publish" /\ w.parts = parts /\ w.buffer = kept
            /\ w.from = Causal!KeptFrom /\ w.loaded = Causal!BlockEnd
            /\ w.nodes = replay.nodes /\ w.inventory = replay.inventory /\ w.begin = replay.begin
        BY <1>2, <3>1 DEF Replaying, ReplayFields
      <3>5. Causal!KeptFrom \in Nat /\ Causal!BlockEnd \in Nat
        BY <1>2, <2>2, KeptFromIs, BlockEndIs
      <3>6. Replaying(w)
        BY <1>2, <3>3, <3>4, <3>5 DEF Replaying
      <3>7. ASSUME NEW n \in Causal!Missing PROVE PartOfDay(w, n, parts[n])
        <4>1. /\ Causal!Prefix(n) \in Nat
              /\ replay.begin - 1 <= Causal!Prefix(n) /\ Causal!Prefix(n) < Causal!BlockEnd
              /\ Causal!Prefix(n) >= replay.begin =>
                    Causal!BlockKey(versions, n, replay.begin, Causal!Prefix(n)) \in replay.inventory
          BY <1>2, PrefixIs
        <4>2. replay.begin \in Nat /\ replay.inventory \subseteq DOMAIN rows
          BY <1>2 DEF Replaying
        <4>3. PICK p \in Nat : p = Causal!Prefix(n)
          BY <4>1
        <4>7. PICK f : f = parts[n].first
          OBVIOUS
        <4>8. f = p + 1
          BY <3>2, <4>3, <4>7
        <4>9. f \in replay.begin .. Causal!BlockEnd /\ f - 1 = p
          BY <3>5, <4>1, <4>2, <4>3, <4>8
        <4>4. parts[n].first = p + 1 /\ parts[n].first \in replay.begin .. Causal!BlockEnd
              /\ parts[n].first - 1 = p
          BY <4>7, <4>8, <4>9
        <4>5. parts[n].first > replay.begin =>
                 Causal!BlockKey(versions, n, replay.begin, parts[n].first - 1) \in DOMAIN rows
          BY <4>1, <4>2, <4>3, <4>4
        <4>6. OfDays(n, parts[n].first, Causal!BlockEnd, parts[n].cells)
          BY <3>2, <4>3, <4>4
        <4> QED
          BY <1>2, <3>4, <4>4, <4>5, <4>6 DEF PartOfDay
      <3>8. Publishing(w)
        <4>1. Causal!Missing \subseteq replay.nodes
          BY DEF Causal!Missing
        <4>2. \A n \in replay.nodes \ Causal!Missing : BlockBehind(n, replay.begin) \in DOMAIN rows
          BY <1>2 DEF Causal!Missing, Causal!Known
        <4> QED
          BY <1>1, <2>2, <3>2, <3>4, <3>7, <4>1, <4>2 DEF Publishing
      <3> QED
        BY <3>4, <3>6, <3>8
    <2> QED
      BY <2>1, <2>2
  <1>5. Quiet
    BY <1>1 DEF Quiet
  <1>6. Replaying(w)' /\ VersionsDated' /\ (w.step \in {"publish", "join"} => Publishing(w)')
    BY <1>4, <1>5, QuietKeeps DEF CausalInv
  <1>7. RowsHold' /\ RowsNested'
    BY <1>1, RowsMeanTheSame DEF CausalInv
  <1>8. Replaying(replay)'
    BY <1>3, <1>6, NextReplay
  <1>9. replay'.step \in {"publish", "join"} => Publishing(replay)'
    BY <1>3, <1>6, NextReplay
  <1> QED
    BY <1>1, <1>6, <1>7, <1>8, <1>9 DEF CausalInv, CausalGraph

LEMMA TurnIs == ASSUME CausalGraph, NEW pending \in SUBSET Causal!Nodes, pending # {}
                PROVE  Causal!Turn(pending) \in pending /\ \A m \in pending : Causal!Turn(pending) <= m
  <1>1. pending \in SUBSET Nat
    BY CausalFacts
  <1>2. PICK n \in pending : \A m \in pending : n <= m
    BY <1>1, LeastNatural
  <1> QED
    BY <1>2 DEF Causal!Turn

\* The block of a node is of its days.
LEMMA BlockHasDays ==
    ASSUME CausalGraph, VersionsDated, NEW n \in Causal!Nodes, NEW first \in Nat \ {0}, NEW last \in Nat,
           NEW key, key = Causal!BlockKey(versions, n, first, last)
    PROVE  /\ key.kind = "block" /\ key.node = n
           /\ \A cells : KeyHolds(key, cells) <=> OfDays(n, first, last, cells)
  <1>1. key.first = first /\ key.last = last /\ key.kind = "block" /\ key.node = n
    BY DEF Causal!BlockKey
  <1>2. \A t \in first .. last : \A S : Causal!Gathers(key, t, S) = TodayOf(S, n, t)
    BY BlockMeansToday
  <1>3. \A t \in first .. last : \A cell : CellHolds(key, t, cell) <=> OfDay(n, t, cell)
    BY <1>1, <1>2 DEF CellHolds, OfDay
  <1> QED
    BY <1>1, <1>3 DEF KeyHolds, OfDays

\* What the block of a node that reads further proves, proves that of another.
LEMMA NarrowedIs ==
    ASSUME CausalGraph, NEW m \in Causal!Nodes, NEW n \in Causal!Nodes, Causal!Required[m] <= Causal!Required[n],
           NEW first \in Nat \ {0}, NEW last
    PROVE  Narrowed(Causal!BlockKey(versions, n, first, last), m) = Causal!BlockKey(versions, m, first, last)
  <1> DEFINE long == Causal!Window(versions, Causal!Warm(first, Causal!Required[n]), last, last)
             short == Causal!Window(versions, Causal!Warm(first, Causal!Required[m]), last, last)
             warm == Causal!Warm(first, Causal!Required[m])
  <1>1. Causal!Required[m] \in Nat /\ Causal!Required[n] \in Nat
    BY RequirementsAreNumbers
  <1>2. /\ warm = (IF first - Causal!Required[m] >= 1 THEN first - Causal!Required[m] ELSE 1)
        /\ Causal!Warm(first, Causal!Required[n]) = (IF first - Causal!Required[n] >= 1 THEN first - Causal!Required[n] ELSE 1)
    BY <1>1, WarmIs
  <1>3. {v \in long : v.time >= warm} = short
    <2>1. PICK a \in Nat, b \in Nat : a = Causal!Warm(first, Causal!Required[n]) /\ b = warm /\ a <= b
      BY <1>1, <1>2
    <2>2. \A k : k \in b .. last <=> k \in a .. last /\ k >= b
      BY <2>1
    <2> HIDE DEF warm
    <2>3. \A v : v \in short <=> v \in long /\ v.time >= b
      BY <2>1, <2>2, WindowHas DEF warm
    <2> HIDE DEF long, short
    <2> QED
      BY <2>1, <2>3
  <1> HIDE DEF long, short, warm
  <1>4. PICK key : key = Causal!BlockKey(versions, n, first, last)
    OBVIOUS
  <1>5. key = [kind |-> "block", node |-> n, first |-> first, last |-> last, proof |-> long]
    BY <1>4 DEF Causal!BlockKey, Causal!Proof, long
  <1>6. Narrowed(key, m) = [kind |-> "block", node |-> m, first |-> first, last |-> last, proof |-> short]
    <2>1. key.first = first /\ key.proof = long
      BY <1>5
    <2>2. {v \in key.proof : v.time >= Causal!Warm(key.first, Causal!Required[m])} = short
      BY <1>3, <2>1 DEF warm
    <2>3. Narrowed(key, m) = [key EXCEPT !.node = m, !.proof = short]
      BY <2>2, Zenon DEF Narrowed
    <2> QED
      BY <1>5, <2>3
  <1> QED
    BY <1>4, <1>6 DEF Causal!BlockKey, Causal!Proof, short

\* A node publishes its block, and it is the turn of the next one or the next block.
LEMMA PartDone ==
    ASSUME CausalInv, replay.step \in {"publish", "join"},
           scope' = scope, versions' = versions, through' = through,
           NEW n, n = Causal!Turn(DOMAIN replay.parts),
           NEW rest, rest = Causal!Restrict(replay.parts, DOMAIN replay.parts \ {n}),
           NEW cells, OfDays(n, replay.begin, Causal!BlockEnd, cells),
           Causal!Publish(Causal!Key(n), cells),
           replay' = [replay EXCEPT !.parts = rest,
                       !.step = IF rest = <<>> THEN "block" ELSE "publish",
                       !.begin = IF rest = <<>> THEN Causal!BlockEnd + 1 ELSE @]
    PROVE  CausalInv'
  <1>1. Publishing(replay) /\ replay.begin <= through
    BY DEF CausalInv, Publishing
  <1>2. /\ InBlock /\ Replaying(replay) /\ CausalGraph /\ VersionsDated
        /\ \A m : Causal!Key(m) = BlockBehind(m, replay.begin)
        /\ Causal!BlockEnd = Causal!Min({replay.begin + scope.sessions - 1, through})
    BY <1>1, ReplayInBlock DEF CausalInv
  <1>3. /\ n \in DOMAIN replay.parts /\ n \in replay.nodes /\ n \in Causal!Nodes
        /\ \A m \in DOMAIN replay.parts : n <= m
    <2>1. DOMAIN replay.parts \in SUBSET Causal!Nodes /\ DOMAIN replay.parts # {}
      BY <1>1, <1>2 DEF Publishing, InBlock
    <2> QED
      BY <1>1, <1>2, <2>1, TurnIs DEF Publishing
  <1>4. PICK w : w = replay'
    OBVIOUS
  <1>5. DOMAIN rest = DOMAIN replay.parts \ {n} /\ \A m \in DOMAIN rest : rest[m] = replay.parts[m]
    BY DEF Causal!Restrict
  <1>6. rest # <<>> => DOMAIN rest # {}
    <2>1. SUFFICES ASSUME DOMAIN rest = {} PROVE rest = <<>>
      OBVIOUS
    <2>2. rest = [m \in {} |-> replay.parts[m]]
      BY <1>5, <2>1 DEF Causal!Restrict
    <2>3. 1 .. 0 = {}
      OBVIOUS
    <2>4. rest \in [1 .. 0 -> {}]
      BY <2>2, <2>3
    <2>5. rest \in Seq({}) /\ Len(rest) = 0
      BY <2>4
    <2> QED
      BY <2>5, EmptySeq
  <1>7. DOMAIN w = ReplayFields
    BY <1>2, <1>4 DEF Replaying
  <1>8. /\ w.parts = rest /\ w.step = (IF rest = <<>> THEN "block" ELSE "publish")
        /\ w.begin = (IF rest = <<>> THEN Causal!BlockEnd + 1 ELSE replay.begin)
        /\ w.nodes = replay.nodes /\ w.inventory = replay.inventory
        /\ w.from = replay.from /\ w.loaded = replay.loaded /\ w.buffer = replay.buffer
    BY <1>2, <1>4 DEF Replaying, ReplayFields
  <1>9. Extended(Causal!Key(n), cells)
    BY PublishExtends
  <1>10. Quiet
    BY <1>9 DEF Quiet, Extended
  <1>11. RowsHold' /\ RowsNested'
    <2>1. replay.begin \in Nat \ {0} /\ Causal!BlockEnd \in Nat
      BY <1>2, BlockEndIs DEF InBlock
    <2>2. PICK key : key = Causal!BlockKey(versions, n, replay.begin, Causal!BlockEnd)
      OBVIOUS
    <2>3. key.node = n /\ KeyHolds(key, cells)
      BY <1>2, <1>3, <2>1, <2>2, BlockHasDays
    <2>4. ASSUME Causal!ChainedHistories, NEW m \in Causal!Nodes, m < n PROVE Narrowed(key, m) \in DOMAIN rows
      <3>1. m \in replay.nodes /\ Causal!Required[m] <= Causal!Required[n]
        BY <1>2, <1>3, <2>4 DEF Replaying, Causal!ChainedHistories
      <3>2. m \notin DOMAIN replay.parts
        BY <1>2, <1>3, <2>4, CausalFacts
      <3>3. Causal!Key(m) \in DOMAIN rows
        BY <1>1, <1>2, <3>1, <3>2 DEF Publishing
      <3>4. Narrowed(key, m) = Causal!Key(m)
        BY <1>2, <1>3, <2>1, <2>2, <3>1, NarrowedIs DEF Causal!Key
      <3> QED
        BY <3>3, <3>4
    <2>5. Causal!Publish(key, cells)
      BY <2>2 DEF Causal!Key
    <2> QED
      BY <2>3, <2>4, <2>5, PublishKeepsRows DEF CausalInv
  <1>12. Replaying(w)' /\ w.step # "idle" /\ (w.step \in {"publish", "join"} => Publishing(w)')
    <2>1. CASE rest = <<>>
      <3>1. \A m \in replay.nodes : BlockBehind(m, replay.begin) \in DOMAIN rows'
        <4>1. DOMAIN replay.parts \subseteq {n}
          BY <1>5, <2>1
        <4> QED
          BY <1>1, <1>2, <1>9, <4>1 DEF Publishing, Extended
      <3>2. BehindUpto(DOMAIN rows', Causal!BlockEnd + 1)
        BY <1>2, <1>10, <3>1, BlockIsBehind DEF Quiet
      <3>3. w.begin = Causal!BlockEnd + 1 /\ w.step = "block"
        BY <1>8, <2>1
      <3>4. \A m, b : BlockBehind(m, b)' = BlockBehind(m, b)
        BY <1>10, QuietKeeps
      <3>6. /\ w.begin \in Nat \ {0} /\ w.begin <= through + 1
            /\ w.begin = through + 1 \/ (w.begin - 1) % scope.sessions = 0
            /\ \A m \in replay.nodes : \A t \in 1 .. w.begin - 1 :
                  BlockBehind(m, BlockStart(t, scope.sessions)) \in DOMAIN rows'
        BY <3>2, <3>3 DEF BehindUpto
      <3>7. /\ replay.nodes \subseteq Causal!Nodes' /\ replay.inventory \subseteq DOMAIN rows'
            /\ replay.loaded \in Nat /\ replay.from \in Nat
            /\ \E roots \in scope.roots : replay.nodes = Causal!Closure(roots)'
            /\ \E S \in SUBSET Nat : replay.buffer = Slice(S)
        BY <1>2, <1>10, CausalMeaningStays DEF Replaying, Quiet
      <3>8. \A S : Slice(S)' = Slice(S)
        BY <1>10 DEF Slice, Quiet
      <3> QED
        BY <1>7, <1>8, <1>10, <3>3, <3>4, <3>6, <3>7, <3>8 DEF Replaying, Quiet
    <2>2. CASE rest # <<>>
      <3>1. w.begin = replay.begin /\ w.step = "publish"
        BY <1>8, <2>2
      <3>2. Replaying(w)
        BY <1>2, <1>7, <1>8, <3>1 DEF Replaying
      <3>3. Replaying(w)'
        BY <1>10, <3>2, QuietKeeps
      <3>4. \A m, b : BlockBehind(m, b)' = BlockBehind(m, b)
        BY <1>10, QuietKeeps
      <3>5. ASSUME NEW m \in DOMAIN rest PROVE PartOfDay(w, m, rest[m])'
        <4>1. PartOfDay(w, m, rest[m])
          BY <1>1, <1>5, <3>1 DEF Publishing, PartOfDay
        <4> QED
          BY <1>10, <4>1, QuietKeeps
      <3>6. \A m \in replay.nodes \ DOMAIN rest : BlockBehind(m, replay.begin) \in DOMAIN rows'
        BY <1>1, <1>2, <1>5, <1>9 DEF Publishing, Extended
      <3>7. Publishing(w)'
        BY <1>1, <1>5, <1>6, <1>8, <1>10, <2>2, <3>1, <3>4, <3>5, <3>6 DEF Publishing, Quiet
      <3> QED
        BY <3>1, <3>3, <3>7
    <2> QED
      BY <2>1, <2>2
  <1>13. Replaying(replay)'
    BY <1>4, <1>12, NextReplay
  <1>14. replay'.step \in {"publish", "join"} => Publishing(replay)'
    BY <1>4, <1>12, NextReplay
  <1>15. VersionsDated'
    BY <1>2, <1>10, QuietKeeps
  <1> QED
    BY <1>11, <1>13, <1>14, <1>15 DEF CausalInv, CausalGraph

\* The parts of a block, and the nodes that wait for their turn.
LEMMA PartAtTurn ==
    ASSUME CausalInv, replay.step \in {"publish", "join"}
    PROVE  /\ InBlock /\ Replaying(replay) /\ Publishing(replay)
           /\ Causal!Turn(DOMAIN replay.parts) \in DOMAIN replay.parts
           /\ Causal!Turn(DOMAIN replay.parts) \in Causal!Nodes
           /\ \A n \in DOMAIN replay.parts : PartOfDay(replay, n, replay.parts[n])
           /\ replay.begin \in Nat \ {0} /\ Causal!BlockEnd \in Nat /\ replay.begin <= Causal!BlockEnd
           /\ Causal!BlockEnd = Causal!Min({replay.begin + scope.sessions - 1, through})
  <1>1. Publishing(replay) /\ replay.begin <= through
    BY DEF CausalInv, Publishing
  <1>2. /\ InBlock /\ Replaying(replay) /\ CausalGraph
        /\ Causal!BlockEnd = Causal!Min({replay.begin + scope.sessions - 1, through})
    BY <1>1, ReplayInBlock DEF CausalInv
  <1>3. DOMAIN replay.parts \in SUBSET Causal!Nodes /\ DOMAIN replay.parts # {}
    BY <1>1, <1>2 DEF Publishing, InBlock
  <1>4. Causal!Turn(DOMAIN replay.parts) \in DOMAIN replay.parts
    BY <1>2, <1>3, TurnIs
  <1>5. \A n \in DOMAIN replay.parts : PartOfDay(replay, n, replay.parts[n])
    BY <1>1 DEF Publishing
  <1>6. replay.begin \in Nat \ {0} /\ Causal!BlockEnd \in Nat /\ replay.begin <= Causal!BlockEnd
    BY <1>2, BlockEndIs DEF InBlock
  <1> QED
    BY <1>1, <1>2, <1>3, <1>4, <1>5, <1>6

LEMMA CausalPublishKeeps == ASSUME CausalInv, Causal!PublishPart PROVE CausalInv'
  <1> DEFINE n == Causal!Turn(DOMAIN replay.parts)
             part == replay.parts[n]
             rest == Causal!Restrict(replay.parts, DOMAIN replay.parts \ {n})
  <1>1. replay.step = "publish" /\ scope' = scope /\ versions' = versions /\ through' = through
    BY DEF Causal!PublishPart, Causal!At
  <1>2. /\ InBlock /\ Replaying(replay) /\ Publishing(replay) /\ n \in DOMAIN replay.parts
        /\ PartOfDay(replay, n, part) /\ replay.begin \in Nat \ {0} /\ Causal!BlockEnd \in Nat
        /\ Causal!BlockEnd = Causal!Min({replay.begin + scope.sessions - 1, through})
    BY <1>1, PartAtTurn
  <1>3. CASE part.first = replay.begin
    <2>1. /\ Causal!Publish(Causal!Key(n), part.cells)
          /\ replay' = [replay EXCEPT !.parts = rest,
                          !.step = IF rest = <<>> THEN "block" ELSE "publish",
                          !.begin = IF rest = <<>> THEN Causal!BlockEnd + 1 ELSE @]
      BY <1>3 DEF Causal!PublishPart
    <2>2. OfDays(n, replay.begin, Causal!BlockEnd, part.cells)
      BY <1>2, <1>3 DEF PartOfDay
    <2> QED
      BY <1>1, <2>1, <2>2, PartDone
  <1>4. CASE part.first # replay.begin
    <2>1. /\ Causal!Publish(Causal!FragmentKey(Causal!Key(n), part.first), part.cells)
          /\ replay' = [replay EXCEPT !.step = "join"]
      BY <1>4 DEF Causal!PublishPart
    <2>2. Causal!FragmentKey(Causal!Key(n), part.first).kind = "fragment"
      BY DEF Causal!FragmentKey, Causal!Key, Causal!BlockKey
    <2>3. RowsHold' /\ RowsNested'
      BY <1>1, <2>1, <2>2, PublishKeepsRows DEF CausalInv
    <2>4. Quiet
      BY <1>1, <2>1, PublishExtends DEF Quiet, Extended
    <2>5. PICK w : w = replay'
      OBVIOUS
    <2>6. /\ DOMAIN w = ReplayFields /\ w.step = "join" /\ w.parts = replay.parts
          /\ w.begin = replay.begin /\ w.nodes = replay.nodes /\ w.inventory = replay.inventory
          /\ w.from = replay.from /\ w.loaded = replay.loaded /\ w.buffer = replay.buffer
      BY <1>2, <2>1, <2>5 DEF Replaying, ReplayFields
    <2>7. Replaying(w) /\ Publishing(w)
      BY <1>2, <2>6 DEF Replaying, Publishing, PartOfDay
    <2>8. Replaying(w)' /\ Publishing(w)' /\ VersionsDated'
      BY <2>4, <2>7, QuietKeeps DEF CausalInv
    <2>9. Replaying(replay)'
      BY <2>5, <2>8, NextReplay
    <2>10. Publishing(replay)'
      BY <2>5, <2>8, NextReplay
    <2> QED
      BY <1>1, <2>3, <2>8, <2>9, <2>10 DEF CausalInv, CausalGraph
  <1> QED
    BY <1>3, <1>4

LEMMA CausalJoinKeeps == ASSUME CausalInv, Causal!Join PROVE CausalInv'
  <1> DEFINE n == Causal!Turn(DOMAIN replay.parts)
             part == replay.parts[n]
             b == replay.begin
             E == Causal!BlockEnd
             key == Causal!BlockKey(versions, n, b, part.first - 1)
             rest == Causal!Restrict(replay.parts, DOMAIN replay.parts \ {n})
             cells == [t \in b .. E |-> IF t < part.first THEN rows[key][t] ELSE part.cells[t]]
  <1>1. /\ replay.step = "join" /\ scope' = scope /\ versions' = versions /\ through' = through
        /\ Causal!Publish(Causal!Key(n), cells)
        /\ replay' = [replay EXCEPT !.parts = rest,
                        !.step = IF rest = <<>> THEN "block" ELSE "publish",
                        !.begin = IF rest = <<>> THEN Causal!BlockEnd + 1 ELSE @]
    BY DEF Causal!Join, Causal!At
  <1>2. /\ CausalGraph /\ VersionsDated /\ n \in Causal!Nodes /\ n \in DOMAIN replay.parts
        /\ b \in Nat \ {0} /\ E \in Nat /\ b <= E
        /\ part.first \in b .. E /\ OfDays(n, part.first, E, part.cells)
        /\ part.first > b => key \in DOMAIN rows
    <2>1. PartOfDay(replay, n, part) /\ E = Causal!Min({b + scope.sessions - 1, through})
      BY <1>1, PartAtTurn
    <2> QED
      BY <1>1, <2>1, PartAtTurn DEF PartOfDay, CausalInv
  <1>3. ASSUME NEW t \in b .. E PROVE OfDay(n, t, cells[t])
    <2>1. CASE t < part.first
      <3>1. PICK last \in Nat : last = part.first - 1 /\ b <= last /\ t <= last
        BY <1>2, <2>1
      <3>2. PICK k : k = key
        OBVIOUS
      <3>3. k \in DOMAIN rows
        <4>1. part.first > b
          BY <1>2, <2>1
        <4> QED
          BY <1>2, <3>2, <4>1
      <3>4. k = Causal!BlockKey(versions, n, b, last)
        BY <3>1, <3>2
      <3> HIDE DEF key, b, n
      <3>5. k.kind = "block" /\ (KeyHolds(k, rows[k]) => OfDays(n, b, last, rows[k]))
        BY <1>2, <3>1, <3>4, BlockHasDays
      <3>6. OfDays(n, b, last, rows[k])
        BY <3>3, <3>5 DEF CausalInv, RowsHold
      <3>7. t \in b .. last
        BY <1>2, <3>1
      <3>8. OfDay(n, t, rows[key][t])
        BY <3>2, <3>6, <3>7 DEF OfDays
      <3> QED
        BY <2>1, <3>8
    <2>2. CASE ~ (t < part.first)
      <3>1. t \in part.first .. E
        BY <1>2, <2>2
      <3>2. OfDay(n, t, part.cells[t])
        BY <1>2, <3>1 DEF OfDays
      <3> QED
        BY <2>2, <3>2
    <2> QED
      BY <2>1, <2>2
  <1>4. OfDays(n, replay.begin, Causal!BlockEnd, cells)
    BY <1>3 DEF OfDays
  <1> HIDE DEF cells, n, rest
  <1> QED
    BY <1>1, <1>4, PartDone DEF n, rest

\* The blocks of a node make its result.
LEMMA ComposedIs ==
    ASSUME CausalInv, replay.step = "block", replay.begin > through, NEW n \in replay.nodes
    PROVE  OfDays(n, 1, through, Causal!Composed(n))
  <1> DEFINE c == scope.sessions
             first(t) == ((t - 1) \div c) * c + 1
             last(t) == Causal!Min({first(t) + c - 1, through})
             key(t) == Causal!BlockKey(versions, n, first(t), last(t))
  <1>1. /\ Replaying(replay) /\ CausalGraph /\ VersionsDated /\ through \in Nat /\ c \in Nat \ {0}
        /\ n \in Causal!Nodes /\ replay.begin = through + 1
    BY CausalFacts DEF CausalInv, Replaying
  <1>2. ASSUME NEW t \in 1 .. through PROVE OfDay(n, t, rows[key(t)][t])
    <2>1. t \in Nat \ {0} /\ t <= through
      BY <1>1
    <2>2. PICK f : f = first(t)
      OBVIOUS
    <2>3. f = BlockStart(t, c)
      BY <2>2 DEF BlockStart
    <2>4. f \in Nat \ {0} /\ f <= t /\ t <= f + c - 1
      BY <1>1, <2>1, <2>3, StartOfSession
    <2>5. PICK d \in Int : d = f + c - 1
      BY <1>1, <2>4
    <2>6. PICK e : e = Causal!Min({d, through})
      OBVIOUS
    <2>7. e = IF d <= through THEN d ELSE through
      BY <1>1, <2>6, CausalBounds, MinOfTwo
    <2>8. e \in Nat /\ t \in f .. e
      BY <1>1, <2>1, <2>4, <2>5, <2>7
    <2>9. PICK k : k = Causal!BlockKey(versions, n, f, e)
      OBVIOUS
    <2>10. k = key(t) /\ k = BlockBehind(n, f)
      BY <2>2, <2>5, <2>6, <2>9 DEF BlockBehind
    <2>11. k \in DOMAIN rows
      <3>1. t \in 1 .. replay.begin - 1
        BY <1>1, <2>1
      <3> QED
        BY <1>1, <2>3, <2>10, <3>1 DEF Replaying
    <2>12. k.kind = "block" /\ (KeyHolds(k, rows[k]) => OfDays(n, f, e, rows[k]))
      BY <1>1, <2>4, <2>8, <2>9, BlockHasDays
    <2>13. OfDays(n, f, e, rows[k])
      BY <2>11, <2>12 DEF CausalInv, RowsHold
    <2> QED
      BY <2>8, <2>10, <2>13 DEF OfDays
  <1>3. Causal!Composed(n) = [t \in 1 .. through |-> rows[key(t)][t]]
    BY Zenon DEF Causal!Composed
  <1> HIDE DEF key
  <1> QED
    BY <1>2, <1>3 DEF OfDays

LEMMA CausalFinishKeeps == ASSUME CausalInv, Causal!Finish PROVE CausalInv'
  <1> DEFINE pending == {m \in replay.nodes : ~ Causal!Known(Causal!ResultKey(versions, m, through))}
             n == Causal!Turn(pending)
             key == Causal!ResultKey(versions, n, through)
  <1>1. /\ replay.step = "block" /\ replay.begin > through
        /\ scope' = scope /\ versions' = versions /\ through' = through
    BY DEF Causal!Finish, Causal!At
  <1>2. Replaying(replay) /\ CausalGraph /\ VersionsDated /\ through \in Nat
    BY <1>1 DEF CausalInv
  <1>3. CASE pending = {}
    <2>1. rows' = rows /\ replay' = [replay EXCEPT !.step = "complete"]
      BY <1>3 DEF Causal!Finish
    <2>2. PICK w : w = replay'
      OBVIOUS
    <2>3. /\ DOMAIN w = ReplayFields /\ w.step = "complete" /\ w.buffer = replay.buffer
          /\ w.begin = replay.begin /\ w.nodes = replay.nodes /\ w.inventory = replay.inventory
          /\ w.from = replay.from /\ w.loaded = replay.loaded
      BY <1>2, <2>1, <2>2 DEF Replaying, ReplayFields
    <2>4. Replaying(w)
      BY <1>2, <2>3 DEF Replaying
    <2>5. Quiet
      BY <1>1, <2>1 DEF Quiet
    <2>6. Replaying(w)' /\ VersionsDated'
      BY <1>2, <2>4, <2>5, QuietKeeps
    <2>7. Replaying(replay)'
      BY <2>2, <2>6, NextReplay
    <2>8. RowsHold' /\ RowsNested'
      BY <1>1, <2>1, RowsMeanTheSame DEF CausalInv
    <2>9. replay'.step = "complete"
      BY <2>2, <2>3
    <2> QED
      BY <1>1, <1>2, <2>6, <2>7, <2>8, <2>9 DEF CausalInv, CausalGraph
  <1>4. CASE pending # {}
    <2>1. Causal!Publish(key, Causal!Composed(n)) /\ replay' = replay
      BY <1>4 DEF Causal!Finish
    <2>2. n \in replay.nodes /\ n \in Causal!Nodes
      <3>1. pending \in SUBSET Causal!Nodes
        BY <1>2 DEF Replaying
      <3>2. n \in pending
        BY <1>2, <1>4, <3>1, TurnIs
      <3> QED
        BY <1>2, <3>2 DEF Replaying
    <2> HIDE DEF pending, n
    <2>3. OfDays(n, 1, through, Causal!Composed(n))
      BY <1>1, <2>2, ComposedIs
    <2>4. key.kind = "result" /\ key.first = 1 /\ key.last = through /\ key.node = n
      BY DEF Causal!ResultKey
    <2>5. \A t \in 1 .. through : \A S : Causal!Gathers(key, t, S) = TodayOf(S, n, t)
      BY <1>2, <2>2, ResultMeansToday
    <2> HIDE DEF key
    <2>6. KeyHolds(key, Causal!Composed(n))
      <3>1. \A t \in 1 .. through : \A cell : OfDay(n, t, cell) => CellHolds(key, t, cell)
        BY <2>4, <2>5 DEF CellHolds, OfDay
      <3> QED
        BY <2>3, <2>4, <3>1 DEF KeyHolds, OfDays
    <2>7. RowsHold' /\ RowsNested'
      BY <1>1, <2>1, <2>4, <2>6, PublishKeepsRows DEF CausalInv
    <2>8. Quiet
      BY <1>1, <2>1, PublishExtends DEF Quiet, Extended
    <2>9. Replaying(replay)' /\ VersionsDated'
      <3>1. PICK w : w = replay
        OBVIOUS
      <3>2. Replaying(w)' /\ VersionsDated'
        BY <1>2, <2>8, <3>1, QuietKeeps
      <3> QED
        BY <2>1, <3>1, <3>2, NextReplay
    <2> QED
      BY <1>1, <1>2, <2>1, <2>7, <2>9 DEF CausalInv, CausalGraph
  <1> QED
    BY <1>3, <1>4

-----------------------------------------------------------------------------
(* What a replay reads, and what its buffer has. *)

EndAt(b) == Causal!Min({b + scope.sessions - 1, through})

\* A replay may have to read a session for a block of a node: the block is missing,
\* and the halo of what the node's proven prefixes leave open reaches the session.
Reads(w, n, b, t) ==
    /\ n \in w.nodes /\ BlockBehind(n, b) \notin DOMAIN rows
    /\ t >= Causal!Warm(b, Causal!Required[n])
    /\ \A e \in b .. EndAt(b) - 1 :
          Causal!BlockKey(versions, n, b, e) \in w.inventory => t >= Causal!Warm(e + 1, Causal!Required[n])

\* What a replay may have to read for any block is not before its buffer, and is in it as
\* far as it is loaded.
BufferHas(w) ==
    w.loaded # 0 =>
        \A b \in Nat \ {0} : \A t \in Nat :
            /\ b <= through /\ (b - 1) % scope.sessions = 0
            /\ \E n : Reads(w, n, b, t)
            => /\ w.from <= t
               /\ t <= w.loaded => Causal!Window(versions, t, t, through) \subseteq w.buffer

BufferInv == replay.step # "idle" => BufferHas(replay)

\* With even or chained histories a block is missed by a node that reads about as far back
\* as any other.
LEMMA MissingReadsFar ==
    ASSUME CausalInv, Exact, replay.step = "block", replay.begin <= through, Causal!Missing # {},
           NEW n \in replay.nodes
    PROVE  \E m \in Causal!Missing : Causal!Required[n] <= Causal!Required[m] + 1
  <1> DEFINE b == replay.begin
             E == Causal!BlockEnd
  <1>1. /\ InBlock /\ Replaying(replay) /\ CausalGraph /\ n \in Causal!Nodes
    BY ReplayInBlock DEF InBlock
  <1>2. PICK m \in Causal!Missing : TRUE
    OBVIOUS
  <1>3. PICK roots \in scope.roots : replay.nodes = Causal!Closure(roots)
    BY <1>1 DEF Replaying
  <1>4. m \in replay.nodes /\ m \in Causal!Nodes /\ Causal!Key(m) \notin DOMAIN rows
    BY <1>1, <1>2 DEF Causal!Missing, Causal!Known, InBlock
  <1>5. Causal!Required[n] \in Nat /\ Causal!Required[m] \in Nat /\ n \in Nat /\ m \in Nat
    BY <1>1, <1>4, RequirementsAreNumbers, CausalFacts
  <1>6. CASE Causal!EvenHistories
    BY <1>2, <1>3, <1>4, <1>6 DEF Causal!EvenHistories
  <1>7. CASE Causal!ChainedHistories
    <2>1. CASE n <= m
      <3>1. Causal!Required[n] <= Causal!Required[m]
        BY <1>1, <1>3, <1>4, <1>5, <1>7, <2>1 DEF Causal!ChainedHistories
      <3> QED
        BY <1>2, <1>5, <3>1
    <2>2. CASE m < n
      <3>1. Causal!Required[m] <= Causal!Required[n]
        BY <1>1, <1>3, <1>4, <1>7, <2>2 DEF Causal!ChainedHistories
      <3>2. b \in Nat \ {0}
        BY <1>1 DEF InBlock
      <3>3. PICK key : key = Causal!BlockKey(versions, n, b, E)
        OBVIOUS
      <3>4. key.kind = "block" /\ key.node = n
        BY <3>3 DEF Causal!BlockKey
      <3>5. Narrowed(key, m) = Causal!Key(m)
        BY <1>1, <1>4, <3>1, <3>2, <3>3, NarrowedIs DEF Causal!Key
      <3>6. key \notin DOMAIN rows
        <4>1. SUFFICES ASSUME key \in DOMAIN rows PROVE FALSE
          OBVIOUS
        <4>2. Narrowed(key, m) \in DOMAIN rows
          BY <1>4, <1>7, <2>2, <3>4, <4>1 DEF CausalInv, RowsNested
        <4> QED
          BY <1>4, <3>5, <4>2
      <3>7. n \in Causal!Missing
        BY <3>3, <3>6 DEF Causal!Missing, Causal!Known, Causal!Key
      <3> QED
        BY <1>5, <3>7
    <2> QED
      BY <1>5, <2>1, <2>2
  <1> QED
    BY <1>6, <1>7 DEF Exact

\* Publications and repetitions only take away what has to be read.
LEMMA BufferStays ==
    ASSUME Quiet, NEW w, NEW v, BufferHas(w), v.nodes = w.nodes, w.inventory \subseteq v.inventory,
           v.buffer = w.buffer, v.from = w.from, v.loaded = w.loaded
    PROVE  BufferHas(v)'
  <1>1. \A b : EndAt(b)' = EndAt(b)
    BY DEF EndAt, Quiet
  <1>2. \A n, b, t : Reads(v, n, b, t)' => Reads(w, n, b, t)
    <2>1. \A n, b : BlockBehind(n, b)' = BlockBehind(n, b)
      BY QuietKeeps
    <2>2. Causal!Required' = Causal!Required
          /\ \A n, b, e : Causal!BlockKey(versions, n, b, e)' = Causal!BlockKey(versions, n, b, e)
      BY CausalMeaningStays DEF Quiet
    <2> QED
      BY <1>1, <2>1, <2>2 DEF Reads, Quiet
  <1> QED
    BY <1>1, <1>2 DEF BufferHas, Quiet

\* A block starts to load no later than where any block starts to read.
LEMMA BlockFillsBuffer ==
    ASSUME CausalInv, Exact, replay.step = "block", replay.begin <= through, Causal!Missing # {},
           NEW b \in Nat \ {0}, NEW t \in Nat, NEW n, Reads(replay, n, b, t),
           b <= through, (b - 1) % scope.sessions = 0
    PROVE  Causal!Needed <= t
  <1> DEFINE N == Causal!Needed
             E == Causal!BlockEnd
             o == replay.begin
             c == scope.sessions
  <1>1. /\ InBlock /\ Replaying(replay) /\ CausalGraph
        /\ \A m : Causal!Key(m) = BlockBehind(m, o)
        /\ E = EndAt(o)
    BY ReplayInBlock DEF InBlock, EndAt
  <1>2. /\ o \in Nat \ {0} /\ o <= through /\ (o - 1) % c = 0 /\ through \in Nat /\ c \in Nat \ {0}
        /\ N \in Nat \ {0} /\ E \in Nat /\ E <= o + c - 1
        /\ \A m \in Causal!Missing : N <= Causal!Warm(Causal!Prefix(m) + 1, Causal!Required[m])
    <2>1. o \in Nat \ {0} /\ o <= through /\ through \in Nat /\ o # through + 1 /\ c \in Nat \ {0}
      BY <1>1, CausalFacts DEF InBlock
    <2>2. (o - 1) % c = 0
      BY <1>1, <2>1 DEF Replaying
    <2>3. E \in Nat /\ E = IF o + c - 1 <= through THEN o + c - 1 ELSE through
      BY <1>1, BlockEndIs
    <2>4. E <= o + c - 1
      BY <2>1, <2>3
    <2> QED
      BY <1>1, <2>1, <2>2, <2>3, <2>4, NeededIs
  <1>3. n \in replay.nodes /\ BlockBehind(n, b) \notin DOMAIN rows /\ n \in Causal!Nodes
        /\ t >= Causal!Warm(b, Causal!Required[n])
    BY <1>1 DEF Reads, InBlock
  <1>4. PICK r \in Nat : r = Causal!Required[n]
    BY <1>1, <1>3, RequirementsAreNumbers
  <1>5. Causal!Warm(b, r) = IF b - r >= 1 THEN b - r ELSE 1
    BY WarmIs
  <1>6. CASE b < o
    <2>1. BlockStart(b, c) = b
      <3>1. b \in b .. b + c - 1
        BY <1>2
      <3> QED
        BY <1>2, <3>1, SessionsOfBlock
    <2>2. b \in 1 .. o - 1
      BY <1>2, <1>6
    <2>3. BlockBehind(n, b) \in DOMAIN rows
      BY <1>1, <1>3, <2>1, <2>2 DEF Replaying
    <2> QED
      BY <1>3, <2>3
  <1>7. CASE b = o
    <2>1. n \in Causal!Missing
      BY <1>1, <1>3, <1>7 DEF Causal!Missing, Causal!Known
    <2>2. /\ Causal!Prefix(n) \in Nat /\ o - 1 <= Causal!Prefix(n) /\ Causal!Prefix(n) < E
          /\ Causal!Prefix(n) >= o =>
               Causal!BlockKey(versions, n, o, Causal!Prefix(n)) \in replay.inventory
      BY <1>1, PrefixIs
    <2>3. PICK p \in Nat : p = Causal!Prefix(n)
      BY <2>2
    <2>4. t >= Causal!Warm(p + 1, r)
      <3>1. CASE p >= o
        <4>1. p \in o .. E - 1
          BY <1>2, <2>2, <2>3, <3>1
        <4>2. Causal!BlockKey(versions, n, o, p) \in replay.inventory
          BY <2>2, <2>3, <3>1
        <4> QED
          BY <1>1, <1>4, <1>7, <4>1, <4>2 DEF Reads
      <3>2. CASE ~ (p >= o)
        <4>1. p + 1 = o
          BY <1>2, <2>2, <2>3, <3>2
        <4> QED
          BY <1>3, <1>4, <1>7, <4>1
      <3> QED
        BY <3>1, <3>2
    <2>5. N <= Causal!Warm(p + 1, r)
      BY <1>2, <1>4, <2>1, <2>3
    <2>6. Causal!Warm(p + 1, r) = IF p + 1 - r >= 1 THEN p + 1 - r ELSE 1
      BY WarmIs
    <2> QED
      BY <1>2, <2>4, <2>5, <2>6
  <1>8. CASE b > o
    <2>1. PICK m \in Causal!Missing : Causal!Required[n] <= Causal!Required[m] + 1
      BY <1>3, MissingReadsFar
    <2>2. m \in replay.nodes /\ m \in Causal!Nodes
      BY <1>1, <2>1 DEF Causal!Missing, InBlock
    <2>3. PICK q \in Nat : q = Causal!Required[m]
      BY <1>1, <2>2, RequirementsAreNumbers
    <2>4. r <= q + 1
      BY <1>4, <2>1, <2>3
    <2>5. PICK p \in Nat : p = Causal!Prefix(m) /\ p < E
      BY <1>1, PrefixIs
    <2>6. N <= Causal!Warm(p + 1, q)
      BY <1>2, <2>1, <2>3, <2>5
    <2>7. Causal!Warm(p + 1, q) = IF p + 1 - q >= 1 THEN p + 1 - q ELSE 1
      BY WarmIs
    <2>8. b >= o + c
      <3>1. PICK x \in Nat, y \in Nat : x = o - 1 /\ y = b - 1 /\ y > x
        BY <1>2, <1>8
      <3>2. y >= x + c
        BY <1>2, <3>1, Multiples
      <3> QED
        BY <1>2, <3>1, <3>2
    <2>9. t >= 1 /\ t >= b - r
      BY <1>3, <1>4, <1>5
    <2> HIDE DEF N, E, o, c
    <2>10. p + 1 - q <= b - r
      BY <1>2, <2>4, <2>5, <2>8
    <2>11. N <= t
      BY <1>2, <2>6, <2>7, <2>9, <2>10
    <2> QED
      BY <2>11 DEF N
  <1> QED
    BY <1>2, <1>6, <1>7, <1>8

\* All that a block leaves in the buffer is what any block has to read of it.
LEMMA BlockFinds ==
    ASSUME CausalInv, BufferInv, Exact, replay.step = "block", replay.begin <= through, Causal!Missing # {},
           NEW b \in Nat \ {0}, NEW t \in Nat, NEW n, Reads(replay, n, b, t),
           b <= through, (b - 1) % scope.sessions = 0
    PROVE  /\ Causal!KeptFrom <= t
           /\ t <= Causal!BlockEnd => Causal!Window(versions, t, t, through) \subseteq Causal!Kept
  <1> DEFINE N == Causal!Needed
             E == Causal!BlockEnd
  <1>1. /\ InBlock /\ BufferTrue /\ BufferHas(replay)
        /\ N \in Nat \ {0} /\ E \in Nat /\ N <= t
        /\ replay.from \in Nat /\ replay.loaded \in Nat /\ Causal!KeptFrom \in Nat
    BY ReplayInBlock, BlockFillsBuffer, NeededIs, BlockEndIs, KeptFromIs DEF BufferInv, BufferTrue
  <1>2. replay.loaded # 0 =>
           replay.from <= t /\ (t <= replay.loaded => Causal!Window(versions, t, t, through) \subseteq replay.buffer)
    BY <1>1 DEF BufferHas
  <1>3. Causal!KeptFrom <= t
    BY <1>1, <1>2, KeptFromIs
  <1>4. ASSUME t <= E, NEW v \in Causal!Window(versions, t, t, through) PROVE v \in Causal!Kept
    <2>1. (v \in versions \/ v = Causal!First(v.time)) /\ v.time = t /\ v.known <= through
      BY <1>4, WindowHas
    <2>2. v \in Causal!Loaded
      <3>1. CASE replay.loaded = 0
        <4>1. v.time \in N .. E
          BY <1>1, <1>4, <2>1
        <4>2. Causal!Loaded = Causal!Window(versions, N, E, through)
          BY <3>1 DEF Causal!Loaded
        <4> QED
          BY <2>1, <4>1, <4>2, WindowHas
      <3>2. CASE replay.loaded # 0 /\ t <= replay.loaded
        <4>1. v \in replay.buffer
          BY <1>2, <1>4, <3>2
        <4>2. replay.buffer \subseteq Causal!Loaded
          BY <3>2 DEF Causal!Loaded
        <4> QED
          BY <4>1, <4>2
      <3>3. CASE replay.loaded # 0 /\ t > replay.loaded
        <4>1. replay.loaded < E
          BY <1>1, <1>4, <3>3
        <4>2. PICK a \in Nat : a = replay.loaded + 1
          BY <1>1
        <4>3. PICK m \in Nat : m = Causal!Max({N, a}) /\ m <= t
          BY <1>1, <3>3, <4>2, CausalBounds, MaxOfTwo
        <4>4. Causal!Window(versions, m, E, through) \subseteq Causal!Loaded
          BY <3>3, <4>1, <4>2, <4>3 DEF Causal!Loaded
        <4>5. v.time \in m .. E
          BY <1>1, <1>4, <2>1, <4>3
        <4>6. v \in Causal!Window(versions, m, E, through)
          BY <2>1, <4>5, WindowHas
        <4> QED
          BY <4>4, <4>6
      <3> QED
        BY <1>1, <3>1, <3>2, <3>3
    <2> QED
      BY <1>3, <2>1, <2>2 DEF Causal!Kept
  <1> QED
    BY <1>3, <1>4

\* So a block has all that it needs: every session from the first is in the halo of the
\* node that needs the first.
LEMMA BlockAcquires ==
    ASSUME CausalInv, BufferInv, Exact, replay.step = "block", replay.begin <= through, Causal!Missing # {}
    PROVE  AcquiresAll
  <1> DEFINE N == Causal!Needed
             E == Causal!BlockEnd
             b == replay.begin
  <1>1. /\ InBlock /\ Replaying(replay) /\ BufferTrue /\ CausalGraph
        /\ \A n : Causal!Key(n) = BlockBehind(n, b)
        /\ E = EndAt(b)
    BY ReplayInBlock DEF InBlock, EndAt
  <1>2. /\ b \in Nat \ {0} /\ b <= through /\ (b - 1) % scope.sessions = 0 /\ through \in Nat
        /\ N \in Nat \ {0} /\ E \in Nat
    <2>1. b \in Nat \ {0} /\ b <= through /\ through \in Nat /\ b # through + 1
      BY <1>1 DEF InBlock
    <2> QED
      BY <1>1, <2>1, NeededIs, BlockEndIs DEF Replaying
  <1>3. PICK n \in Causal!Missing : N = Causal!Warm(Causal!Prefix(n) + 1, Causal!Required[n])
    BY <1>1, NeededIs
  <1>4. ASSUME NEW t \in N .. E PROVE Reads(replay, n, b, t)
    <2>0. t \in Nat /\ N <= t /\ t <= E
      BY <1>2
    <2>1. n \in replay.nodes /\ BlockBehind(n, b) \notin DOMAIN rows /\ n \in Causal!Nodes
      BY <1>1, <1>3 DEF Causal!Missing, Causal!Known, InBlock
    <2>2. PICK r \in Nat : r = Causal!Required[n]
      BY <1>1, <2>1, RequirementsAreNumbers
    <2>3. PICK p \in Nat : p = Causal!Prefix(n)
      BY <1>1, PrefixIs
    <2>4. /\ b - 1 <= p
          /\ \A e \in b .. E - 1 : Causal!BlockKey(versions, n, b, e) \in replay.inventory => e <= p
      BY <1>1, <2>3, PrefixIs
    <2>5. \A a \in Nat : a <= p + 1 => Causal!Warm(a, r) <= N
      <3> SUFFICES ASSUME NEW a \in Nat, a <= p + 1 PROVE Causal!Warm(a, r) <= N
        OBVIOUS
      <3>1. /\ Causal!Warm(a, r) = IF a - r >= 1 THEN a - r ELSE 1
            /\ Causal!Warm(p + 1, r) = IF p + 1 - r >= 1 THEN p + 1 - r ELSE 1
        BY WarmIs
      <3> QED
        BY <1>3, <2>2, <2>3, <3>1
    <2>6. t >= Causal!Warm(b, r)
      <3>1. Causal!Warm(b, r) = IF b - r >= 1 THEN b - r ELSE 1
        BY <1>2, WarmIs
      <3> QED
        BY <1>2, <2>0, <2>4, <2>5, <3>1
    <2>7. ASSUME NEW e \in b .. E - 1, Causal!BlockKey(versions, n, b, e) \in replay.inventory
          PROVE  t >= Causal!Warm(e + 1, r)
      <3>1. Causal!Warm(e + 1, r) = IF e + 1 - r >= 1 THEN e + 1 - r ELSE 1
        BY <1>2, WarmIs
      <3>2. e + 1 \in Nat /\ e + 1 <= p + 1
        BY <1>2, <2>4, <2>7
      <3> QED
        BY <1>2, <2>0, <2>5, <3>1, <3>2
    <2> QED
      BY <1>1, <2>1, <2>2, <2>6, <2>7 DEF Reads
  <1>5. ASSUME NEW v PROVE v \in Causal!Acquired <=> v \in Slice(N .. E)
    <2>1. ASSUME v \in Causal!Acquired PROVE v \in Slice(N .. E)
      <3>1. PICK S \in SUBSET (N .. E) : Causal!Acquired = Slice(S)
        BY <1>1, KeptIs
      <3> QED
        BY <2>1, <3>1, SliceHas
    <2>2. ASSUME v \in Slice(N .. E) PROVE v \in Causal!Acquired
      <3>1. (v \in versions \/ v = Causal!First(v.time)) /\ v.time \in N .. E /\ v.known <= through
        BY <2>2, SliceHas
      <3>2. PICK t \in Nat : t = v.time /\ t \in N .. E
        BY <1>2, <3>1
      <3>3. Causal!Window(versions, t, t, through) \subseteq Causal!Kept
        BY <1>2, <1>4, <3>2, BlockFinds
      <3>4. v \in Causal!Window(versions, t, t, through)
        BY <3>1, <3>2, WindowHas
      <3> QED
        BY <3>1, <3>3, <3>4 DEF Causal!Acquired
    <2> QED
      BY <2>1, <2>2
  <1>6. Causal!Acquired \subseteq Slice(N .. E) /\ Slice(N .. E) \subseteq Causal!Acquired
    BY <1>5
  <1> QED
    BY <1>6 DEF AcquiresAll

LEMMA BlockKeepsBuffer == ASSUME CausalInv, BufferInv, Exact, Causal!Block PROVE BufferInv'
  <1>1. /\ replay.step = "block" /\ replay.begin <= through
        /\ scope' = scope /\ versions' = versions /\ rows' = rows /\ through' = through
    BY DEF Causal!Block, Causal!At
  <1>2. Replaying(replay) /\ BufferHas(replay)
    BY <1>1, ReplayInBlock DEF BufferInv
  <1>3. Quiet
    BY <1>1 DEF Quiet
  <1>4. PICK w : w = replay'
    OBVIOUS
  <1>5. CASE Causal!Missing = {}
    <2>1. w = [replay EXCEPT !.begin = Causal!BlockEnd + 1]
      BY <1>4, <1>5 DEF Causal!Block
    <2>2. /\ w.nodes = replay.nodes /\ w.inventory = replay.inventory
          /\ w.from = replay.from /\ w.loaded = replay.loaded /\ w.buffer = replay.buffer
      BY <1>2, <2>1 DEF Replaying, ReplayFields
    <2>3. PICK v : v = replay
      OBVIOUS
    <2>4. BufferHas(w)'
      BY <1>2, <1>3, <2>2, <2>3, BufferStays
    <2> QED
      BY <1>4, <2>4 DEF BufferInv, BufferHas, Reads
  <1>6. CASE Causal!Missing # {}
    <2>1. PICK parts : w = [replay EXCEPT !.step = "publish", !.parts = parts, !.buffer = Causal!Kept,
                             !.from = Causal!KeptFrom, !.loaded = Causal!BlockEnd]
      BY <1>4, <1>6 DEF Causal!Block
    <2>2. /\ w.nodes = replay.nodes /\ w.inventory = replay.inventory
          /\ w.from = Causal!KeptFrom /\ w.loaded = Causal!BlockEnd /\ w.buffer = Causal!Kept
      BY <1>2, <2>1 DEF Replaying, ReplayFields
    <2>3. ASSUME NEW b \in Nat \ {0}, NEW t \in Nat, b <= through, (b - 1) % scope.sessions = 0,
                 NEW n, Reads(w, n, b, t)
          PROVE  /\ w.from <= t
                 /\ t <= w.loaded => Causal!Window(versions, t, t, through) \subseteq w.buffer
      <3>1. Reads(replay, n, b, t)
        BY <2>2, <2>3 DEF Reads
      <3> QED
        BY <1>1, <1>6, <2>2, <2>3, <3>1, BlockFinds
    <2>4. BufferHas(w)
      BY <2>3 DEF BufferHas
    <2>5. BufferHas(w)'
      BY <1>3, <2>4, BufferStays
    <2> QED
      BY <1>4, <2>5 DEF BufferInv, BufferHas, Reads
  <1> QED
    BY <1>5, <1>6

\* No other step takes from a buffer.
LEMMA OthersKeepBuffer ==
    ASSUME CausalInv, BufferInv, Quiet, replay.step # "idle", DOMAIN replay' = ReplayFields,
           replay'.nodes = replay.nodes, replay.inventory \subseteq replay'.inventory,
           replay'.buffer = replay.buffer, replay'.from = replay.from, replay'.loaded = replay.loaded
    PROVE  BufferInv'
  <1>1. PICK w : w = replay
    OBVIOUS
  <1>2. PICK v : v = replay'
    OBVIOUS
  <1>3. BufferHas(w)
    BY <1>1 DEF BufferInv
  <1>4. BufferHas(v)'
    BY <1>1, <1>2, <1>3, BufferStays
  <1> QED
    BY <1>2, <1>4 DEF BufferInv, BufferHas, Reads

LEMMA BufferStep ==
    ASSUME CausalInv, BufferInv, Exact, Causal!Next
    PROVE  BufferInv'
  <1>1. CASE \/ \E last \in scope.ends : Causal!Observe(last)
             \/ \E t \in 1 .. through : \E known \in t .. through : Causal!Discover(t, known)
    <2>1. replay.step = "idle" /\ replay' = replay
      BY <1>1 DEF Causal!Observe, Causal!Discover, Causal!At
    <2> QED
      BY <2>1 DEF BufferInv
  <1>2. CASE \E roots \in scope.roots : Causal!Start(roots)
    <2>1. replay'.loaded = 0
      BY <1>2 DEF Causal!Start
    <2> QED
      BY <2>1 DEF BufferInv, BufferHas
  <1>3. CASE Causal!Block
    BY <1>3, BlockKeepsBuffer
  <1>4. CASE Causal!PublishPart \/ Causal!Join \/ Causal!Finish
    <2>1. replay.step # "idle" /\ scope' = scope /\ versions' = versions /\ through' = through
      BY <1>4 DEF Causal!PublishPart, Causal!Join, Causal!Finish, Causal!At
    <2>2. DOMAIN rows \subseteq DOMAIN rows'
      <3>1. rows' = rows \/ \E key, cells : Causal!Publish(key, cells)
        <4>1. CASE Causal!PublishPart
          BY <4>1, Zenon DEF Causal!PublishPart
        <4>2. CASE Causal!Join
          BY <4>2, Zenon DEF Causal!Join
        <4>3. CASE Causal!Finish
          BY <4>3, Zenon DEF Causal!Finish
        <4> QED
          BY <1>4, <4>1, <4>2, <4>3
      <3> QED
        BY <3>1, PublishExtends DEF Extended
    <2>3. DOMAIN replay = ReplayFields /\ Quiet
      BY <2>1, <2>2 DEF CausalInv, Replaying, Quiet
    <2>4. /\ DOMAIN replay' = ReplayFields
          /\ replay'.nodes = replay.nodes /\ replay'.inventory = replay.inventory
          /\ replay'.buffer = replay.buffer /\ replay'.from = replay.from /\ replay'.loaded = replay.loaded
      <3>1. CASE Causal!PublishPart
        <4>1. \/ replay' = [replay EXCEPT !.step = "join"]
              \/ \E p, s, b : replay' = [replay EXCEPT !.parts = p, !.step = s, !.begin = b]
          <5> DEFINE n == Causal!Turn(DOMAIN replay.parts)
                     rest == Causal!Restrict(replay.parts, DOMAIN replay.parts \ {n})
          <5>1. CASE replay.parts[n].first = replay.begin
            <6>1. replay' = [replay EXCEPT !.parts = rest,
                          !.step = IF rest = <<>> THEN "block" ELSE "publish",
                          !.begin = IF rest = <<>> THEN Causal!BlockEnd + 1 ELSE @]
              BY <3>1, <5>1 DEF Causal!PublishPart
            <6> QED
              BY <6>1
          <5>2. CASE replay.parts[n].first # replay.begin
            BY <3>1, <5>2 DEF Causal!PublishPart
          <5> QED
            BY <5>1, <5>2
        <4> QED
          BY <2>3, <4>1 DEF ReplayFields
      <3>2. CASE Causal!Join
        <4> DEFINE n == Causal!Turn(DOMAIN replay.parts)
                   rest == Causal!Restrict(replay.parts, DOMAIN replay.parts \ {n})
        <4>1. replay' = [replay EXCEPT !.parts = rest,
                        !.step = IF rest = <<>> THEN "block" ELSE "publish",
                        !.begin = IF rest = <<>> THEN Causal!BlockEnd + 1 ELSE @]
          BY <3>2 DEF Causal!Join
        <4> QED
          BY <2>3, <4>1 DEF ReplayFields
      <3>3. CASE Causal!Finish
        <4>1. replay' = replay \/ replay' = [replay EXCEPT !.step = "complete"]
          BY <3>3 DEF Causal!Finish
        <4> QED
          BY <2>3, <4>1 DEF ReplayFields
      <3> QED
        BY <1>4, <3>1, <3>2, <3>3
    <2> QED
      BY <2>1, <2>3, <2>4, OthersKeepBuffer
  <1>5. CASE Causal!Complete \/ Causal!Interrupt
    <2>1. replay' = Causal!Idle
      BY <1>5 DEF Causal!Complete, Causal!Interrupt
    <2>2. replay'.step = "idle"
      BY <2>1 DEF Causal!Idle
    <2> QED
      BY <2>2 DEF BufferInv
  <1>6. CASE Causal!Retry
    <2>1. /\ replay.step # "idle" /\ scope' = scope /\ versions' = versions /\ rows' = rows /\ through' = through
          /\ replay' = [replay EXCEPT !.step = "block", !.begin = 1, !.parts = <<>>, !.inventory = DOMAIN rows]
      BY <1>6 DEF Causal!Retry
    <2>2. DOMAIN replay = ReplayFields /\ replay.inventory \subseteq DOMAIN rows /\ Quiet
      BY <2>1 DEF CausalInv, Replaying, Quiet
    <2>3. /\ DOMAIN replay' = ReplayFields
          /\ replay'.nodes = replay.nodes /\ replay'.inventory = DOMAIN rows
          /\ replay'.buffer = replay.buffer /\ replay'.from = replay.from /\ replay'.loaded = replay.loaded
      BY <2>1, <2>2 DEF ReplayFields
    <2> QED
      BY <2>1, <2>2, <2>3, OthersKeepBuffer
  <1> QED
    BY <1>1, <1>2, <1>3, <1>4, <1>5, <1>6 DEF Causal!Next

-----------------------------------------------------------------------------
(* Versions: every output is of its day. *)

LEMMA CausalStep == ASSUME CausalInv, Exact => BufferInv, Causal!Next PROVE CausalInv'
  <1>1. CASE \E last \in scope.ends : Causal!Observe(last)
    BY <1>1, ObserveKeeps
  <1>2. CASE \E t \in 1 .. through : \E known \in t .. through : Causal!Discover(t, known)
    BY <1>2, DiscoverKeeps
  <1>3. CASE \E roots \in scope.roots : Causal!Start(roots)
    BY <1>3, CausalStartKeeps
  <1>4. CASE Causal!Block
    <2>1. replay.step = "block" /\ replay.begin <= through
      BY <1>4 DEF Causal!Block, Causal!At
    <2>2. Exact /\ Causal!Missing # {} => AcquiresAll
      BY <2>1, BlockAcquires
    <2> QED
      BY <1>4, <2>2, CausalBlockKeeps
  <1>5. CASE Causal!PublishPart
    BY <1>5, CausalPublishKeeps
  <1>6. CASE Causal!Join
    BY <1>6, CausalJoinKeeps
  <1>7. CASE Causal!Finish
    BY <1>7, CausalFinishKeeps
  <1>8. CASE Causal!Complete \/ Causal!Interrupt
    BY <1>8, CausalEndKeeps
  <1>9. CASE Causal!Retry
    BY <1>9, CausalRetryKeeps
  <1> QED
    BY <1>1, <1>2, <1>3, <1>4, <1>5, <1>6, <1>7, <1>8, <1>9 DEF Causal!Next

LEMMA CausalStutter ==
    ASSUME CausalInv, scope' = scope, versions' = versions, through' = through, rows' = rows, replay' = replay
    PROVE  CausalInv'
  <1>1. Quiet
    BY DEF Quiet
  <1>2. RowsHold' /\ RowsNested'
    BY RowsMeanTheSame DEF CausalInv
  <1>3. PICK w : w = replay
    OBVIOUS
  <1>4. /\ w.step # "idle" => Replaying(w)
        /\ w.step \in {"publish", "join"} => Publishing(w)
    BY <1>3 DEF CausalInv
  <1>5. /\ w.step # "idle" => Replaying(w)'
        /\ w.step \in {"publish", "join"} => Publishing(w)'
        /\ VersionsDated'
    BY <1>1, <1>4, QuietKeeps DEF CausalInv
  <1>6. replay'.step # "idle" => Replaying(replay)'
    BY <1>3, <1>5, NextReplay
  <1>7. replay'.step \in {"publish", "join"} => Publishing(replay)'
    BY <1>3, <1>5, NextReplay
  <1> QED
    BY <1>2, <1>5, <1>6, <1>7 DEF CausalInv, CausalGraph

\* The graph and the histories of a run stay what they are.
LEMMA ScopeStays == ASSUME Causal!Next PROVE scope' = scope
  BY DEF Causal!Next, Causal!Observe, Causal!Discover, Causal!Start, Causal!Block, Causal!PublishPart,
         Causal!Join, Causal!Finish, Causal!Complete, Causal!Interrupt, Causal!Retry

LEMMA RowsAreOfTheirDay == ASSUME CausalInv PROVE Causal!OutputsAreOfTheirDay
  <1>1. Causal!NothingIsForeseen
    <2> SUFFICES ASSUME NEW key \in DOMAIN rows, key.kind # "fragment"
                 PROVE  /\ DOMAIN rows[key] = key.first .. key.last
                        /\ \A t \in key.first .. key.last :
                              \E lost \in SUBSET (Causal!Warm(t, Causal!Required[key.node]) .. t) :
                                  rows[key][t] = Causal!Gathers(key, t,
                                      (Causal!Warm(t, Causal!Required[key.node]) .. t) \ lost)
      BY DEF Causal!NothingIsForeseen
    <2>1. KeyHolds(key, rows[key])
      BY DEF CausalInv, RowsHold
    <2>2. PICK cells : cells = rows[key]
      OBVIOUS
    <2>3. KeyHolds(key, cells)
      BY <2>1, <2>2
    <2>4. DOMAIN cells = key.first .. key.last
      BY <2>3 DEF KeyHolds
    <2>5. ASSUME NEW t \in key.first .. key.last
          PROVE  \E lost \in SUBSET (Causal!Warm(t, Causal!Required[key.node]) .. t) :
                     cells[t] = Causal!Gathers(key, t, (Causal!Warm(t, Causal!Required[key.node]) .. t) \ lost)
      <3> DEFINE halo == Causal!Warm(t, Causal!Required[key.node]) .. t
      <3>1. PICK S \in SUBSET halo : cells[t] = Causal!Gathers(key, t, S)
        BY <2>3 DEF KeyHolds, CellHolds
      <3> HIDE DEF halo
      <3>2. halo \ S \in SUBSET halo /\ halo \ (halo \ S) = S
        OBVIOUS
      <3>3. \E lost \in SUBSET halo : cells[t] = Causal!Gathers(key, t, halo \ lost)
        BY <3>1, <3>2
      <3> QED
        BY <3>3 DEF halo
    <2> QED
      BY <2>2, <2>4, <2>5
  <1>2. ASSUME Exact PROVE Causal!OutputsArePointInTime
    <2> SUFFICES ASSUME NEW key \in DOMAIN rows, key.kind # "fragment"
                 PROVE  rows[key] = [t \in key.first .. key.last |-> Causal!Gathers(key, t, 1 .. t)]
      BY DEF Causal!OutputsArePointInTime
    <2>1. PICK cells : cells = rows[key]
      OBVIOUS
    <2>2. KeyHolds(key, cells)
      BY <2>1 DEF CausalInv, RowsHold
    <2>3. cells = [t \in key.first .. key.last |-> cells[t]]
          /\ \A t \in key.first .. key.last : cells[t] = Causal!Gathers(key, t, 1 .. t)
      BY <1>2, <2>2 DEF KeyHolds, CellHolds
    <2> QED
      BY <2>1, <2>3
  <1> QED
    BY <1>1, <1>2 DEF Causal!OutputsAreOfTheirDay, Exact

\* A replay computes every published cell from what was known on the cell's own day,
\* through blocks, proven prefixes, segments, joins, results, late versions, repetitions
\* and interruptions, and whatever its buffer has lost (causal.py:303-343): it never shows
\* what became known later or was replaced by then.  When the nodes of a plan read
\* about as far back as each other, or the graph is a chain of growing histories, the buffer
\* loses nothing that is read, and a cell is all that was known on its day.
THEOREM ReplaysAreOfTheirDay == PolicySpec => []OutputsAreOfTheirDay
  <1> DEFINE I == policy = "causal" => CausalInv /\ (Exact => BufferInv)
  <1>1. PolicyInit => I
    <2> SUFFICES ASSUME PolicyInit, policy = "causal" PROVE CausalInv /\ BufferInv
      OBVIOUS
    <2>1. Causal!Init
      BY DEF PolicyInit
    <2>2. replay.step = "idle"
      BY <2>1 DEF Causal!Init, Causal!Idle
    <2> QED
      BY <2>1, <2>2, CausalInit DEF Causal!Init, BufferInv
  <1>2. I /\ [PolicyNext]_allVars => I'
    <2> SUFFICES ASSUME I, [PolicyNext]_allVars, policy' = "causal"
                 PROVE  CausalInv' /\ (Exact' => BufferInv')
      OBVIOUS
    <2>1. CASE PolicyNext
      <3>1. policy = "causal" /\ CausalInv /\ (Exact => BufferInv)
        BY <2>1 DEF PolicyNext
      <3>2. Causal!Next
        BY <2>1, <3>1 DEF PolicyNext
      <3>3. CausalInv'
        BY <3>1, <3>2, CausalStep
      <3>4. Exact' <=> Exact
        BY <3>2, ScopeStays, CausalMeaningStays
      <3>5. Exact => BufferInv'
        BY <3>1, <3>2, BufferStep
      <3> QED
        BY <3>3, <3>4, <3>5
    <2>2. CASE UNCHANGED allVars
      <3>1. /\ policy' = policy /\ scope' = scope /\ versions' = versions /\ through' = through
            /\ rows' = rows /\ replay' = replay
        BY <2>2 DEF allVars, vars, causalOnly, finiteOnly
      <3>2. CausalInv /\ (Exact => BufferInv)
        BY <3>1
      <3>3. CausalInv' /\ (Exact' <=> Exact)
        BY <3>1, <3>2, CausalStutter, CausalMeaningStays
      <3>4. BufferInv => BufferInv'
        <4>1. CASE replay.step = "idle"
          BY <3>1, <4>1 DEF BufferInv
        <4>2. CASE replay.step # "idle"
          <5>1. Quiet /\ DOMAIN replay' = ReplayFields
            BY <3>1, <3>2, <4>2 DEF CausalInv, Replaying, Quiet
          <5> QED
            BY <3>1, <3>2, <4>2, <5>1, OthersKeepBuffer
        <4> QED
          BY <4>1, <4>2
      <3> QED
        BY <3>2, <3>3, <3>4
    <2> QED
      BY <2>1, <2>2
  <1>3. I => OutputsAreOfTheirDay
    BY RowsAreOfTheirDay DEF OutputsAreOfTheirDay
  <1> QED
    BY <1>1, <1>2, <1>3, PTL DEF PolicySpec
=============================================================================
