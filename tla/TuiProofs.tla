------------------------------ MODULE TuiProofs ------------------------------
(***************************************************************************)
(* Proofs about Tui, for any snapshots, filters, tabs, settings, heights,     *)
(* motions and requests: no index of the list or of the dialog is ever out of *)
(* bounds, a snapshot never moves the selection, and what the model says of   *)
(* its requests is true.                                                     *)
(*                                                                         *)
(* The first part proves, for the recursive functions and the places that     *)
(* Tree and Dialog are made of, what an induction would: it goes by the least  *)
(* number for which something fails.                                         *)
(***************************************************************************)
EXTENDS Tui, FiniteSetTheorems, WellFoundedInduction, TLAPS

(* Numbers that are some have a least one *)
LEMMA Least ==
    ASSUME NEW S \in SUBSET Nat, S # {}
    PROVE  \E m \in S : \A k \in S : m <= k
<1> DEFINE upTo     == {1..m : m \in S}
           ordering == StrictSubsetOrdering(Nat)
<1>1. upTo \subseteq FiniteSubsetsOf(Nat)
    <2> SUFFICES ASSUME NEW m \in S PROVE 1..m \in FiniteSubsetsOf(Nat)
        OBVIOUS
    <2>1. IsFiniteSet(1..m)
        BY FS_Interval
    <2> QED BY <2>1 DEF FiniteSubsetsOf
<1>2. upTo # {}
    OBVIOUS
<1>3. IsWellFoundedOn(ordering, FiniteSubsetsOf(Nat))
    BY FS_StrictSubsetOrderingWellFounded
<1>4. \E x \in upTo : \A y \in upTo : <<y, x>> \notin ordering
    <2> HIDE DEF ordering, upTo
    <2> QED BY <1>1, <1>2, <1>3, WFMin
<1>5. PICK m \in S : \A k \in S : <<1..k, 1..m>> \notin ordering
    BY <1>4
<1>6. ASSUME NEW k \in S, k < m PROVE FALSE
    <2>1. 1..k \subseteq 1..m /\ m \in 1..m /\ m \notin 1..k
        BY <1>6
    <2>2. <<1..k, 1..m>> \in ordering
        BY <2>1 DEF StrictSubsetOrdering
    <2> QED BY <2>2, <1>5
<1> QED BY <1>6

(* ... and those that are bounded a greatest one *)
LEMMA Greatest ==
    ASSUME NEW n \in Nat, NEW S \in SUBSET 0..n, S # {}
    PROVE  \E m \in S : \A k \in S : k <= m
<1> DEFINE T == {n - k : k \in S}
<1>1. T \in SUBSET Nat /\ T # {}
    OBVIOUS
<1>2. PICK t \in T : \A k \in T : t <= k
    BY <1>1, Least
<1>3. PICK m \in S : t = n - m
    OBVIOUS
<1>4. \A k \in S : n - m <= n - k
    BY <1>2, <1>3
<1> QED BY <1>4

(* What holds of 0, and of every number up to n when it holds of the one      *)
(* before it, holds of all of them                                           *)
LEMMA UpTo ==
    ASSUME NEW n \in Nat, NEW S, 0 \in S, \A i \in 1..n : i - 1 \in S => i \in S
    PROVE  0..n \subseteq S
<1> DEFINE T == (0..n) \ S
<1> SUFFICES ASSUME T # {} PROVE FALSE
    OBVIOUS
<1>1. PICK m \in T : \A k \in T : m <= k
    <2>1. T \in SUBSET Nat
        OBVIOUS
    <2> HIDE DEF T
    <2> QED BY <2>1, Least
<1>2. m \in 1..n /\ m - 1 \in 0..n /\ m - 1 \notin T
    BY <1>1
<1> QED BY <1>1, <1>2

(* There is a function that is defined by its value at 0 and by a step        *)
StepsOf(X, n)          == [1..n -> [X -> X]]
Unfolds(f, first, step, n) == f[0] = first /\ \A i \in 1..n : f[i] = step[i][f[i - 1]]

LEMMA Recursion ==
    ASSUME NEW X, NEW n \in Nat, NEW first \in X, NEW step \in StepsOf(X, n)
    PROVE  \E f \in [0..n -> X] : Unfolds(f, first, step, n)
<1> USE DEF StepsOf, Unfolds
<1> DEFINE Fits(m, f) == Unfolds(f, first, step, m)
           S == {m \in 0..n : \E f \in [0..m -> X] : Fits(m, f)}
<1>1. 0 \in S
    <2>1. Fits(0, [i \in 0..0 |-> first]) /\ [i \in 0..0 |-> first] \in [0..0 -> X]
        OBVIOUS
    <2>2. \E f \in [0..0 -> X] : Fits(0, f)
        <3> HIDE DEF Fits
        <3> QED BY <2>1
    <2> QED BY <2>2
<1>2. ASSUME NEW m \in 1..n, m - 1 \in S PROVE m \in S
    <2>1. PICK f \in [0..m - 1 -> X] : Fits(m - 1, f)
        BY <1>2
    <2> DEFINE g == [i \in 0..m |-> IF i = m THEN step[m][f[m - 1]] ELSE f[i]]
    <2>2. m - 1 \in 0..m - 1 /\ step[m] \in [X -> X] /\ f[m - 1] \in X
        BY <2>1
    <2>3. g \in [0..m -> X]
        BY <2>2
    <2>4. ASSUME NEW i \in 1..m PROVE g[i] = step[i][g[i - 1]]
        <3>1. i - 1 \in 0..m - 1 /\ g[i - 1] = f[i - 1]
            OBVIOUS
        <3>2. CASE i = m
            BY <3>1, <3>2
        <3>3. CASE i # m
            BY <3>1, <3>3, <2>1
        <3> QED BY <3>2, <3>3
    <2>5. g[0] = first
        BY <2>1
    <2> HIDE DEF g
    <2> QED BY <2>3, <2>4, <2>5
<1> HIDE DEF S
<1>3. n \in S
    <2>1. 0..n \subseteq S
        BY <1>1, <1>2, UpTo
    <2> QED BY <2>1
<1> QED BY <1>3 DEF S

(* Its values stay in a set that every step stays in *)
LEMMA RecursionIn ==
    ASSUME NEW X, NEW n \in Nat, NEW f, f[0] \in X,
           \A i \in 1..n : f[i - 1] \in X => f[i] \in X
    PROVE  \A i \in 0..n : f[i] \in X
<1> DEFINE S == {i \in 0..n : f[i] \in X}
<1>1. 0 \in S
    OBVIOUS
<1>2. ASSUME NEW i \in 1..n, i - 1 \in S PROVE i \in S
    BY <1>2
<1>3. 0..n \subseteq S
    <2> HIDE DEF S
    <2> QED BY <1>1, <1>2, UpTo
<1> QED BY <1>3

-----------------------------------------------------------------------------
(* The places of a finite set of numbers are counted from 0 to the last one,   *)
(* without a gap and none of them twice                                      *)
LEMMA Ranks ==
    ASSUME NEW P \in SUBSET Nat, IsFiniteSet(P)
    PROVE  /\ Cardinality(P) \in Nat
           /\ \A i \in Int : Before(P, i) \in 0..Cardinality(P)
           /\ \A i \in P : Before(P, i) \in 0..Cardinality(P) - 1
           /\ \A i, j \in P : Before(P, i) = Before(P, j) => i = j
           /\ \A n \in 0..Cardinality(P) - 1 : \E i \in P : Before(P, i) = n
<1> DEFINE below(i) == {other \in P : other < i}
           c == Cardinality(P)
<1>1. c \in Nat
    BY FS_CardinalityType
<1>2. ASSUME NEW i \in Int
      PROVE  /\ IsFiniteSet(below(i)) /\ Cardinality(below(i)) \in 0..c
             /\ i \in P => Cardinality(below(i)) < c
    <2>1. below(i) \subseteq P
        OBVIOUS
    <2>2. IsFiniteSet(below(i)) /\ Cardinality(below(i)) <= c
          /\ (Cardinality(below(i)) = c => P = below(i))
        BY <2>1, FS_Subset
    <2>3. Cardinality(below(i)) \in Nat
        BY <2>2, FS_CardinalityType
    <2> HIDE DEF c
    <2> QED BY <1>1, <2>2, <2>3
<1>3. ASSUME NEW i \in P, NEW j \in P, i < j
      PROVE  Cardinality(below(i)) < Cardinality(below(j))
    <2>1. below(i) \subseteq below(j) /\ i \in below(j) /\ i \notin below(i)
        <3>1. i \in Nat /\ j \in Nat /\ \A other \in P : other \in Nat
            OBVIOUS
        <3>2. ASSUME NEW other \in P, other < i PROVE other < j
            BY <1>3, <3>1, <3>2
        <3>3. i \in below(j) /\ ~(i < i)
            BY <1>3, <3>1
        <3> QED BY <3>2, <3>3
    <2>2. Cardinality(below(i)) <= Cardinality(below(j))
          /\ Cardinality(below(i)) # Cardinality(below(j))
        BY <2>1, <1>2, FS_Subset
    <2>3. Cardinality(below(i)) \in Nat /\ Cardinality(below(j)) \in Nat
        BY <1>2
    <2> QED BY <2>2, <2>3
<1>4. ASSUME NEW i \in P, NEW j \in P, Cardinality(below(i)) = Cardinality(below(j)) PROVE i = j
    <2>1. i \in Nat /\ j \in Nat
        OBVIOUS
    <2>2. Cardinality(below(i)) \in Nat /\ Cardinality(below(j)) \in Nat
        BY <1>2, <2>1
    <2> HIDE DEF below
    <2> QED BY <1>3, <1>4, <2>1, <2>2
<1>5. \A n \in 0..c - 1 : \E i \in P : Cardinality(below(i)) = n
    <2> DEFINE f == [i \in P |-> Cardinality(below(i))]
               N == 0..c - 1
    <2>1. f \in [P -> N]
        BY <1>1, <1>2
    <2>2. f \in Injection(P, N)
        BY <2>1, <1>4 DEF Injection, IsInjective
    <2>3. IsFiniteSet(N) /\ Cardinality(N) = c
        <3>1. c - 1 \in Int /\ 0 > c - 1 <=> c = 0
            BY <1>1
        <3> HIDE DEF c
        <3> QED BY <1>1, <3>1, FS_Interval
    <2>4. f \in Surjection(P, N)
        <3> HIDE DEF f, N
        <3> QED BY <2>2, <2>3, FS_Injection
    <2> QED BY <2>4 DEF Surjection
<1> HIDE DEF c
<1>6. c = Cardinality(P) /\ \A i : Before(P, i) = Cardinality(below(i))
    BY DEF c, Before
<1> HIDE DEF below
<1> QED BY <1>1, <1>2, <1>4, <1>5, <1>6

(* The n-th place is one of them, and so many come before it *)
LEMMA NthPlace ==
    ASSUME NEW P \in SUBSET Nat, IsFiniteSet(P), NEW n \in 0..Cardinality(P) - 1
    PROVE  Nth(P, n) \in P /\ Before(P, Nth(P, n)) = n
<1>1. \E i \in P : Before(P, i) = n
    BY Ranks
<1> QED BY <1>1 DEF Nth

(* A place is found again by the number of those before it *)
LEMMA PlaceAgain ==
    ASSUME NEW P \in SUBSET Nat, IsFiniteSet(P), NEW i \in P
    PROVE  Before(P, i) \in 0..Cardinality(P) - 1 /\ Nth(P, Before(P, i)) = i
<1>1. /\ Before(P, i) \in 0..Cardinality(P) - 1
      /\ \A j \in P : Before(P, j) = Before(P, i) => j = i
    BY Ranks
<1>2. Nth(P, Before(P, i)) \in P /\ Before(P, Nth(P, Before(P, i))) = Before(P, i)
    BY <1>1, NthPlace
<1> QED BY <1>1, <1>2

-----------------------------------------------------------------------------
(* Tree and Dialog have their own names for what Navigation defines *)
LEMMA Renamed ==
    /\ \A a, b : List!Maximum(a, b) = Maximum(a, b) /\ Dialog!Maximum(a, b) = Maximum(a, b)
    /\ \A a, b : List!Minimum(a, b) = Minimum(a, b) /\ Dialog!Minimum(a, b) = Minimum(a, b)
    /\ \A a, b : List!Within(a, b) = Within(a, b) /\ Dialog!Within(a, b) = Within(a, b)
    /\ \A P, i : List!Before(P, i) = Before(P, i) /\ Dialog!Before(P, i) = Before(P, i)
    /\ \A P, n : List!Nth(P, n) = Nth(P, n) /\ Dialog!Nth(P, n) = Nth(P, n)
    /\ \A m, h, l : List!Distance(m, h, l) = Distance(m, h, l)
                   /\ Dialog!Distance(m, h, l) = Distance(m, h, l)
<1>1. \A P, i : List!Before(P, i) = Before(P, i) /\ Dialog!Before(P, i) = Before(P, i)
    BY DEF Before, List!Before, Dialog!Before, Cardinality, List!Cardinality, Dialog!Cardinality
<1>2. \A P, n : List!Nth(P, n) = Nth(P, n) /\ Dialog!Nth(P, n) = Nth(P, n)
    BY DEF Nth, List!Nth, Dialog!Nth, Before, List!Before, Dialog!Before, Cardinality,
           List!Cardinality, Dialog!Cardinality
<1>3. \A a, b : List!Maximum(a, b) = Maximum(a, b) /\ Dialog!Maximum(a, b) = Maximum(a, b)
    BY DEF Maximum, List!Maximum, Dialog!Maximum
<1>4. \A a, b : List!Minimum(a, b) = Minimum(a, b) /\ Dialog!Minimum(a, b) = Minimum(a, b)
    BY DEF Minimum, List!Minimum, Dialog!Minimum
<1>5. \A a, b : List!Within(a, b) = Within(a, b) /\ Dialog!Within(a, b) = Within(a, b)
    BY <1>3, <1>4 DEF Within, List!Within, Dialog!Within
<1>6. \A m, h, l : List!Distance(m, h, l) = Distance(m, h, l)
                 /\ Dialog!Distance(m, h, l) = Distance(m, h, l)
    BY DEF Distance, List!Distance, Dialog!Distance, Maximum, List!Maximum, Dialog!Maximum
<1> QED BY <1>1, <1>2, <1>3, <1>4, <1>5, <1>6

(* What the code bounds is in its bounds *)
LEMMA WithinBounds ==
    ASSUME NEW value \in Int, NEW top \in Int
    PROVE  /\ Within(value, top) \in 0..Maximum(top, 0)
           /\ value \in 0..top => Within(value, top) = value
BY DEF Within, Maximum, Minimum

(* The distance of a motion is a number of rows or lines *)
LEMMA DistanceType ==
    ASSUME NEW motion \in Motions(Counts), NEW tall \in Nat \ {0}, NEW limit \in Nat
    PROVE  Distance(motion, tall, limit) \in Int
<1>1. /\ motion.count \in Nat /\ motion.direction \in {-1, 1}
    <2>1. motion.count \in Counts \cup {0} /\ motion.direction \in {-1, 1}
        BY DEF Motions
    <2>2. \A c \in Counts \cup {0} : c \in Nat
        BY MotionsAssumption
    <2> QED BY <2>1, <2>2
<1> DEFINE step == CASE motion.action = "page" -> Maximum(tall - 1, 1)
                     [] motion.action = "half" /\ motion.count = 0 -> Maximum(tall \div 2, 1)
                     [] OTHER -> 1
           count == Maximum(motion.count, 1)
<1>2. step \in Nat \ {0} /\ count \in Nat
    BY <1>1 DEF Maximum
<1>3. count * step \in Int
    <2> HIDE DEF step, count
    <2> QED BY <1>2
<1> DEFINE all == IF count > limit \div step THEN limit ELSE count * step
<1>4. all \in Int
    BY <1>3
<1>5. Distance(motion, tall, limit) = motion.direction * all
    BY DEF Distance
<1> HIDE DEF all
<1> QED BY <1>1, <1>4, <1>5

-----------------------------------------------------------------------------
(* Requests *)

Requesting == [kind : Kinds, stage : {"first", "await", "start", "second", "last", "done"},
               runs : 0..2, elevates : BOOLEAN, ok : BOOLEAN]

(* Where a request is says how often it may have been carried out: not yet in   *)
(* its first attempt, and in the second one at most once, if that was answered *)
(* with a restart.                                                          *)
Sound(q) ==
    /\ q.stage = "first" => q.runs = 0
    /\ q.stage = "await" => q.runs = 1 /\ q.elevates
    /\ q.stage \in {"start", "second"} => q.runs = 0 \/ (q.runs = 1 /\ q.elevates)
    /\ q.runs > 1 => q.elevates

(* A flag of the model stands for the one request of its kind *)
Stands(kind, flag) ==
    /\ flag <=> \E r \in Requests : request[r].kind = kind
    /\ \A r, s \in Requests : request[r].kind = kind /\ request[s].kind = kind => r = s

Flagged ==
    /\ busy \in BOOLEAN /\ saving \in BOOLEAN
    /\ request \in [Requests -> Requesting]
    /\ \A r \in Requests : Sound(request[r])
    /\ Stands("connection", busy) /\ Stands("save", saving)

(* The steps of the model, as far as its requests see them *)
Keeps    == UNCHANGED <<request, busy, saving>>
Asks     == (\E kind \in {"fold", "plain", "tun"} : Sends(kind)) /\ UNCHANGED <<busy, saving>>
Connects == Sends("connection") /\ ~busy /\ busy' = TRUE /\ UNCHANGED saving
SavesNow == Sends("save") /\ ~saving /\ saving' = TRUE /\ UNCHANGED busy
GoesOn   ==
    \E r \in Requests, q \in Requesting :
        /\ q.kind = request[r].kind /\ Sound(q)
        /\ request' = [request EXCEPT ![r] = q] /\ UNCHANGED <<busy, saving>>

(* A request that is sent has not been carried out *)
LEMMA NewRequest ==
    ASSUME NEW kind \in Kinds
    PROVE  LET q == [NoRequest EXCEPT !.kind = kind]
           IN  q \in Requesting /\ Sound(q) /\ q.kind = kind
<1> DEFINE q == [NoRequest EXCEPT !.kind = kind]
<1>1. NoRequest \in Requesting /\ NoRequest.stage = "first" /\ NoRequest.runs = 0
    BY DEF NoRequest, Requesting, Kinds
<1>2. q \in Requesting /\ q.kind = kind /\ q.stage = "first" /\ q.runs = 0
    BY <1>1 DEF Requesting
<1> HIDE DEF q
<1>3. Sound(q)
    BY <1>2 DEF Sound
<1> QED BY <1>2, <1>3 DEF q

LEMMA KeepsFlagged == ASSUME Flagged, Keeps PROVE Flagged'
BY DEF Flagged, Keeps, Stands

LEMMA AsksFlagged == ASSUME Flagged, Asks PROVE Flagged'
<1>1. PICK kind \in {"fold", "plain", "tun"}, r \in Requests :
        /\ request[r].kind = "none"
        /\ request' = [request EXCEPT ![r] = [NoRequest EXCEPT !.kind = kind]]
        /\ UNCHANGED <<busy, saving>>
    BY DEF Asks, Sends
<1> DEFINE q == [NoRequest EXCEPT !.kind = kind]
<1>2. q \in Requesting /\ Sound(q) /\ q.kind = kind
    BY NewRequest DEF Kinds
<1> HIDE DEF q
<1> QED BY <1>1, <1>2 DEF Flagged, Stands, q

LEMMA ConnectsFlagged == ASSUME Flagged, Connects PROVE Flagged'
<1> DEFINE q == [NoRequest EXCEPT !.kind = "connection"]
<1>1. PICK r \in Requests : /\ request[r].kind = "none" /\ request' = [request EXCEPT ![r] = q]
                            /\ ~busy /\ busy' = TRUE /\ UNCHANGED saving
    BY DEF Connects, Sends
<1>2. q \in Requesting /\ Sound(q) /\ q.kind = "connection"
    BY NewRequest DEF Kinds
<1> HIDE DEF q
<1> QED BY <1>1, <1>2 DEF Flagged, Stands

LEMMA SavesFlagged == ASSUME Flagged, SavesNow PROVE Flagged'
<1> DEFINE q == [NoRequest EXCEPT !.kind = "save"]
<1>1. PICK r \in Requests : /\ request[r].kind = "none" /\ request' = [request EXCEPT ![r] = q]
                            /\ ~saving /\ saving' = TRUE /\ UNCHANGED busy
    BY DEF SavesNow, Sends
<1>2. q \in Requesting /\ Sound(q) /\ q.kind = "save"
    BY NewRequest DEF Kinds
<1> HIDE DEF q
<1> QED BY <1>1, <1>2 DEF Flagged, Stands

LEMMA GoesOnFlagged == ASSUME Flagged, GoesOn PROVE Flagged'
BY DEF Flagged, GoesOn, Stands

LEMMA CompletedFlagged == ASSUME Flagged, NEW r \in Requests, Completed(r) PROVE Flagged'
<1>1. /\ request' = [request EXCEPT ![r] = NoRequest]
      /\ busy' = (busy /\ request[r].kind # "connection")
      /\ saving' = (saving /\ request[r].kind # "save")
    BY DEF Completed, Waits
<1>2. NoRequest \in Requesting /\ Sound(NoRequest) /\ NoRequest.kind = "none"
    BY DEF NoRequest, Requesting, Kinds, Sound
<1>3. \A s \in Requests : request'[s] = IF s = r THEN NoRequest ELSE request[s]
    BY <1>1 DEF Flagged
<1> HIDE DEF NoRequest
<1>4. busy' \in BOOLEAN /\ saving' \in BOOLEAN /\ request' \in [Requests -> Requesting]
    BY <1>1, <1>2 DEF Flagged
<1>5. Stands("connection", busy)'
    BY <1>1, <1>2, <1>3 DEF Flagged, Stands
<1>6. Stands("save", saving)'
    BY <1>1, <1>2, <1>3 DEF Flagged, Stands
<1> QED BY <1>2, <1>3, <1>4, <1>5, <1>6 DEF Flagged

(* An attempt of a request, its wait and the start of a daemon *)
LEMMA RequestGoesOn ==
    ASSUME Flagged, NEW r \in Requests, Attempt(r) \/ Await(r) \/ StartDaemon(r)
    PROVE  GoesOn
<1> DEFINE q == request[r]
<1>0. q \in Requesting /\ Sound(q)
    BY DEF Flagged
<1>1. ASSUME NEW p \in Requesting, p.kind = q.kind, Sound(p), Becomes(r, p) PROVE GoesOn
    BY <1>1 DEF Becomes, GoesOn
<1>2. ASSUME NEW p \in Requesting, p.kind = q.kind, p.runs > 1 => p.elevates,
             NEW ok \in BOOLEAN, Returns(r, p, ok)
      PROVE  GoesOn
    <2> DEFINE done == [p EXCEPT !.stage = "done", !.ok = ok]
    <2>1. done \in Requesting /\ done.kind = q.kind /\ Sound(done)
        BY <1>2 DEF Requesting, Sound
    <2>2. Becomes(r, done)
        BY <1>2 DEF Returns
    <2> HIDE DEF done
    <2> QED BY <1>1, <2>1, <2>2
<1>3. ASSUME NEW p \in Requesting, p.kind = q.kind, p.runs > 1 => p.elevates, NEW error,
             Retries(error) /\ p.stage \in {"first", "await"}
                => p.runs = 0 \/ (p.runs = 1 /\ p.elevates),
             Fails(r, p, error)
      PROVE  GoesOn
    <2> DEFINE again == [p EXCEPT !.stage = "start"]
    <2>1. CASE p.stage \in {"first", "await"} /\ Retries(error) /\ p.kind # "fold"
        <3>1. again \in Requesting /\ again.kind = q.kind /\ Sound(again)
            BY <1>3, <2>1 DEF Requesting, Sound
        <3>2. Becomes(r, again)
            BY <1>3, <2>1 DEF Fails
        <3> HIDE DEF again
        <3> QED BY <1>1, <3>1, <3>2
    <2>2. CASE ~(p.stage \in {"first", "await"} /\ Retries(error) /\ p.kind # "fold")
        BY <1>2, <1>3, <2>2 DEF Fails
    <2> QED BY <2>1, <2>2
<1>4. CASE Attempt(r)
    <2> DEFINE after == [q EXCEPT !.runs = @ + 1]
               told  == [after EXCEPT !.elevates = TRUE,
                                      !.stage = IF q.stage = "first" THEN "await" ELSE "last"]
    <2>1. q.stage \in {"first", "second"}
        BY <1>4 DEF Attempt
    <2>2. /\ after \in Requesting /\ after.kind = q.kind /\ after.stage = q.stage
          /\ after.runs > 1 => after.elevates
        BY <1>0, <2>1 DEF Requesting, Sound
    <2>3. told \in Requesting /\ told.kind = q.kind /\ Sound(told)
        <3>1. /\ told \in Requesting /\ told.kind = q.kind /\ told.runs = q.runs + 1
              /\ told.elevates /\ told.stage = IF q.stage = "first" THEN "await" ELSE "last"
            BY <1>0, <2>1, <2>2 DEF Requesting
        <3>2. q.stage = "first" => q.runs = 0
            BY <1>0 DEF Sound
        <3> HIDE DEF told
        <3> QED BY <2>1, <3>1, <3>2 DEF Sound
    <2>4. \/ \E error \in {"no daemon", "version", "refused", "lost"} : Fails(r, q, error)
          \/ \E error \in {"failed", "lost"} : Fails(r, after, error)
          \/ Returns(r, after, TRUE)
          \/ Becomes(r, told)
        BY <1>4 DEF Attempt
    <2>5. ASSUME NEW error \in {"no daemon", "version", "refused", "lost"}, Fails(r, q, error)
          PROVE  GoesOn
        BY <1>0, <1>3, <2>5 DEF Sound
    <2> HIDE DEF after, told
    <2>6. ASSUME NEW error \in {"failed", "lost"}, Fails(r, after, error) PROVE GoesOn
        <3>1. ~Retries(error)
            BY DEF Retries
        <3> QED BY <1>3, <2>2, <2>6, <3>1
    <2> QED BY <1>1, <1>2, <2>2, <2>3, <2>4, <2>5, <2>6
<1>5. CASE Await(r)
    BY <1>0, <1>2, <1>3, <1>5 DEF Await, Sound
<1>6. CASE StartDaemon(r)
    <2> DEFINE second == [q EXCEPT !.stage = "second"]
    <2>1. q.stage = "start" /\ (Becomes(r, second) \/ Returns(r, q, FALSE))
        BY <1>6 DEF StartDaemon
    <2>2. second \in Requesting /\ second.kind = q.kind /\ Sound(second)
        BY <1>0, <2>1 DEF Requesting, Sound
    <2> HIDE DEF second
    <2> QED BY <1>0, <1>1, <1>2, <2>1, <2>2 DEF Sound
<1> QED BY <1>4, <1>5, <1>6

(* Every other step sends at most one request, and sets the flag it stands for *)
LEMMA OtherSteps ==
    ASSUME Flagged, Next
    PROVE  Keeps \/ Asks \/ Connects \/ SavesNow \/ GoesOn \/ \E r \in Requests : Completed(r)
<1>1. ASSUME NEW row, Activate(row), UNCHANGED saving PROVE Keeps \/ Asks \/ Connects
    BY <1>1 DEF Activate, Keeps, Asks, Connects
<1>2. CASE Pushed \/ Lost \/ Resized \/ Navigate \/ Wheel \/ Slash \/ Type \/ Accept \/ Clear
    BY <1>2 DEF Pushed, Lost, Updates, Resized, Navigate, Wheel, Slash, Type, Accept, Clear,
        Filters, UnlessPlace, Keeps
<1>3. CASE Enter \/ Click
    BY <1>1, <1>3 DEF Enter, Click, Keeps
<1>4. CASE Collapse \/ Expand \/ Ask
    BY <1>4 DEF Collapse, Expand, Ask, UnlessPlace, Asks
<1>5. CASE SetTun
    <2>1. CASE live /\ snapshot.connected # None
        BY <1>5, <2>1 DEF SetTun, Connects
    <2>2. CASE ~(live /\ snapshot.connected # None)
        BY <1>5, <2>2 DEF SetTun, Asks, Flagged
    <2> QED BY <2>1, <2>2
<1>6. CASE Help \/ Add \/ Delete \/ CloseModal
    BY <1>6 DEF Help, Add, Delete, CloseModal, Keeps, Asks
<1>7. CASE OpenSettings \/ Dialogue \/ CloseSettings
    BY <1>7 DEF OpenSettings, Dialogue, CloseSettings, OnDialog, Keeps, SavesNow
<1> QED BY <1>2, <1>3, <1>4, <1>5, <1>6, <1>7, RequestGoesOn DEF Next

LEMMA FlaggedStep == Flagged /\ [Next]_vars => Flagged'
<1>1. ASSUME Flagged, UNCHANGED vars PROVE Flagged'
    BY <1>1, KeepsFlagged DEF vars, Keeps
<1> QED BY <1>1, OtherSteps, KeepsFlagged, AsksFlagged, ConnectsFlagged, SavesFlagged,
           GoesOnFlagged, CompletedFlagged

LEMMA FlaggedInit == Init => Flagged
<1>1. NoRequest \in Requesting /\ Sound(NoRequest) /\ NoRequest.kind = "none"
    BY DEF NoRequest, Requesting, Kinds, Sound
<1> QED BY <1>1 DEF Init, Flagged, Stands

(* The requests of the model and its flags agree in every reachable state *)
THEOREM RequestInvariant == Spec => []Flagged
<1> QED BY FlaggedInit, FlaggedStep, PTL DEF Spec

(* A request is carried out once, unless the daemon answered that it restarts  *)
(* (request in msg.go).                                                     *)
THEOREM RequestsOnce == Spec => []RequestOnce
<1>1. Flagged => RequestOnce
    BY DEF Flagged, Sound, RequestOnce
<1> QED BY RequestInvariant, <1>1, PTL

-----------------------------------------------------------------------------
(* The rows of the list *)

SubsOf(shown)  == {shown.subs[i] : i \in 1..Len(shown.subs)}
NodesOf(shown) == UNION {{shown.nodes[sub][j] : j \in 1..Len(shown.nodes[sub])} : sub \in SubsOf(shown)}
RowsOf(shown)  == [kind : {"header", "meta", "node", "gap"}, sub : SubsOf(shown) \cup {None}, node : NodesOf(shown) \cup {None}]

LEMMA SnapshotsHave ==
    ASSUME NEW shown \in Snapshots \cup {Blank}
    PROVE  Len(shown.subs) \in Nat /\ \A sub \in SubsOf(shown) : Len(shown.nodes[sub]) \in Nat
<1>1. CASE shown = Blank
    <2>1. Len(shown.subs) = 0
        BY <1>1, BlankAssumption
    <2>2. SubsOf(shown) = {}
        BY <2>1 DEF SubsOf
    <2> QED BY <2>1, <2>2
<1>2. CASE shown \in Snapshots
    BY <1>2, SnapshotsAssumption DEF SubsOf
<1> QED BY <1>1, <1>2

(* The nodes that are shown are nodes of the subscription *)
LEMMA ShownNodesType ==
    ASSUME NEW shown \in Snapshots \cup {Blank}, NEW lives, NEW filter, NEW sub \in SubsOf(shown)
    PROVE  List!ShownNodes(shown, lives, filter, sub) \in Seq(NodesOf(shown))
<1> DEFINE nodes == shown.nodes[sub]
           n     == Len(nodes)
           X     == Seq(NodesOf(shown))
           shows(node) == /\ ~List!Filtered(filter, sub) \/ node \in Hits[filter]
                          /\ \/ filter # None \/ sub \notin shown.folded
                             \/ lives /\ shown.connected = <<sub, node>>
           Is(f) == f = [i \in 0..n |->
                            IF i = 0 THEN <<>>
                            ELSE IF shows(nodes[i]) THEN Append(f[i - 1], nodes[i]) ELSE f[i - 1]]
           empty == <<>>
           step == [i \in 1..n |-> [above \in X |->
                       IF shows(nodes[i]) THEN Append(above, nodes[i]) ELSE above]]
<1>1. n \in Nat /\ \A i \in 1..n : nodes[i] \in NodesOf(shown)
    BY SnapshotsHave DEF NodesOf
<1> HIDE DEF n, nodes, shows
<1>2. empty \in X /\ step \in [1..n -> [X -> X]]
    BY <1>1
<1>3. \E f : Is(f)
    <2>1. PICK f \in [0..n -> X] : f[0] = empty /\ \A i \in 1..n : f[i] = step[i][f[i - 1]]
        <3> HIDE DEF step, X, empty
        <3>1. n \in Nat /\ empty \in X /\ step \in StepsOf(X, n)
            BY <1>1, <1>2 DEF StepsOf
        <3>2. \E f \in [0..n -> X] : Unfolds(f, empty, step, n)
            BY <3>1, Recursion
        <3> QED BY <3>2 DEF Unfolds
    <2>2. \A i \in 1..n : i - 1 \in 0..n /\ f[i - 1] \in X
        BY <1>1, <2>1
    <2>3. \A i \in 1..n : f[i] = IF shows(nodes[i]) THEN Append(f[i - 1], nodes[i]) ELSE f[i - 1]
        BY <2>1, <2>2
    <2>4. Is(f)
        <3>1. f = [i \in 0..n |-> f[i]]
            BY <2>1
        <3>2. \A i \in 0..n : f[i] = IF i = 0 THEN <<>>
                                   ELSE IF shows(nodes[i]) THEN Append(f[i - 1], nodes[i]) ELSE f[i - 1]
            <4>1. \A i \in 0..n : i # 0 => i \in 1..n
                BY <1>1
            <4> QED BY <2>1, <2>3, <4>1
        <3> QED BY <3>1, <3>2
    <2> QED BY <2>4
<1> DEFINE g == CHOOSE f : Is(f)
<1>4. Is(g)
    <2> HIDE DEF Is
    <2> QED BY <1>3
<1>5. List!ShownNodes(shown, lives, filter, sub) = g[n]
    BY DEF List!ShownNodes, n, nodes, shows
<1> HIDE DEF g
<1>6. g[0] \in X
    BY <1>1, <1>4
<1>7. ASSUME NEW i \in 1..n, g[i - 1] \in X PROVE g[i] \in X
    <2>1. i \in 0..n /\ i # 0
        BY <1>1
    <2>2. g[i] = IF shows(nodes[i]) THEN Append(g[i - 1], nodes[i]) ELSE g[i - 1]
        BY <1>4, <2>1
    <2> QED BY <1>1, <1>7, <2>2
<1> HIDE DEF X
<1>8. n \in 0..n /\ \A i \in 0..n : g[i] \in X
    BY <1>1, <1>6, <1>7, RecursionIn
<1> QED BY <1>5, <1>8 DEF X

LEMMA GroupRowsType ==
    ASSUME NEW shown \in Snapshots \cup {Blank}, NEW lives, NEW filter, NEW sub \in SubsOf(shown)
    PROVE  List!GroupRows(shown, lives, filter, sub) \in Seq(RowsOf(shown))
<1> DEFINE nodes == List!ShownNodes(shown, lives, filter, sub)
           R     == RowsOf(shown)
           meta  == IF sub \in Refreshable THEN <<List!Row("meta", sub, None)>> ELSE <<>>
           rows  == [i \in DOMAIN nodes |-> List!Row("node", sub, nodes[i])]
<1>1. nodes \in Seq(NodesOf(shown))
    BY ShownNodesType
<1> HIDE DEF nodes
<1>2. /\ List!Row("header", sub, None) \in R /\ List!Row("meta", sub, None) \in R
      /\ \A node \in NodesOf(shown) : List!Row("node", sub, node) \in R
    BY DEF RowsOf, List!Row
<1> HIDE DEF R
<1>3. rows \in Seq(R)
    <2>1. DOMAIN nodes = 1..Len(nodes) /\ Len(nodes) \in Nat
          /\ \A i \in DOMAIN nodes : nodes[i] \in NodesOf(shown)
        BY <1>1
    <2>2. \A i \in DOMAIN nodes : List!Row("node", sub, nodes[i]) \in R
        BY <1>2, <2>1
    <2>3. rows \in [1..Len(nodes) -> R]
        BY <2>1, <2>2
    <2> HIDE DEF rows
    <2> QED BY <2>1, <2>3
<1>4. <<List!Row("header", sub, None)>> \in Seq(R) /\ meta \in Seq(R)
    <2>1. <<>> \in Seq(R) /\ \A r \in R : <<r>> \in Seq(R)
        OBVIOUS
    <2> HIDE DEF meta
    <2>2. meta \in Seq(R)
        BY <1>2, <2>1 DEF meta
    <2> QED BY <1>2, <2>1, <2>2
<1>5. List!GroupRows(shown, lives, filter, sub)
        = IF List!Filtered(filter, sub) /\ nodes = <<>> THEN <<>>
          ELSE <<List!Row("header", sub, None)>> \o meta \o rows
    BY DEF List!GroupRows, nodes
<1> HIDE DEF meta, rows
<1> QED BY <1>3, <1>4, <1>5 DEF R

(* The list is a finite sequence of rows, whatever is shown of it *)
LEMMA RowsType ==
    ASSUME NEW shown \in Snapshots \cup {Blank}, NEW lives, NEW filter
    PROVE  List!Rows(shown, lives, filter) \in Seq(RowsOf(shown))
<1> DEFINE n == Len(shown.subs)
           X == Seq(RowsOf(shown))
           group(i) == List!GroupRows(shown, lives, filter, shown.subs[i])
           gap(above, i) == IF above # <<>> /\ group(i) # <<>> THEN <<List!Row("gap", None, None)>>
                            ELSE <<>>
           Is(f) == f = [i \in 0..n |-> IF i = 0 THEN <<>>
                                        ELSE f[i - 1] \o gap(f[i - 1], i) \o group(i)]
           empty == <<>>
           step == [i \in 1..n |-> [above \in X |-> above \o gap(above, i) \o group(i)]]
<1>1. n \in Nat /\ \A i \in 1..n : group(i) \in X
    BY SnapshotsHave, GroupRowsType DEF SubsOf
<1>2. empty \in X /\ \A above, i : gap(above, i) \in X
    <2>1. List!Row("gap", None, None) \in RowsOf(shown)
        <3>1. None \in SubsOf(shown) \cup {None} /\ None \in NodesOf(shown) \cup {None}
            OBVIOUS
        <3> HIDE DEF SubsOf, NodesOf
        <3> QED BY <3>1 DEF RowsOf, List!Row
    <2>2. <<>> \in X /\ \A r \in RowsOf(shown) : <<r>> \in X
        OBVIOUS
    <2> HIDE DEF X
    <2> QED BY <2>1, <2>2
<1>3. \A i \in 1..n : \A above \in X : above \o gap(above, i) \o group(i) \in X
    <2> HIDE DEF n, group, gap
    <2> QED BY <1>1, <1>2
<1>4. List!Rows(shown, lives, filter) = (CHOOSE f : Is(f))[n]
    BY DEF List!Rows
<1> HIDE DEF n, group, gap
<1>5. step \in [1..n -> [X -> X]]
    BY <1>3
<1>6. \E f : Is(f)
    <2>1. PICK f \in [0..n -> X] : f[0] = empty /\ \A i \in 1..n : f[i] = step[i][f[i - 1]]
        <3> HIDE DEF step, X, empty
        <3>1. n \in Nat /\ empty \in X /\ step \in StepsOf(X, n)
            BY <1>1, <1>2, <1>5 DEF StepsOf
        <3>2. \E f \in [0..n -> X] : Unfolds(f, empty, step, n)
            BY <3>1, Recursion
        <3> QED BY <3>2 DEF Unfolds
    <2>2. \A i \in 1..n : i - 1 \in 0..n /\ f[i - 1] \in X
        BY <1>1, <2>1
    <2>3. \A i \in 1..n : f[i] = f[i - 1] \o gap(f[i - 1], i) \o group(i)
        BY <2>1, <2>2
    <2>4. Is(f)
        <3>1. f = [i \in 0..n |-> f[i]]
            BY <2>1
        <3>2. \A i \in 0..n : f[i] = IF i = 0 THEN <<>> ELSE f[i - 1] \o gap(f[i - 1], i) \o group(i)
            <4>1. \A i \in 0..n : i # 0 => i \in 1..n
                BY <1>1
            <4> QED BY <2>1, <2>3, <4>1
        <3> QED BY <3>1, <3>2
    <2> QED BY <2>4
<1> DEFINE g == CHOOSE f : Is(f)
<1>7. Is(g)
    <2> HIDE DEF Is
    <2> QED BY <1>6
<1>8. List!Rows(shown, lives, filter) = g[n]
    BY <1>4
<1> HIDE DEF g, X
<1>9. g[0] \in X
    BY <1>1, <1>2, <1>7
<1>10. ASSUME NEW i \in 1..n, g[i - 1] \in X PROVE g[i] \in X
    <2>1. i \in 0..n /\ i # 0
        BY <1>1
    <2>2. g[i] = g[i - 1] \o gap(g[i - 1], i) \o group(i)
        BY <1>7, <2>1
    <2> QED BY <1>3, <1>10, <2>2
<1>11. n \in 0..n /\ \A i \in 0..n : g[i] \in X
    BY <1>1, <1>9, <1>10, RecursionIn
<1> QED BY <1>8, <1>11 DEF X

-----------------------------------------------------------------------------
(* Places of the list *)

Places(rows) == List!Selectable(rows)
Tops(rows, tall) == 0..Maximum(Len(rows) - tall, 0)
Cursors(rows)    == 0..Maximum(List!Count(rows) - 1, 0)

(* The cursors of the rows that can be selected are those below their number,  *)
(* and each of these rows is found again by its cursor                       *)
LEMMA PlacesOfRows ==
    ASSUME NEW rows, Len(rows) \in Nat
    PROVE  /\ Places(rows) \in SUBSET (0..Len(rows) - 1)
           /\ List!Count(rows) \in Nat
           /\ Places(rows) = {} <=> List!Count(rows) = 0
           /\ \A n \in 0..List!Count(rows) - 1 :
                 /\ List!Place(rows, n) \in Places(rows)
                 /\ List!Before(Places(rows), List!Place(rows, n)) = n
           /\ \A i \in Places(rows) :
                 /\ List!Before(Places(rows), i) \in 0..List!Count(rows) - 1
                 /\ List!Place(rows, List!Before(Places(rows), i)) = i
           /\ \A i \in Int : List!Before(Places(rows), i) \in 0..List!Count(rows)
<1> DEFINE P == Places(rows)
<1>1. P \in SUBSET (0..Len(rows) - 1)
    BY DEF List!Selectable, Places
<1>2. IsFiniteSet(P)
    <2>1. IsFiniteSet(0..Len(rows) - 1)
        BY FS_Interval
    <2> QED BY <1>1, <2>1, FS_Subset
<1>3. P \in SUBSET Nat
    BY <1>1
<1>4. List!Count(rows) = Cardinality(P)
    BY DEF List!Count, List!Cardinality, Cardinality, Places
<1>5. \A n : List!Place(rows, n) = Nth(P, n)
    BY Renamed DEF List!Place, Places
<1>6. \A i : List!Before(P, i) = Before(P, i)
    BY Renamed
<1> HIDE DEF P
<1>7. Cardinality(P) \in Nat /\ (P = {} <=> Cardinality(P) = 0)
    BY <1>2, FS_CardinalityType, FS_EmptySet
<1>8. \A n \in 0..Cardinality(P) - 1 : Nth(P, n) \in P /\ Before(P, Nth(P, n)) = n
    BY <1>2, <1>3, NthPlace
<1>9. \A i \in P : Before(P, i) \in 0..Cardinality(P) - 1 /\ Nth(P, Before(P, i)) = i
    BY <1>2, <1>3, PlaceAgain
<1>10. \A i \in Int : Before(P, i) \in 0..Cardinality(P)
    BY <1>2, <1>3, Ranks
<1> QED BY <1>1, <1>4, <1>5, <1>6, <1>7, <1>8, <1>9, <1>10 DEF P

LEMMA ClampBounds ==
    ASSUME NEW rows, Len(rows) \in Nat, NEW to \in Int, NEW top \in Int, NEW tall \in Nat
    PROVE  /\ List!Clamp(rows, to, top, tall)[1] \in Cursors(rows)
           /\ List!Clamp(rows, to, top, tall)[2] \in Tops(rows, tall)
<1>1. List!Count(rows) \in Nat
    BY PlacesOfRows
<1> QED BY <1>1 DEF List!Clamp, Cursors, Tops, Maximum, List!Within, List!Maximum, List!Minimum

(* Reveal shows the row of the cursor *)
LEMMA RevealShows ==
    ASSUME NEW rows, Len(rows) \in Nat, NEW to \in Int, NEW top \in Int, NEW tall \in Nat \ {0}
    PROVE  LET place == List!Reveal(rows, to, top, tall)
           IN  /\ place[1] \in Cursors(rows) /\ place[2] \in Tops(rows, tall)
               /\ to \in 0..List!Count(rows) - 1 => place[1] = to
               /\ List!Count(rows) > 0
                     => /\ place[1] \in 0..List!Count(rows) - 1
                        /\ List!Place(rows, place[1]) \in place[2]..place[2] + tall - 1
<1> DEFINE count == List!Count(rows)
           here  == List!Within(to, count - 1)
           row   == List!Place(rows, here)
           up    == List!Minimum(row, top)
           down  == IF row >= up + tall THEN row - tall + 1 ELSE up
           scrolled == List!Within(down, Len(rows) - tall)
<1>1. count \in Nat /\ (Places(rows) = {} <=> count = 0)
    BY PlacesOfRows
<1>2. List!Reveal(rows, to, top, tall) = IF count = 0 THEN <<0, 0>> ELSE <<here, scrolled>>
    BY <1>1 DEF List!Reveal, Places
<1>3. CASE count = 0
    <2>1. List!Reveal(rows, to, top, tall) = <<0, 0>>
        BY <1>2, <1>3
    <2> QED BY <1>3, <2>1 DEF Cursors, Tops, Maximum
<1>4. CASE count # 0
    <2>1. here \in 0..count - 1 /\ (to \in 0..count - 1 => here = to)
        BY <1>1, <1>4 DEF List!Within, List!Maximum, List!Minimum
    <2>2. row \in 0..Len(rows) - 1
        <3>1. row \in Places(rows)
            BY <2>1, PlacesOfRows
        <3> QED BY <3>1, PlacesOfRows
    <2> HIDE DEF here, row
    <2>3. down \in Int /\ down <= row /\ row <= down + tall - 1
        BY <2>2 DEF List!Minimum
    <2> HIDE DEF down
    <2>4. /\ scrolled \in Tops(rows, tall)
          /\ scrolled <= row /\ row <= scrolled + tall - 1
        BY <2>2, <2>3 DEF Tops, Maximum, List!Within, List!Maximum, List!Minimum
    <2> HIDE DEF scrolled
    <2>5. List!Reveal(rows, to, top, tall) = <<here, scrolled>>
        BY <1>2, <1>4
    <2>6. here \in Cursors(rows)
        BY <1>1, <1>4, <2>1 DEF Cursors, Maximum
    <2>7. row = List!Place(rows, here) /\ scrolled \in Int
        BY <2>4 DEF row, Tops
    <2> QED BY <1>1, <1>4, <2>1, <2>2, <2>4, <2>5, <2>6, <2>7
<1> QED BY <1>3, <1>4

LEMMA PageBounds ==
    ASSUME NEW rows, Len(rows) \in Nat, NEW to \in Int, NEW top \in Int, NEW delta \in Int,
           NEW tall \in Nat \ {0}
    PROVE  /\ List!Page(rows, to, top, delta, tall)[1] \in Cursors(rows)
           /\ List!Page(rows, to, top, delta, tall)[2] \in Tops(rows, tall)
<1> DEFINE here   == List!Within(to, List!Count(rows) - 1)
           aim    == List!Place(rows, here) + delta
           below  == List!Before(Places(rows), aim)
           next   == IF delta < 0 /\ aim \notin Places(rows) THEN below - 1 ELSE below
<1>1. List!Page(rows, to, top, delta, tall)
        = IF Places(rows) = {} THEN <<0, 0>> ELSE List!Reveal(rows, next, top + delta, tall)
    BY DEF List!Page, Places
<1>2. List!Count(rows) \in Nat /\ (Places(rows) = {} <=> List!Count(rows) = 0)
    BY PlacesOfRows
<1>3. CASE Places(rows) = {}
    BY <1>1, <1>2, <1>3 DEF Cursors, Tops, Maximum
<1>4. CASE Places(rows) # {}
    <2>1. here \in 0..List!Count(rows) - 1
        BY <1>2, <1>4 DEF List!Within, List!Maximum, List!Minimum
    <2>2. aim \in Int
        <3>1. List!Place(rows, here) \in 0..Len(rows) - 1
            BY <2>1, PlacesOfRows
        <3> QED BY <3>1
    <2> HIDE DEF aim
    <2>3. next \in Int
        <3>1. below \in 0..List!Count(rows)
            BY <2>2, PlacesOfRows
        <3> HIDE DEF below
        <3> QED BY <1>2, <3>1
    <2> HIDE DEF next
    <2> QED BY <1>1, <1>4, <2>3, RevealShows
<1> QED BY <1>3, <1>4

LEMMA NavigateBounds ==
    ASSUME NEW rows, Len(rows) \in Nat, NEW to \in Int, NEW top \in Int, NEW tall \in Nat \ {0},
           NEW motion \in Motions(Counts)
    PROVE  /\ List!Navigate(rows, to, top, tall, motion)[1] \in Cursors(rows)
           /\ List!Navigate(rows, to, top, tall, motion)[2] \in Tops(rows, tall)
<1> DEFINE count == List!Count(rows)
           all   == List!Distance(motion, tall, Len(rows))
           some  == List!Distance(motion, tall, count)
           place == List!Navigate(rows, to, top, tall, motion)
           Fine(at) == at[1] \in Cursors(rows) /\ at[2] \in Tops(rows, tall)
<1>1. count \in Nat
    BY PlacesOfRows
<1>2. all \in Int /\ some \in Int
    BY <1>1, DistanceType, Renamed
<1>3. motion.action = "line" => List!Minimum(motion.count - 1, count - 1) \in Int
    <2>1. motion.action = "line" => motion.count \in Counts
        BY DEF Motions
    <2>2. \A c \in Counts : c \in Nat
        BY MotionsAssumption
    <2> QED BY <1>1, <2>1, <2>2 DEF List!Minimum
<1>4. Fine(<<0, 0>>)
    BY <1>1 DEF Cursors, Tops, Maximum
<1>5. \A at \in Int, top2 \in Int : Fine(List!Reveal(rows, at, top2, tall))
    BY RevealShows
<1>6. \A at \in Int, top2 \in Int : Fine(List!Clamp(rows, at, top2, tall))
    BY ClampBounds
<1>7. \A delta \in Int : Fine(List!Page(rows, to, top, delta, tall))
    BY PageBounds
<1>8. place = IF count = 0 THEN <<0, 0>>
              ELSE CASE motion.action = "move" -> List!Reveal(rows, to + some, top, tall)
                     [] motion.action \in {"page", "half"} -> List!Page(rows, to, top, all, tall)
                     [] motion.action = "scroll" -> List!Clamp(rows, to, top + all, tall)
                     [] motion.action = "line" ->
                          List!Reveal(rows, List!Minimum(motion.count - 1, count - 1), top, tall)
                     [] OTHER -> List!Reveal(rows, count - 1, top, tall)
    BY DEF List!Navigate
<1>9. to + some \in Int /\ top + all \in Int /\ count - 1 \in Int
    BY <1>1, <1>2
<1> HIDE DEF Fine, place, all, some, count
<1>10. CASE count = 0
    <2>1. place = <<0, 0>>
        BY <1>8, <1>10
    <2> QED BY <1>4, <2>1 DEF Fine, place
<1>11. CASE count # 0
    <2>1. CASE motion.action = "move"
        <3>1. place = List!Reveal(rows, to + some, top, tall)
            BY <1>8, <1>11, <2>1
        <3> QED BY <1>5, <1>9, <3>1 DEF Fine, place
    <2>2. CASE motion.action \in {"page", "half"}
        <3>1. place = List!Page(rows, to, top, all, tall)
            BY <1>8, <1>11, <2>2
        <3> QED BY <1>2, <1>7, <3>1 DEF Fine, place
    <2>3. CASE motion.action = "scroll"
        <3>1. place = List!Clamp(rows, to, top + all, tall)
            BY <1>8, <1>11, <2>3
        <3> QED BY <1>6, <1>9, <3>1 DEF Fine, place
    <2>4. CASE motion.action = "line"
        <3>1. place = List!Reveal(rows, List!Minimum(motion.count - 1, count - 1), top, tall)
            BY <1>8, <1>11, <2>4
        <3> QED BY <1>3, <1>5, <2>4, <3>1 DEF Fine, place
    <2>5. CASE motion.action \notin {"move", "page", "half", "scroll", "line"}
        <3>1. place = List!Reveal(rows, count - 1, top, tall)
            BY <1>8, <1>11, <2>5
        <3> QED BY <1>5, <1>9, <3>1 DEF Fine, place
    <2> QED BY <2>1, <2>2, <2>3, <2>4, <2>5
<1> QED BY <1>10, <1>11

(* A line of the list is that of one cursor, or of none *)
LEMMA PointType ==
    ASSUME NEW rows, Len(rows) \in Nat, NEW top \in Int, NEW line \in Int
    PROVE  List!Point(rows, top, line) \in Int
<1> DEFINE i     == top + line
           place == IF i > 0 /\ rows[i + 1].kind = "meta" THEN i - 1 ELSE i
<1>1. List!Point(rows, top, line)
        = IF i >= Len(rows) \/ rows[place + 1].kind \notin {"header", "node"} THEN -1
          ELSE List!Before(Places(rows), place)
    BY DEF List!Point, Places
<1>2. place \in Int
    OBVIOUS
<1> HIDE DEF place
<1>3. List!Before(Places(rows), place) \in 0..List!Count(rows) /\ List!Count(rows) \in Nat
    BY <1>2, PlacesOfRows
<1> QED BY <1>1, <1>3

(* The cursor of a row is where the row is, when the list has it *)
LEMMA CursorOfRow ==
    ASSUME NEW rows, Len(rows) \in Nat, NEW row, NEW other \in Int
    PROVE  /\ List!CursorOf(rows, row, other) \in Int
           /\ (\E place \in Places(rows) : rows[place + 1] = row)
                => /\ List!CursorOf(rows, row, other) \in 0..List!Count(rows) - 1
                   /\ List!At(rows, List!CursorOf(rows, row, other)) = row
           /\ ~(\E place \in Places(rows) : rows[place + 1] = row)
                => List!CursorOf(rows, row, other) = other
<1> DEFINE found == {place \in Places(rows) : rows[place + 1] = row}
           here  == CHOOSE place \in found : TRUE
<1>1. List!CursorOf(rows, row, other)
        = IF found # {} THEN List!Before(Places(rows), here) ELSE other
    BY DEF List!CursorOf, Places
<1>2. CASE found # {}
    <2>1. here \in Places(rows) /\ rows[here + 1] = row
        BY <1>2
    <2> HIDE DEF here
    <2>2. /\ List!Before(Places(rows), here) \in 0..List!Count(rows) - 1
          /\ List!Place(rows, List!Before(Places(rows), here)) = here
        BY <2>1, PlacesOfRows
    <2>3. List!Count(rows) \in Nat
        BY PlacesOfRows
    <2>4. List!At(rows, List!Before(Places(rows), here)) = row
        BY <2>1, <2>2 DEF List!At
    <2>5. List!Before(Places(rows), here) \in Int
        BY <2>2, <2>3
    <2>6. List!CursorOf(rows, row, other) = List!Before(Places(rows), here)
        BY <1>1, <1>2
    <2>7. \E place \in Places(rows) : rows[place + 1] = row
        BY <2>1
    <2> QED BY <2>2, <2>4, <2>5, <2>6, <2>7
<1>3. CASE found = {}
    BY <1>1, <1>3
<1> QED BY <1>2, <1>3

-----------------------------------------------------------------------------
(* The place in the list *)

(* What keeps the place of the list in its bounds *)
Placed ==
    /\ snapshot \in Snapshots \cup {Blank} /\ height \in Nat \ {0}
    /\ cursor \in Cursors(Rows) /\ scroll \in Tops(Rows, height)

LEMMA RowsLength ==
    ASSUME NEW shown \in Snapshots \cup {Blank}, NEW lives, NEW filter
    PROVE  Len(List!Rows(shown, lives, filter)) \in Nat
BY RowsType

LEMMA PlacedTypes ==
    ASSUME Placed
    PROVE  /\ Len(Rows) \in Nat /\ cursor \in Nat /\ scroll \in Nat /\ List!Count(Rows) \in Nat
<1>1. Len(Rows) \in Nat
    BY RowsLength DEF Placed, Rows
<1>2. List!Count(Rows) \in Nat
    BY <1>1, PlacesOfRows
<1> QED BY <1>1, <1>2 DEF Placed, Cursors, Tops

LEMMA PlacedInit == Init => Placed
<1> SUFFICES ASSUME Init PROVE Placed
    OBVIOUS
<1>1. Len(Rows) \in Nat
    BY RowsLength DEF Init, Rows
<1>2. List!Count(Rows) \in Nat
    BY <1>1, PlacesOfRows
<1> QED BY <1>1, <1>2 DEF Init, Placed, Cursors, Tops, Maximum

(* Where the selected row is, in the rows of another snapshot *)
LEMMA FollowedType ==
    ASSUME NEW rows, Len(rows) \in Nat, NEW selected, cursor \in Int
    PROVE  Followed(rows, selected) \in Int
<1> DEFINE header == [selected EXCEPT !.kind = "header", !.node = None]
<1>1. \A row : \A other \in Int : List!CursorOf(rows, row, other) \in Int
    BY CursorOfRow
<1>2. Followed(rows, selected)
        = CASE selected.kind = "none" -> cursor
            [] selected.kind = "node" ->
                   List!CursorOf(rows, selected, List!CursorOf(rows, header, cursor))
            [] OTHER -> List!CursorOf(rows, selected, cursor)
    BY DEF Followed
<1>3. List!CursorOf(rows, header, cursor) \in Int
    BY <1>1
<1> HIDE DEF header
<1> QED BY <1>1, <1>2, <1>3

LEMMA UpdatesPlaced ==
    ASSUME Placed, NEW shown \in Snapshots \cup {Blank}, NEW lives, Updates(shown, lives)
    PROVE  Placed'
<1> DEFINE rows == List!Rows(shown, lives, query)
           node == List!Row("node", shown.connected[1], shown.connected[2])
           here == IF snapshot = Blank /\ shown.connected # None
                   THEN List!CursorOf(rows, node, cursor) ELSE Followed(rows, At)
           place == IF snapshot = Blank \/ List!Visible(Rows, cursor, scroll, height)
                    THEN List!Reveal(rows, here, scroll, height)
                    ELSE List!Clamp(rows, here, scroll, height)
<1>1. /\ snapshot' = shown /\ live' = lives /\ query' = query /\ height' = height
      /\ cursor' = place[1] /\ scroll' = place[2]
    BY DEF Updates, Goes
<1>2. Rows' = rows
    BY <1>1 DEF Rows
<1> HIDE DEF node
<1>3. /\ Len(rows) \in Nat /\ cursor \in Int /\ scroll \in Int /\ height \in Nat \ {0}
    BY PlacedTypes, RowsLength DEF Placed
<1> HIDE DEF rows
<1>4. here \in Int
    BY <1>3, CursorOfRow, FollowedType
<1> HIDE DEF here
<1>5. place[1] \in Cursors(rows) /\ place[2] \in Tops(rows, height)
    <2>1. /\ List!Reveal(rows, here, scroll, height)[1] \in Cursors(rows)
          /\ List!Reveal(rows, here, scroll, height)[2] \in Tops(rows, height)
        BY <1>3, <1>4, RevealShows
    <2>2. /\ List!Clamp(rows, here, scroll, height)[1] \in Cursors(rows)
          /\ List!Clamp(rows, here, scroll, height)[2] \in Tops(rows, height)
        BY <1>3, <1>4, ClampBounds
    <2> QED BY <2>1, <2>2
<1> HIDE DEF place
<1> QED BY <1>1, <1>2, <1>3, <1>5 DEF Placed

LEMMA PlacedStep == Placed /\ [Next]_vars => Placed'
<1> SUFFICES ASSUME Placed, [Next]_vars PROVE Placed'
    OBVIOUS
<1> DEFINE Held == UNCHANGED <<snapshot, live, query>>
<1>1. /\ Len(Rows) \in Nat /\ cursor \in Int /\ scroll \in Int /\ List!Count(Rows) \in Nat
      /\ height \in Nat \ {0} /\ snapshot \in Snapshots \cup {Blank}
    BY PlacedTypes DEF Placed
<1>2. ASSUME Held PROVE Rows' = Rows
    BY <1>2 DEF Rows
<1>3. ASSUME Held, UNCHANGED view PROVE Placed'
    BY <1>2, <1>3 DEF Placed, view
<1>4. ASSUME Held, UNCHANGED height, NEW to \in Int, NEW top \in Int,
             Goes(List!Reveal(Rows, to, top, height))
      PROVE  Placed'
    <2>1. /\ List!Reveal(Rows, to, top, height)[1] \in Cursors(Rows)
          /\ List!Reveal(Rows, to, top, height)[2] \in Tops(Rows, height)
        BY <1>1, RevealShows
    <2> QED BY <1>1, <1>2, <1>4, <2>1 DEF Placed, Goes
<1>5. CASE Pushed \/ Lost
    BY <1>5, <1>1, UpdatesPlaced DEF Pushed, Lost
<1>6. CASE Resized
    <2>1. height' \in Nat \ {0}
        BY <1>6, MotionsAssumption DEF Resized
    <2>2. Held
        BY <1>6 DEF Resized
    <2>3. /\ List!Reveal(Rows, cursor, scroll, height')[1] \in Cursors(Rows)
          /\ List!Reveal(Rows, cursor, scroll, height')[2] \in Tops(Rows, height')
        BY <1>1, <2>1, RevealShows
    <2>4. /\ List!Clamp(Rows, cursor, scroll, height')[1] \in Cursors(Rows)
          /\ List!Clamp(Rows, cursor, scroll, height')[2] \in Tops(Rows, height')
        BY <1>1, <2>1, ClampBounds
    <2>5. cursor' \in Cursors(Rows) /\ scroll' \in Tops(Rows, height')
        BY <1>6, <2>3, <2>4 DEF Resized, Goes
    <2> QED BY <1>1, <1>2, <2>1, <2>2, <2>5 DEF Placed
<1>7. CASE Navigate
    <2>1. PICK motion \in Motions(Counts) :
              Goes(List!Navigate(Rows, cursor, scroll, height, motion))
        BY <1>7 DEF Navigate
    <2>2. /\ List!Navigate(Rows, cursor, scroll, height, motion)[1] \in Cursors(Rows)
          /\ List!Navigate(Rows, cursor, scroll, height, motion)[2] \in Tops(Rows, height)
        BY <1>1, NavigateBounds
    <2>3. Held /\ UNCHANGED height
        BY <1>7 DEF Navigate, UnlessPlace
    <2> QED BY <1>1, <1>2, <2>1, <2>2, <2>3 DEF Placed, Goes
<1>8. CASE Wheel
    <2>1. PICK delta \in {-3, 3} : Goes(List!Clamp(Rows, cursor, scroll + delta, height))
        BY <1>8 DEF Wheel
    <2>2. /\ List!Clamp(Rows, cursor, scroll + delta, height)[1] \in Cursors(Rows)
          /\ List!Clamp(Rows, cursor, scroll + delta, height)[2] \in Tops(Rows, height)
        <3>1. scroll + delta \in Int
            BY <1>1
        <3> QED BY <1>1, <3>1, ClampBounds
    <2>3. Held /\ UNCHANGED height
        BY <1>8 DEF Wheel, UnlessPlace
    <2> QED BY <1>1, <1>2, <2>1, <2>2, <2>3 DEF Placed, Goes
<1>9. CASE Click
    <2>1. PICK line \in 0..height - 1 :
              Goes(List!Reveal(Rows, List!Point(Rows, scroll, line), scroll, height))
        BY <1>9 DEF Click
    <2>2. List!Point(Rows, scroll, line) \in Int
        BY <1>1, PointType
    <2>3. Held /\ UNCHANGED height
        BY <1>9 DEF Click
    <2> QED BY <1>1, <1>4, <2>1, <2>2, <2>3
<1>10. CASE Collapse
    <2> DEFINE header == List!CursorOf(Rows, [At EXCEPT !.kind = "header", !.node = None], cursor)
    <2>1. header \in Int
        BY <1>1, CursorOfRow
    <2>2. Goes(List!Reveal(Rows, header, scroll, height)) \/ Stays
        BY <1>10 DEF Collapse
    <2>3. Held /\ UNCHANGED height
        BY <1>10 DEF Collapse, UnlessPlace
    <2> HIDE DEF header
    <2> QED BY <1>1, <1>3, <1>4, <2>1, <2>2, <2>3 DEF Stays, view
<1>11. CASE Type \/ Accept \/ Clear
    <2>1. PICK next : Filters(next)
        BY <1>11 DEF Type, Accept, Clear
    <2> DEFINE rows == List!Rows(snapshot, live, next)
    <2>2. /\ query' = next /\ UNCHANGED <<snapshot, live, height>>
          /\ Goes(List!Clamp(rows, cursor, scroll, height))
        BY <2>1 DEF Filters, Clamped
    <2>3. Rows' = rows
        BY <2>2 DEF Rows
    <2>4. Len(rows) \in Nat
        BY <1>1, RowsLength
    <2> HIDE DEF rows
    <2>5. /\ List!Clamp(rows, cursor, scroll, height)[1] \in Cursors(rows)
          /\ List!Clamp(rows, cursor, scroll, height)[2] \in Tops(rows, height)
        BY <1>1, <2>4, ClampBounds
    <2> QED BY <1>1, <2>2, <2>3, <2>5 DEF Placed, Goes
<1>12. CASE Enter \/ Expand \/ Ask \/ SetTun \/ Slash \/ Help \/ Add \/ Delete \/ CloseModal
    <2>1. Held /\ UNCHANGED view
        BY <1>12 DEF Enter, Expand, Ask, SetTun, Slash, Help, Add, Delete, CloseModal,
            UnlessPlace, view
    <2> QED BY <1>3, <2>1
<1>13. CASE OpenSettings \/ Dialogue \/ CloseSettings
    <2>1. Held /\ UNCHANGED view
        BY <1>13 DEF OpenSettings, Dialogue, CloseSettings
    <2> QED BY <1>3, <2>1
<1>14. ASSUME NEW r \in Requests, Attempt(r) \/ Await(r) \/ StartDaemon(r) \/ Completed(r)
       PROVE  Placed'
    <2>1. Held /\ UNCHANGED view
        BY <1>14 DEF Attempt, Await, StartDaemon, Completed, Fails, Returns, Becomes, Unrequested
    <2> QED BY <1>3, <2>1
<1>15. CASE UNCHANGED vars
    BY <1>3, <1>15 DEF vars
<1> QED BY <1>5, <1>6, <1>7, <1>8, <1>9, <1>10, <1>11, <1>12, <1>13, <1>14, <1>15 DEF Next

(* The cursor is on a row of the list, and the list on its rows, in every      *)
(* reachable state (clamp in tree.go)                                         *)
THEOREM PlaceInvariant == Spec => []Placed
<1> QED BY PlacedInit, PlacedStep, PTL DEF Spec

(* A row of the list that can be selected is where its cursor is *)
LEMMA HasRow ==
    ASSUME NEW rows, NEW R, rows \in Seq(R), NEW row, row.kind \in {"header", "node"}
    PROVE  (\E i \in DOMAIN rows : rows[i] = row)
             <=> \E place \in Places(rows) : rows[place + 1] = row
<1>1. Len(rows) \in Nat /\ DOMAIN rows = 1..Len(rows)
    OBVIOUS
<1>2. ASSUME NEW i \in DOMAIN rows, rows[i] = row
      PROVE  \E place \in Places(rows) : rows[place + 1] = row
    <2>1. i - 1 \in 0..Len(rows) - 1 /\ (i - 1) + 1 = i
        BY <1>1
    <2>2. i - 1 \in Places(rows)
        BY <1>2, <2>1 DEF Places, List!Selectable
    <2> QED BY <1>2, <2>1, <2>2
<1>3. ASSUME NEW place \in Places(rows), rows[place + 1] = row
      PROVE  \E i \in DOMAIN rows : rows[i] = row
    <2>1. place + 1 \in DOMAIN rows
        BY <1>1 DEF Places, List!Selectable
    <2> QED BY <1>3, <2>1
<1> QED BY <1>2, <1>3

(* The rows of another snapshot do not take the selection *)
LEMMA UpdatesKeep ==
    ASSUME Placed, NEW shown \in Snapshots \cup {Blank}, NEW lives, Updates(shown, lives),
           snapshot # Blank, At # List!NoRow
    PROVE  LET rows     == List!Rows(snapshot', live', query')
               now      == List!At(rows, cursor')
               has(row) == \E i \in DOMAIN rows : rows[i] = row
           IN  /\ has(At) => now = At
               /\ ~has(At) /\ At.kind = "node" /\ has(Header(At)) => now = Header(At)
               /\ now # List!NoRow /\ List!Visible(Rows, cursor, scroll, height)
                     => List!Visible(rows, cursor', scroll', height')
<1> DEFINE rows    == List!Rows(shown, lives, query)
           sel     == At
           has(row) == \E i \in DOMAIN rows : rows[i] = row
           seen    == List!Visible(Rows, cursor, scroll, height)
           here    == Followed(rows, sel)
           place   == IF seen THEN List!Reveal(rows, here, scroll, height)
                      ELSE List!Clamp(rows, here, scroll, height)
<1>1. /\ snapshot' = shown /\ live' = lives /\ query' = query /\ height' = height
      /\ cursor' = place[1] /\ scroll' = place[2]
    BY DEF Updates, Goes
<1>2. /\ Len(Rows) \in Nat /\ cursor \in Nat /\ scroll \in Nat /\ List!Count(Rows) \in Nat
      /\ height \in Nat \ {0} /\ snapshot \in Snapshots \cup {Blank}
    BY PlacedTypes DEF Placed
<1>3. sel \in RowsOf(snapshot) /\ sel.kind \in {"header", "node"}
    <2>1. cursor \in 0..List!Count(Rows) - 1 /\ sel = Rows[List!Place(Rows, cursor) + 1]
        BY DEF At, List!At
    <2>2. List!Place(Rows, cursor) \in Places(Rows)
        BY <1>2, <2>1, PlacesOfRows
    <2>3. List!Place(Rows, cursor) \in 0..Len(Rows) - 1
          /\ Rows[List!Place(Rows, cursor) + 1].kind \in {"header", "node"}
        BY <2>2 DEF Places, List!Selectable
    <2>4. Rows \in Seq(RowsOf(snapshot))
        BY <1>2, RowsType DEF Rows
    <2>5. List!Place(Rows, cursor) + 1 \in 1..Len(Rows)
        BY <1>2, <2>3
    <2> QED BY <2>1, <2>3, <2>4, <2>5
<1>4. Header(sel).kind = "header"
    BY <1>3 DEF Header, RowsOf
<1>5. rows \in Seq(RowsOf(shown)) /\ Len(rows) \in Nat
    BY RowsType, RowsLength
<1> HIDE DEF sel, rows, seen
<1>6. \A row : row.kind \in {"header", "node"} =>
          /\ has(row) => \A other \in Int :
                /\ List!CursorOf(rows, row, other) \in 0..List!Count(rows) - 1
                /\ List!At(rows, List!CursorOf(rows, row, other)) = row
          /\ ~has(row) => \A other \in Int : List!CursorOf(rows, row, other) = other
    BY <1>5, HasRow, CursorOfRow
<1>7. here = IF sel.kind = "node"
             THEN List!CursorOf(rows, sel, List!CursorOf(rows, Header(sel), cursor))
             ELSE List!CursorOf(rows, sel, cursor)
    BY <1>3 DEF Followed, Header
<1> HIDE DEF has
<1>8. cursor \in Int /\ List!CursorOf(rows, Header(sel), cursor) \in Int /\ here \in Int
    <2>1. cursor \in Int
        BY <1>2
    <2>2. \A row : \A other \in Int : List!CursorOf(rows, row, other) \in Int
        BY <1>5, CursorOfRow
    <2> HIDE DEF here
    <2> QED BY <1>7, <2>1, <2>2
<1> DEFINE wanted == IF has(sel) THEN sel ELSE Header(sel)
<1>9. ASSUME has(sel) \/ (sel.kind = "node" /\ has(Header(sel)))
      PROVE  here \in 0..List!Count(rows) - 1 /\ List!At(rows, here) = wanted
    <2> HIDE DEF here
    <2> QED BY <1>3, <1>4, <1>6, <1>7, <1>8, <1>9
<1> HIDE DEF here
<1>10. List!Count(rows) \in Nat
    BY <1>5, PlacesOfRows
<1>11. here \in 0..List!Count(rows) - 1 => place[1] = here
    <2>1. here \in 0..List!Count(rows) - 1
            => List!Reveal(rows, here, scroll, height)[1] = here
        BY <1>2, <1>5, <1>8, RevealShows
    <2>2. here \in 0..List!Count(rows) - 1
            => List!Clamp(rows, here, scroll, height)[1] = here
        BY <1>10 DEF List!Clamp, List!Within, List!Maximum, List!Minimum
    <2> QED BY <2>1, <2>2
<1>12. ASSUME List!At(rows, place[1]) # List!NoRow, seen
       PROVE  List!Visible(rows, place[1], place[2], height)
    <2>1. List!Count(rows) > 0
        BY <1>10, <1>12 DEF List!At
    <2>2. place = List!Reveal(rows, here, scroll, height)
        BY <1>12
    <2>3. List!Place(rows, place[1]) \in place[2]..place[2] + height - 1
        BY <1>2, <1>5, <1>8, <2>1, <2>2, RevealShows
    <2> HIDE DEF place
    <2> QED BY <1>12, <2>3 DEF List!Visible
<1> HIDE DEF place
<1>13. has(sel) => List!At(rows, cursor') = sel
    BY <1>1, <1>9, <1>11
<1>14. ~has(sel) /\ sel.kind = "node" /\ has(Header(sel)) => List!At(rows, cursor') = Header(sel)
    BY <1>1, <1>9, <1>11
<1>15. List!At(rows, cursor') # List!NoRow /\ seen => List!Visible(rows, cursor', scroll', height')
    BY <1>1, <1>12
<1>16. List!Rows(snapshot', live', query') = rows
    BY <1>1 DEF rows
<1> QED BY <1>13, <1>14, <1>15, <1>16 DEF sel, seen, has

LEMMA OthersKeep ==
    ASSUME [Next]_vars, ~Pushed, ~Lost
    PROVE  UNCHANGED <<snapshot, live>>
<1>1. CASE Resized \/ Navigate \/ Wheel \/ Click \/ Collapse \/ Type \/ Accept \/ Clear
    BY <1>1 DEF Resized, Navigate, Wheel, Click, Collapse, Type, Accept, Clear, Filters, UnlessPlace
<1>2. CASE Enter \/ Expand \/ Ask \/ SetTun \/ Slash \/ Help \/ Add \/ Delete \/ CloseModal
    BY <1>2 DEF Enter, Expand, Ask, SetTun, Slash, Help, Add, Delete, CloseModal, UnlessPlace
<1>3. CASE OpenSettings \/ Dialogue \/ CloseSettings
    BY <1>3 DEF OpenSettings, Dialogue, CloseSettings
<1>4. ASSUME NEW r \in Requests, Attempt(r) \/ Await(r) \/ StartDaemon(r) \/ Completed(r)
      PROVE  UNCHANGED <<snapshot, live>>
    BY <1>4 DEF Attempt, Await, StartDaemon, Completed, Fails, Returns, Becomes, Unrequested
<1>5. CASE UNCHANGED vars
    BY <1>5 DEF vars
<1> QED BY <1>1, <1>2, <1>3, <1>4, <1>5 DEF Next

(* A snapshot does not take the selection to another row (updateSnapshot in     *)
(* update.go)                                                               *)
THEOREM SelectionIsKept == Spec => SelectionKept
<1> DEFINE Holds == snapshot # Blank /\ At # List!NoRow =>
               LET rows     == List!Rows(snapshot', live', query')
                   selected == At
                   now      == List!At(rows, cursor')
                   has(row) == \E i \in DOMAIN rows : rows[i] = row
               IN  /\ has(selected) => now = selected
                   /\ ~has(selected) /\ selected.kind = "node" /\ has(Header(selected))
                         => now = Header(selected)
                   /\ now # List!NoRow /\ List!Visible(Rows, cursor, scroll, height)
                         => List!Visible(rows, cursor', scroll', height')
<1>1. ASSUME Placed, [Next]_vars, <<snapshot, live>>' # <<snapshot, live>>
      PROVE  Holds
    <2>1. Pushed \/ Lost
        BY <1>1, OthersKeep
    <2>2. PICK shown \in Snapshots \cup {Blank}, lives \in BOOLEAN : Updates(shown, lives)
        BY <1>1, <2>1 DEF Pushed, Lost, Placed
    <2> QED BY <1>1, <2>2, UpdatesKeep
<1>2. Placed /\ [Next]_vars =>
          [<<snapshot, live>>' # <<snapshot, live>> /\ snapshot # Blank /\ At # List!NoRow =>
             LET rows     == List!Rows(snapshot', live', query')
                 selected == At
                 now      == List!At(rows, cursor')
                 has(row) == \E i \in DOMAIN rows : rows[i] = row
             IN  /\ has(selected) => now = selected
                 /\ ~has(selected) /\ selected.kind = "node" /\ has(Header(selected))
                       => now = Header(selected)
                 /\ now # List!NoRow /\ List!Visible(Rows, cursor, scroll, height)
                       => List!Visible(rows, cursor', scroll', height')]_vars
    BY <1>1
<1> QED BY PlaceInvariant, <1>2, PTL DEF Spec, SelectionKept

-----------------------------------------------------------------------------
(* The rows of the dialog *)

Values == [Dialog!Names -> Int \cup (SUBSET Nat) \cup Seq(Rules)]

(* A dialog, its scroll out of bounds maybe *)
Shapes ==
    [tab : 0..Len(Tabs) - 1, cursor : Nat, option : Int, scroll : Int, editing : BOOLEAN,
     height : Nat \ {0}, cur : Values, orig : Values]

Shaped(d) == d \in Shapes /\ Dialog!Typed(d.cur)

FieldsOf(tab) == Tabs[tab + 1].fields
ListsOf(tab)  == Tabs[tab + 1].lists
FieldRows(tab) ==
    [i \in DOMAIN FieldsOf(tab) |->
        [kind |-> FieldsOf(tab)[i].kind, name |-> FieldsOf(tab)[i].name,
         size |-> FieldsOf(tab)[i].size, index |-> -1]]

RowsAt(tab, cur) ==
    (CHOOSE rows : rows = [i \in 0..Len(ListsOf(tab)) |->
                              IF i = 0 THEN FieldRows(tab)
                              ELSE rows[i - 1] \o Dialog!ListRows(ListsOf(tab)[i], cur[ListsOf(tab)[i]])])
        [Len(ListsOf(tab))]

ListRow(cur) ==
    {row \in [kind : {"heading", "entry", "add"}, name : Dialog!Lists, size : {0}, index : Int] :
        row.kind = "entry" => row.index \in 1..Len(cur[row.name])}

(* The fields are the first rows, each list ends with the row to add a rule    *)
Arranged(rows, tab, cur) ==
    /\ rows \in Seq([kind : {"enum", "multi", "text", "heading", "entry", "add"},
                     name : Dialog!Names, size : Nat, index : Int])
    /\ Len(FieldsOf(tab)) <= Len(rows)
    /\ \A i \in 1..Len(FieldsOf(tab)) : rows[i] = FieldRows(tab)[i]
    /\ \A i \in Len(FieldsOf(tab)) + 1..Len(rows) : rows[i] \in ListRow(cur)
    /\ Dialog!Editable(rows[Len(rows)])

LEMMA RowsOfDialog ==
    \A d : Dialog!Rows(d) = RowsAt(d.tab, d.cur)
BY DEF Dialog!Rows, RowsAt, FieldRows, FieldsOf, ListsOf

LEMMA TabFacts ==
    ASSUME NEW tab \in 0..Len(Tabs) - 1
    PROVE  /\ Len(FieldsOf(tab)) \in Nat \ {0} /\ Len(ListsOf(tab)) \in Nat
           /\ FieldsOf(tab) \in Seq(Dialog!Fields) /\ ListsOf(tab) \in Seq(Dialog!Lists)
<1>1. Len(Tabs) \in Nat \ {0}
    BY DialogAssumption DEF Dialog!TabsTyped
<1>2. tab + 1 \in 1..Len(Tabs)
    BY <1>1
<1>3. FieldsOf(tab) \in Seq(Dialog!Fields) \ {<<>>} /\ ListsOf(tab) \in Seq(Dialog!Lists)
    BY <1>2, DialogAssumption DEF Dialog!TabsTyped, FieldsOf, ListsOf
<1> QED BY <1>3

LEMMA FieldFacts ==
    ASSUME NEW field \in Dialog!Fields
    PROVE  /\ field.kind \in {"enum", "multi", "text"} /\ field.size \in Nat
           /\ field.kind # "text" => field.size > 0
           /\ field.name \in Dialog!Names /\ field.name \notin Dialog!Lists
           /\ \A other \in Dialog!Fields : other.name = field.name => other = field
BY DialogAssumption DEF Dialog!TabsTyped, Dialog!Names

(* The fields are arranged, and stay so as the lists are added                *)
LEMMA FieldsArranged ==
    ASSUME NEW tab \in 0..Len(Tabs) - 1, NEW cur
    PROVE  Arranged(FieldRows(tab), tab, cur)
<1> DEFINE n == Len(FieldsOf(tab))
           R == [kind : {"enum", "multi", "text", "heading", "entry", "add"},
                 name : Dialog!Names, size : Nat, index : Int]
<1>1. n \in Nat \ {0} /\ DOMAIN FieldsOf(tab) = 1..n
    BY TabFacts
<1>2. ASSUME NEW i \in 1..n
      PROVE  FieldRows(tab)[i] \in R /\ Dialog!Editable(FieldRows(tab)[i])
    <2>1. FieldsOf(tab)[i] \in Dialog!Fields
        BY <1>1, TabFacts
    <2> DEFINE field == FieldsOf(tab)[i]
    <2>2. field.kind \in {"enum", "multi", "text"} /\ field.size \in Nat /\ field.name \in Dialog!Names
        BY <2>1, FieldFacts
    <2>3. FieldRows(tab)[i] = [kind |-> field.kind, name |-> field.name, size |-> field.size, index |-> -1]
        BY <1>1 DEF FieldRows
    <2> HIDE DEF field
    <2> QED BY <2>2, <2>3 DEF Dialog!Editable
<1>3. DOMAIN FieldRows(tab) = 1..n /\ FieldRows(tab) = [i \in 1..n |-> FieldRows(tab)[i]]
    BY <1>1 DEF FieldRows
<1> HIDE DEF n, R
<1>4. FieldRows(tab) \in [1..n -> R]
    BY <1>2, <1>3
<1>5. FieldRows(tab) \in Seq(R) /\ Len(FieldRows(tab)) = n
    BY <1>1, <1>4
<1> QED BY <1>1, <1>2, <1>5 DEF Arranged, n, R

LEMMA ListArranged ==
    ASSUME NEW tab \in 0..Len(Tabs) - 1, NEW cur, Dialog!Typed(cur), NEW name \in Dialog!Lists,
           NEW rows, Arranged(rows, tab, cur)
    PROVE  Arranged(rows \o Dialog!ListRows(name, cur[name]), tab, cur)
<1> DEFINE rules == cur[name]
           n     == Len(rules)
           row(kind, index) == [kind |-> kind, name |-> name, size |-> 0, index |-> index]
           added == <<row("heading", -1)>> \o [i \in DOMAIN rules |-> row("entry", i)]
                      \o <<row("add", -1)>>
           R == [kind : {"enum", "multi", "text", "heading", "entry", "add"},
                 name : Dialog!Names, size : Nat, index : Int]
           L == ListRow(cur)
           all == rows \o added
<1>1. rules \in Seq(Rules) /\ n \in Nat /\ DOMAIN rules = 1..n
    BY DEF Dialog!Typed
<1>2. added = Dialog!ListRows(name, cur[name])
    BY DEF Dialog!ListRows
<1>3. /\ row("heading", -1) \in L /\ row("add", -1) \in L
      /\ \A i \in 1..n : row("entry", i) \in L
    BY <1>1 DEF ListRow
<1>4. L \subseteq R
    <2>1. Dialog!Lists \subseteq Dialog!Names
        BY DEF Dialog!Names
    <2> QED BY <2>1 DEF ListRow
<1>5. Dialog!Editable(row("add", -1))
    BY DEF Dialog!Editable
<1> HIDE DEF row, L, R, rules, n
<1>6. /\ added \in Seq(L) /\ Len(added) = n + 2 /\ added[n + 2] = row("add", -1)
    <2> DEFINE entries == [i \in DOMAIN rules |-> row("entry", i)]
    <2>1. entries \in [1..n -> L]
        BY <1>1, <1>3
    <2>2. entries \in Seq(L) /\ Len(entries) = n
        <3> HIDE DEF entries
        <3> QED BY <1>1, <2>1
    <2> HIDE DEF entries
    <2>3. added = <<row("heading", -1)>> \o entries \o <<row("add", -1)>>
        BY DEF entries
    <2> HIDE DEF added
    <2>4. <<row("heading", -1)>> \in Seq(L) /\ <<row("add", -1)>> \in Seq(L)
        BY <1>3
    <2> QED BY <1>1, <2>2, <2>3, <2>4
<1>7. rows \in Seq(R) /\ Len(rows) \in Nat
    BY DEF Arranged, R
<1> HIDE DEF added
<1>8. added \in Seq(R)
    BY <1>4, <1>6
<1>9. all \in Seq(R) /\ Len(all) = Len(rows) + n + 2
    BY <1>1, <1>6, <1>7, <1>8
<1>10. ASSUME NEW i \in 1..Len(rows) PROVE all[i] = rows[i]
    BY <1>7, <1>8, <1>10
<1>11. ASSUME NEW i \in Len(rows) + 1..Len(all) PROVE all[i] = added[i - Len(rows)]
    BY <1>1, <1>6, <1>7, <1>8, <1>9, <1>11
<1> HIDE DEF all
<1> DEFINE F == Len(FieldsOf(tab))
<1>12. /\ F \in Nat /\ F <= Len(rows)
       /\ \A i \in 1..F : rows[i] = FieldRows(tab)[i]
       /\ \A i \in F + 1..Len(rows) : rows[i] \in L
    BY TabFacts DEF Arranged, L
<1> HIDE DEF F
<1>13. \A i \in 1..F : all[i] = FieldRows(tab)[i]
    <2>1. \A i \in 1..F : i \in 1..Len(rows)
        BY <1>7, <1>12
    <2> QED BY <1>10, <1>12, <2>1
<1>14. ASSUME NEW i \in F + 1..Len(all) PROVE all[i] \in L
    <2>1. CASE i \in F + 1..Len(rows)
        <3>1. i \in 1..Len(rows)
            BY <1>7, <1>12, <2>1
        <3> QED BY <1>10, <1>12, <2>1, <3>1
    <2>2. CASE i \in Len(rows) + 1..Len(all)
        <3>1. i - Len(rows) \in 1..n + 2
            BY <1>1, <1>7, <1>9, <2>2
        <3>2. added[i - Len(rows)] \in L
            BY <1>6, <3>1
        <3> QED BY <1>11, <2>2, <3>2
    <2> QED BY <1>7, <1>9, <1>12, <2>1, <2>2
<1>15. Dialog!Editable(all[Len(all)])
    <2>1. Len(all) \in Len(rows) + 1..Len(all) /\ Len(all) - Len(rows) = n + 2
        BY <1>1, <1>7, <1>9
    <2> QED BY <1>5, <1>6, <1>11, <2>1
<1>16. F <= Len(all)
    BY <1>1, <1>7, <1>9, <1>12
<1> QED BY <1>2, <1>9, <1>13, <1>14, <1>15, <1>16 DEF Arranged, all, L, R, F

LEMMA RowsArranged ==
    ASSUME NEW tab \in 0..Len(Tabs) - 1, NEW cur, Dialog!Typed(cur)
    PROVE  Arranged(RowsAt(tab, cur), tab, cur)
<1> DEFINE n == Len(ListsOf(tab))
           X == {rows \in Seq([kind : {"enum", "multi", "text", "heading", "entry", "add"},
                               name : Dialog!Names, size : Nat, index : Int]) : Arranged(rows, tab, cur)}
           more(rows, i) == rows \o Dialog!ListRows(ListsOf(tab)[i], cur[ListsOf(tab)[i]])
           first == FieldRows(tab)
           Is(f) == f = [i \in 0..n |-> IF i = 0 THEN first ELSE more(f[i - 1], i)]
           step  == [i \in 1..n |-> [rows \in X |-> more(rows, i)]]
<1>1. n \in Nat /\ \A i \in 1..n : ListsOf(tab)[i] \in Dialog!Lists
    BY TabFacts
<1>2. \A rows : rows \in X <=> Arranged(rows, tab, cur)
    BY DEF Arranged
<1>3. RowsAt(tab, cur) = (CHOOSE f : Is(f))[n]
    BY DEF RowsAt
<1> HIDE DEF X
<1>4. first \in X
    BY <1>2, FieldsArranged
<1>5. \A i \in 1..n : \A rows \in X : more(rows, i) \in X
    BY <1>1, <1>2, ListArranged
<1> HIDE DEF more, first, n
<1>6. step \in [1..n -> [X -> X]]
    BY <1>5
<1>7. \E f : Is(f)
    <2>1. PICK f \in [0..n -> X] : f[0] = first /\ \A i \in 1..n : f[i] = step[i][f[i - 1]]
        <3> HIDE DEF step
        <3>1. n \in Nat /\ first \in X /\ step \in StepsOf(X, n)
            BY <1>1, <1>4, <1>6 DEF StepsOf
        <3>2. \E f \in [0..n -> X] : Unfolds(f, first, step, n)
            BY <3>1, Recursion
        <3> QED BY <3>2 DEF Unfolds
    <2>2. \A i \in 1..n : i - 1 \in 0..n /\ f[i - 1] \in X
        BY <1>1, <2>1
    <2>3. \A i \in 1..n : f[i] = more(f[i - 1], i)
        BY <2>1, <2>2
    <2>4. Is(f)
        <3>1. f = [i \in 0..n |-> f[i]]
            BY <2>1
        <3>2. \A i \in 0..n : f[i] = IF i = 0 THEN first ELSE more(f[i - 1], i)
            <4>1. \A i \in 0..n : i # 0 => i \in 1..n
                BY <1>1
            <4> QED BY <2>1, <2>3, <4>1
        <3> QED BY <3>1, <3>2
    <2> QED BY <2>4
<1> DEFINE g == CHOOSE f : Is(f)
<1>8. Is(g)
    <2> HIDE DEF Is
    <2> QED BY <1>7
<1>9. RowsAt(tab, cur) = g[n]
    BY <1>3
<1> HIDE DEF g
<1>10. g[0] \in X
    BY <1>1, <1>4, <1>8
<1>11. ASSUME NEW i \in 1..n, g[i - 1] \in X PROVE g[i] \in X
    <2>1. i \in 0..n /\ i # 0
        BY <1>1
    <2>2. g[i] = more(g[i - 1], i)
        BY <1>8, <2>1
    <2> QED BY <1>5, <1>11, <2>2
<1>12. n \in 0..n /\ \A i \in 0..n : g[i] \in X
    <2>1. n \in Nat
        BY <1>1
    <2>2. \A i \in 1..n : g[i - 1] \in X => g[i] \in X
        BY <1>11
    <2>3. \A i \in 0..n : g[i] \in X
        BY <1>10, <2>1, <2>2, RecursionIn
    <2> QED BY <2>1, <2>3
<1> QED BY <1>2, <1>9, <1>12

(* A row is one of a field, or one of a list, and the field decides whether    *)
(* there is something to choose from                                         *)
FieldRow(row) ==
    \E field \in Dialog!Fields :
        row.kind = field.kind /\ row.name = field.name /\ row.size = field.size

LEMMA RowOfDialog ==
    ASSUME NEW tab \in 0..Len(Tabs) - 1, NEW cur, Dialog!Typed(cur)
    PROVE  LET rows == RowsAt(tab, cur)
               n    == Len(FieldsOf(tab))
           IN  /\ n \in Nat \ {0} /\ Len(rows) \in Nat /\ n <= Len(rows)
               /\ Dialog!Editable(rows[1]) /\ Dialog!Editable(rows[Len(rows)])
               /\ \A i \in 1..n : rows[i] = FieldRows(tab)[i] /\ FieldRow(rows[i])
               /\ \A i \in n + 1..Len(rows) : rows[i] \in ListRow(cur)
               /\ \A i \in 1..Len(rows) : rows[i].size \in Nat
<1> DEFINE rows == RowsAt(tab, cur)
           n    == Len(FieldsOf(tab))
<1>1. Arranged(rows, tab, cur)
    BY RowsArranged
<1>2. FieldsOf(tab) \in Seq(Dialog!Fields) /\ n \in Nat \ {0}
    BY TabFacts
<1> HIDE DEF rows
<1>3. Len(rows) \in Nat /\ \A i \in 1..Len(rows) : rows[i].size \in Nat
    <2> DEFINE R == [kind : {"enum", "multi", "text", "heading", "entry", "add"},
                     name : Dialog!Names, size : Nat, index : Int]
    <2>1. rows \in Seq(R)
        BY <1>1 DEF Arranged
    <2>2. \A row \in R : row.size \in Nat
        OBVIOUS
    <2> HIDE DEF R
    <2> QED BY <2>1, <2>2
<1>4. n <= Len(rows) /\ \A i \in n + 1..Len(rows) : rows[i] \in ListRow(cur)
    BY <1>1 DEF Arranged
<1>5. \A i \in 1..n : rows[i] = FieldRows(tab)[i]
    BY <1>1 DEF Arranged
<1>6. Dialog!Editable(rows[Len(rows)])
    BY <1>1 DEF Arranged
<1>7. ASSUME NEW i \in 1..n
      PROVE  FieldRow(rows[i]) /\ Dialog!Editable(rows[i])
    <2> DEFINE field == FieldsOf(tab)[i]
    <2>1. field \in Dialog!Fields /\ i \in DOMAIN FieldsOf(tab)
        BY <1>2
    <2>2. rows[i] = [kind |-> field.kind, name |-> field.name, size |-> field.size, index |-> -1]
        BY <1>5, <2>1 DEF FieldRows
    <2> HIDE DEF field
    <2>3. FieldRow(rows[i])
        BY <2>1, <2>2 DEF FieldRow
    <2>4. field.kind \in {"enum", "multi", "text"}
        BY <2>1, FieldFacts
    <2> QED BY <2>2, <2>3, <2>4 DEF Dialog!Editable
<1> HIDE DEF n
<1>8. Dialog!Editable(rows[1])
    BY <1>2, <1>7
<1> QED BY <1>2, <1>3, <1>4, <1>5, <1>6, <1>7, <1>8 DEF rows, n

-----------------------------------------------------------------------------
(* The lines of the dialog *)

HeightAt(rows, cursorAt, edits, i) ==
    IF Dialog!Bare(rows[i]) \/ ~Dialog!Editable(rows[i]) THEN 1
    ELSE IF i = cursorAt + 1 /\ ~edits THEN 1 + Dialog!Maximum(rows[i].size, 1)
    ELSE 2

EndsAt(rows, cursorAt, edits) ==
    CHOOSE end : end = [i \in 0..Len(rows) |->
                           IF i = 0 THEN 0
                           ELSE end[i - 1] + Dialog!Gap(rows, i) + HeightAt(rows, cursorAt, edits, i)]

LayoutAt(rows, cursorAt, edits) ==
    [i \in 0..Len(rows) - 1 |->
        [row |-> rows[i + 1],
         begin |-> EndsAt(rows, cursorAt, edits)[i + 1] - HeightAt(rows, cursorAt, edits, i + 1),
         end |-> EndsAt(rows, cursorAt, edits)[i + 1]]]

LEMMA LayoutOfDialog ==
    \A d : Dialog!Layout(d) = LayoutAt(Dialog!Rows(d), d.cursor, d.editing)
BY DEF Dialog!Layout, LayoutAt, EndsAt, HeightAt, Dialog!Height

Sized(rows) == Len(rows) \in Nat \ {0} /\ \A i \in 1..Len(rows) : rows[i].size \in Nat

LEMMA HeightType ==
    ASSUME NEW rows, Sized(rows), NEW cursorAt, NEW edits, NEW i \in 1..Len(rows)
    PROVE  /\ HeightAt(rows, cursorAt, edits, i) \in Nat \ {0}
           /\ Dialog!Gap(rows, i) \in Nat
BY DEF Sized, HeightAt, Dialog!Gap, Dialog!Maximum

(* The end of each row is that of the one before it, and its own lines        *)
LEMMA EndsUnfold ==
    ASSUME NEW rows, Sized(rows), NEW cursorAt, NEW edits
    PROVE  LET end == EndsAt(rows, cursorAt, edits)
           IN  /\ end \in [0..Len(rows) -> Nat] /\ end[0] = 0
               /\ \A i \in 1..Len(rows) :
                     end[i] = end[i - 1] + Dialog!Gap(rows, i) + HeightAt(rows, cursorAt, edits, i)
<1> DEFINE n == Len(rows)
           lines(i) == Dialog!Gap(rows, i) + HeightAt(rows, cursorAt, edits, i)
           Is(f) == f = [i \in 0..n |->
                            IF i = 0 THEN 0
                            ELSE f[i - 1] + Dialog!Gap(rows, i) + HeightAt(rows, cursorAt, edits, i)]
           step == [i \in 1..n |-> [above \in Nat |-> above + lines(i)]]
<1>1. n \in Nat
    BY DEF Sized
<1>2. \A i \in 1..n : lines(i) \in Nat /\ \A above \in Nat :
          above + Dialog!Gap(rows, i) + HeightAt(rows, cursorAt, edits, i) = above + lines(i)
    BY HeightType
<1>3. EndsAt(rows, cursorAt, edits) = CHOOSE f : Is(f)
    BY DEF EndsAt
<1> HIDE DEF n
<1>4. step \in [1..n -> [Nat -> Nat]]
    <2> HIDE DEF lines
    <2> QED BY <1>2
<1>5. PICK f \in [0..n -> Nat] : f[0] = 0 /\ \A i \in 1..n : f[i] = step[i][f[i - 1]]
    <2> HIDE DEF step
    <2>1. step \in StepsOf(Nat, n) /\ 0 \in Nat
        BY <1>4 DEF StepsOf
    <2>2. \E f \in [0..n -> Nat] : Unfolds(f, 0, step, n)
        BY <1>1, <2>1, Recursion
    <2> QED BY <2>2 DEF Unfolds
<1>6. Is(f)
    <2>1. \A i \in 1..n : i - 1 \in 0..n /\ f[i - 1] \in Nat
        BY <1>1, <1>5
    <2>2. \A i \in 1..n : step[i][f[i - 1]] = f[i - 1] + lines(i)
        <3> HIDE DEF lines
        <3> QED BY <2>1
    <2> HIDE DEF step, lines
    <2>3. \A i \in 1..n : f[i] = f[i - 1] + Dialog!Gap(rows, i) + HeightAt(rows, cursorAt, edits, i)
        BY <1>2, <1>5, <2>1, <2>2
    <2>4. f = [i \in 0..n |-> f[i]]
        BY <1>5
    <2>5. \A i \in 0..n : i # 0 => i \in 1..n
        BY <1>1
    <2> QED BY <1>5, <2>3, <2>4, <2>5
<1>7. Is(EndsAt(rows, cursorAt, edits))
    <2> HIDE DEF Is
    <2> QED BY <1>3, <1>6
<1> DEFINE end == EndsAt(rows, cursorAt, edits)
<1> HIDE DEF end, step, lines
<1>8. end = [i \in 0..n |-> end[i]] /\ end[0] = 0
    BY <1>1, <1>7 DEF end
<1>9. ASSUME NEW i \in 1..n
      PROVE  end[i] = end[i - 1] + Dialog!Gap(rows, i) + HeightAt(rows, cursorAt, edits, i)
    <2>1. i \in 0..n /\ i # 0
        BY <1>1
    <2> QED BY <1>7, <2>1 DEF end
<1>10. \A i \in 0..n : end[i] \in Nat
    <2>1. end[0] \in Nat
        BY <1>8
    <2>2. \A i \in 1..n : end[i - 1] \in Nat => end[i] \in Nat
        BY <1>2, <1>9
    <2> QED BY <1>1, <2>1, <2>2, RecursionIn
<1> QED BY <1>8, <1>9, <1>10 DEF end, n

(* The rows lie one below the other *)
LEMMA EndsGrow ==
    ASSUME NEW rows, Sized(rows), NEW cursorAt, NEW edits,
           NEW i \in 0..Len(rows), NEW j \in i..Len(rows)
    PROVE  EndsAt(rows, cursorAt, edits)[i] <= EndsAt(rows, cursorAt, edits)[j]
<1> DEFINE end == EndsAt(rows, cursorAt, edits)
           n   == Len(rows)
           S   == {k \in 0..n : i <= k => end[i] <= end[k]}
<1>1. n \in Nat /\ end \in [0..n -> Nat]
    BY EndsUnfold DEF Sized
<1>2. ASSUME NEW k \in 1..n PROVE end[k - 1] <= end[k]
    <2>1. /\ end[k] = end[k - 1] + Dialog!Gap(rows, k) + HeightAt(rows, cursorAt, edits, k)
          /\ k - 1 \in 0..n
        BY <1>1, EndsUnfold
    <2>2. HeightAt(rows, cursorAt, edits, k) \in Nat /\ Dialog!Gap(rows, k) \in Nat
        BY HeightType
    <2>3. end[k - 1] \in Nat
        BY <1>1, <2>1
    <2> HIDE DEF end, n
    <2> QED BY <2>1, <2>2, <2>3
<1> HIDE DEF end, n
<1>3. 0 \in S
    <2>1. i <= 0 => i = 0
        BY DEF n
    <2> QED BY <1>1, <2>1
<1>4. ASSUME NEW k \in 1..n, k - 1 \in S PROVE k \in S
    <2>1. k - 1 \in 0..n /\ k \in 0..n /\ end[k - 1] \in Nat /\ end[k] \in Nat
        BY <1>1
    <2>2. i \in Nat /\ end[i] \in Nat
        BY <1>1 DEF n
    <2>3. CASE i <= k - 1
        BY <1>2, <1>4, <2>1, <2>2, <2>3
    <2>4. CASE ~(i <= k - 1)
        <3>1. i <= k => i = k
            BY <2>1, <2>2, <2>4
        <3> QED BY <2>1, <2>2, <3>1
    <2> QED BY <2>3, <2>4
<1>5. 0..n \subseteq S
    <2> HIDE DEF S
    <2> QED BY <1>1, <1>3, <1>4, UpTo
<1>6. j \in 0..n /\ i <= j
    BY <1>1 DEF n
<1> QED BY <1>5, <1>6 DEF end

TotalAt(rows, cursorAt, edits) == LayoutAt(rows, cursorAt, edits)[Len(rows) - 1].end

(* Every row has its lines within those of the dialog *)
LEMMA Lines ==
    ASSUME NEW rows, Sized(rows), NEW cursorAt, NEW edits, NEW i \in 0..Len(rows) - 1
    PROVE  LET at    == LayoutAt(rows, cursorAt, edits)[i]
               total == TotalAt(rows, cursorAt, edits)
           IN  /\ at.row = rows[i + 1] /\ at.begin \in Nat /\ at.end \in Nat
               /\ at.end = at.begin + HeightAt(rows, cursorAt, edits, i + 1)
               /\ at.begin < at.end /\ at.end <= total /\ total \in Nat \ {0}
<1> DEFINE n   == Len(rows)
           end == EndsAt(rows, cursorAt, edits)
           high == HeightAt(rows, cursorAt, edits, i + 1)
           at  == LayoutAt(rows, cursorAt, edits)[i]
<1>1. n \in Nat \ {0} /\ i \in 0..n - 1 /\ i + 1 \in 1..n /\ n - 1 \in 0..n - 1 /\ (n - 1) + 1 = n
    BY DEF Sized
<1>2. TotalAt(rows, cursorAt, edits) = end[n]
    BY <1>1 DEF TotalAt, LayoutAt
<1>3. at = [row |-> rows[i + 1], begin |-> end[i + 1] - high, end |-> end[i + 1]]
    BY <1>1 DEF LayoutAt
<1>4. /\ end \in [0..n -> Nat]
      /\ end[i + 1] = end[(i + 1) - 1] + Dialog!Gap(rows, i + 1) + high
    BY <1>1, EndsUnfold
<1>5. high \in Nat \ {0} /\ Dialog!Gap(rows, i + 1) \in Nat
    BY <1>1, HeightType
<1>6. end[i + 1] <= end[n]
    <2>1. i + 1 \in 0..n /\ n \in i + 1..n
        BY <1>1
    <2> QED BY <2>1, EndsGrow
<1>7. end[i] \in Nat /\ end[n] \in Nat /\ (i + 1) - 1 = i
    BY <1>1, <1>4
<1>8. end[i + 1] = end[i] + Dialog!Gap(rows, i + 1) + high
    BY <1>4, <1>7
<1> HIDE DEF end, high, n, at
<1>9. end[i + 1] - high \in Nat /\ end[i + 1] \in Nat \ {0} /\ end[i + 1] - high < end[i + 1]
    BY <1>5, <1>7, <1>8
<1>10. at.row = rows[i + 1] /\ at.begin = end[i + 1] - high /\ at.end = end[i + 1]
    BY <1>3
<1>11. end[n] \in Nat \ {0} /\ at.end = at.begin + high
    BY <1>5, <1>6, <1>7, <1>9, <1>10
<1> QED BY <1>2, <1>6, <1>9, <1>10, <1>11 DEF at, high

(* While its input has the keys a row is not higher than without it            *)
LEMMA EditsLower ==
    ASSUME NEW rows, Sized(rows), NEW cursorAt
    PROVE  TotalAt(rows, cursorAt, TRUE) <= TotalAt(rows, cursorAt, FALSE)
<1> DEFINE n == Len(rows)
           e == EndsAt(rows, cursorAt, TRUE)
           f == EndsAt(rows, cursorAt, FALSE)
           S == {i \in 0..n : e[i] <= f[i]}
<1>1. n \in Nat \ {0} /\ n - 1 \in 0..n - 1 /\ (n - 1) + 1 = n
    BY DEF Sized
<1>2. TotalAt(rows, cursorAt, TRUE) = e[n] /\ TotalAt(rows, cursorAt, FALSE) = f[n]
    BY <1>1 DEF TotalAt, LayoutAt
<1>3. /\ e \in [0..n -> Nat] /\ e[0] = 0
      /\ \A i \in 1..n : e[i] = e[i - 1] + Dialog!Gap(rows, i) + HeightAt(rows, cursorAt, TRUE, i)
    BY EndsUnfold
<1>4. /\ f \in [0..n -> Nat] /\ f[0] = 0
      /\ \A i \in 1..n : f[i] = f[i - 1] + Dialog!Gap(rows, i) + HeightAt(rows, cursorAt, FALSE, i)
    BY EndsUnfold
<1>5. ASSUME NEW i \in 1..n
      PROVE  /\ HeightAt(rows, cursorAt, TRUE, i) <= HeightAt(rows, cursorAt, FALSE, i)
             /\ HeightAt(rows, cursorAt, TRUE, i) \in Nat
             /\ HeightAt(rows, cursorAt, FALSE, i) \in Nat /\ Dialog!Gap(rows, i) \in Nat
    <2>1. rows[i].size \in Nat
        BY DEF Sized
    <2>2. HeightAt(rows, cursorAt, TRUE, i) <= HeightAt(rows, cursorAt, FALSE, i)
        BY <2>1 DEF HeightAt, Dialog!Maximum
    <2> QED BY <2>2, HeightType
<1> HIDE DEF e, f, n
<1>6. 0 \in S
    BY <1>1, <1>3, <1>4
<1>7. ASSUME NEW i \in 1..n, i - 1 \in S PROVE i \in S
    <2>1. i \in 0..n /\ i - 1 \in 0..n /\ e[i - 1] <= f[i - 1]
        BY <1>1, <1>7
    <2>2. e[i - 1] \in Nat /\ f[i - 1] \in Nat
        BY <1>3, <1>4, <2>1
    <2> DEFINE gap == Dialog!Gap(rows, i)
               low == HeightAt(rows, cursorAt, TRUE, i)
               high == HeightAt(rows, cursorAt, FALSE, i)
    <2>3. e[i] = e[i - 1] + gap + low /\ f[i] = f[i - 1] + gap + high
        BY <1>3, <1>4
    <2>4. gap \in Nat /\ low \in Nat /\ high \in Nat /\ low <= high
        BY <1>5
    <2> HIDE DEF gap, low, high
    <2>5. e[i] <= f[i]
        BY <2>1, <2>2, <2>3, <2>4
    <2> QED BY <2>1, <2>5
<1>8. 0..n \subseteq S
    <2> HIDE DEF S
    <2> QED BY <1>1, <1>6, <1>7, UpTo
<1>9. n \in 0..n
    BY <1>1
<1> QED BY <1>2, <1>8, <1>9

-----------------------------------------------------------------------------
(* A dialog in its bounds *)

(* All but the scroll *)
Sits(d) ==
    /\ d.cursor \in 0..Len(Dialog!Rows(d)) - 1 /\ Dialog!Editable(Dialog!Current(d))
    /\ Dialog!Selecting(d) => d.option \in 0..Dialog!Current(d).size - 1
    /\ d.editing => ~Dialog!Selecting(d)

InPlace(d) == Shaped(d) /\ Dialog!InBounds(d)

LEMMA DialogFacts ==
    ASSUME NEW d, Shaped(d)
    PROVE  /\ Dialog!Rows(d) = RowsAt(d.tab, d.cur) /\ Sized(Dialog!Rows(d))
           /\ d.tab \in 0..Len(Tabs) - 1 /\ d.cursor \in Nat /\ d.option \in Int /\ d.scroll \in Int
           /\ d.editing \in BOOLEAN /\ d.height \in Nat \ {0} /\ Dialog!Typed(d.cur)
           /\ Dialog!Layout(d) = LayoutAt(Dialog!Rows(d), d.cursor, d.editing)
           /\ Dialog!Total(d) = TotalAt(Dialog!Rows(d), d.cursor, d.editing)
           /\ Dialog!Total(d) \in Nat \ {0}
<1>1. /\ d.tab \in 0..Len(Tabs) - 1 /\ d.cursor \in Nat /\ d.option \in Int /\ d.scroll \in Int
      /\ d.editing \in BOOLEAN /\ d.height \in Nat \ {0} /\ Dialog!Typed(d.cur)
    BY DEF Shaped, Shapes
<1>2. Dialog!Rows(d) = RowsAt(d.tab, d.cur)
    BY RowsOfDialog
<1>3. Sized(Dialog!Rows(d))
    <2> DEFINE tab == d.tab
               cur == d.cur
    <2>1. tab \in 0..Len(Tabs) - 1 /\ Dialog!Typed(cur)
        BY <1>1
    <2> HIDE DEF tab, cur
    <2>2. Sized(RowsAt(tab, cur))
        BY <2>1, RowOfDialog DEF Sized
    <2> QED BY <1>2, <2>2 DEF tab, cur
<1>4. Dialog!Layout(d) = LayoutAt(Dialog!Rows(d), d.cursor, d.editing)
    BY LayoutOfDialog
<1>5. Dialog!Total(d) = TotalAt(Dialog!Rows(d), d.cursor, d.editing)
    BY <1>4 DEF Dialog!Total, TotalAt
<1>6. Dialog!Total(d) \in Nat \ {0}
    <2>1. 0 \in 0..Len(Dialog!Rows(d)) - 1
        BY <1>3 DEF Sized
    <2> QED BY <1>3, <1>5, <2>1, Lines
<1> QED BY <1>1, <1>2, <1>3, <1>4, <1>5, <1>6

(* Only the scroll is another one *)
LEMMA ScrolledTo ==
    ASSUME NEW d, Shaped(d), NEW top \in Int
    PROVE  LET e == [d EXCEPT !.scroll = top]
           IN  /\ Shaped(e) /\ e.scroll = top /\ e.editing = d.editing
               /\ Dialog!Total(e) = Dialog!Total(d)
               /\ Sits(d) => Sits(e)
               /\ Sits(d) /\ top \in 0..Dialog!Total(d) - 1 => InPlace(e)
<1> DEFINE e == [d EXCEPT !.scroll = top]
<1>1. /\ e \in Shapes /\ e.scroll = top /\ e.editing = d.editing /\ e.tab = d.tab /\ e.cur = d.cur
      /\ e.cursor = d.cursor /\ e.option = d.option
    BY DEF Shaped, Shapes
<1> HIDE DEF e
<1>2. Shaped(e)
    BY <1>1 DEF Shaped
<1>3. Dialog!Rows(e) = Dialog!Rows(d)
    BY <1>1, RowsOfDialog
<1>4. Dialog!Total(e) = Dialog!Total(d)
    BY <1>1, <1>2, <1>3, DialogFacts
<1>5. Dialog!Current(e) = Dialog!Current(d)
    BY <1>1, <1>3 DEF Dialog!Current
<1>6. Dialog!Selecting(e) = Dialog!Selecting(d)
    BY <1>5 DEF Dialog!Selecting
<1>7. Sits(d) => Sits(e)
    BY <1>1, <1>3, <1>5, <1>6 DEF Sits
<1>8. Sits(d) /\ top \in 0..Dialog!Total(d) - 1 => InPlace(e)
    BY <1>1, <1>2, <1>4, <1>7 DEF Sits, InPlace, Dialog!InBounds
<1> QED BY <1>1, <1>2, <1>4, <1>7, <1>8 DEF e

(* The lines of the row under the cursor, and of the option of its field       *)
LEMMA CursorLines ==
    ASSUME NEW d, Shaped(d), Sits(d)
    PROVE  LET at == Dialog!Layout(d)[d.cursor]
           IN  /\ at.row = Dialog!Current(d) /\ at.begin \in Nat /\ at.end \in Nat
               /\ at.begin < at.end /\ at.end <= Dialog!Total(d)
               /\ Dialog!Selecting(d) => /\ at.begin + 1 + d.option \in Nat
                                         /\ at.begin + 1 + d.option < at.end
               /\ Dialog!Layout(d)[Len(Dialog!Rows(d)) - 1].end = Dialog!Total(d)
<1> DEFINE rows == Dialog!Rows(d)
           at   == Dialog!Layout(d)[d.cursor]
           row  == Dialog!Current(d)
<1>1. /\ Sized(rows) /\ Dialog!Layout(d) = LayoutAt(rows, d.cursor, d.editing)
      /\ Dialog!Total(d) = TotalAt(rows, d.cursor, d.editing) /\ d.cursor \in Nat
      /\ d.editing \in BOOLEAN
    BY DialogFacts
<1>2. d.cursor \in 0..Len(rows) - 1 /\ row = rows[d.cursor + 1]
    BY DEF Sits, Dialog!Current
<1>3. /\ at.row = row /\ at.begin \in Nat /\ at.end \in Nat
      /\ at.end = at.begin + HeightAt(rows, d.cursor, d.editing, d.cursor + 1)
      /\ at.begin < at.end /\ at.end <= Dialog!Total(d)
    BY <1>1, <1>2, Lines
<1>4. ASSUME Dialog!Selecting(d)
      PROVE  at.begin + 1 + d.option \in Nat /\ at.begin + 1 + d.option < at.end
    <2>1. d.option \in 0..row.size - 1 /\ ~d.editing /\ row.kind \in {"enum", "multi"}
        BY <1>4 DEF Sits, Dialog!Selecting
    <2>2. ~Dialog!Bare(row) /\ Dialog!Editable(row)
        BY <2>1 DEF Dialog!Bare, Dialog!Editable
    <2>3. row.size \in Nat
        <3>1. d.cursor + 1 \in 1..Len(rows)
            BY <1>1, <1>2 DEF Sized
        <3> QED BY <1>1, <1>2, <3>1 DEF Sized
    <2>4. HeightAt(rows, d.cursor, d.editing, d.cursor + 1) = 1 + Dialog!Maximum(row.size, 1)
        BY <1>1, <1>2, <2>1, <2>2 DEF HeightAt
    <2> DEFINE size == row.size
    <2>5. Dialog!Maximum(size, 1) >= size /\ Dialog!Maximum(size, 1) \in Nat
        BY <2>3 DEF Dialog!Maximum
    <2> HIDE DEF at, row, rows, size
    <2>6. d.option \in 0..size - 1 /\ at.end = at.begin + (1 + Dialog!Maximum(size, 1)) /\ size \in Nat
        BY <1>3, <2>1, <2>3, <2>4 DEF size
    <2> QED BY <1>3, <2>5, <2>6
<1>5. Dialog!Layout(d)[Len(rows) - 1].end = Dialog!Total(d)
    BY <1>1 DEF Dialog!Total
<1> QED BY <1>3, <1>4, <1>5

LEMMA ClampPlace ==
    ASSUME NEW d, Shaped(d), Sits(d)
    PROVE  InPlace(Dialog!Clamp(d)) /\ Dialog!Clamp(d).editing = d.editing
<1> DEFINE at      == Dialog!Layout(d)[d.cursor]
           total   == Dialog!Total(d)
           bounded == Dialog!Within(d.scroll, total - d.height)
           option  == at.begin + 1 + d.option
           to      == CASE at.row.kind \in {"enum", "multi"} ->
                               Dialog!Between(option - d.height + 1, bounded, option)
                        [] at.row.kind \notin {"enum", "multi"} /\ d.editing ->
                               Dialog!Between(at.end - d.height, bounded, at.end - 1)
                        [] OTHER -> bounded
<1>1. /\ d.scroll \in Int /\ d.height \in Nat \ {0} /\ total \in Nat \ {0} /\ d.option \in Int
    BY DialogFacts
<1>2. /\ at.row = Dialog!Current(d) /\ at.begin \in Nat /\ at.end \in Nat
      /\ at.begin < at.end /\ at.end <= total
      /\ at.row.kind \in {"enum", "multi"} => option \in Nat /\ option < at.end
    BY CursorLines DEF Dialog!Selecting
<1>3. Dialog!Clamp(d) = [d EXCEPT !.scroll = to]
    BY CursorLines DEF Dialog!Clamp
<1>4. bounded \in 0..total - 1
    <2> HIDE DEF total
    <2> QED BY <1>1 DEF Dialog!Within, Dialog!Maximum, Dialog!Minimum
<1> HIDE DEF at, total, bounded, option
<1>5. to \in 0..total - 1
    <2>1. CASE at.row.kind \in {"enum", "multi"}
        <3>1. to = Dialog!Between(option - d.height + 1, bounded, option)
            BY <2>1
        <3> HIDE DEF to
        <3> QED BY <1>1, <1>2, <1>4, <2>1, <3>1
                DEF Dialog!Between, Dialog!Maximum, Dialog!Minimum
    <2>2. CASE at.row.kind \notin {"enum", "multi"} /\ d.editing
        <3>1. to = Dialog!Between(at.end - d.height, bounded, at.end - 1)
            BY <2>2
        <3> HIDE DEF to
        <3> QED BY <1>1, <1>2, <1>4, <3>1 DEF Dialog!Between, Dialog!Maximum, Dialog!Minimum
    <2>3. CASE at.row.kind \notin {"enum", "multi"} /\ ~d.editing
        BY <1>4, <2>3
    <2> QED BY <2>1, <2>2, <2>3
<1> HIDE DEF to
<1>6. to \in Int
    BY <1>1, <1>5
<1> QED BY <1>3, <1>5, <1>6, ScrolledTo DEF total

LEMMA RevealPlace ==
    ASSUME NEW d, Shaped(d), Sits(d)
    PROVE  InPlace(Dialog!Reveal(d)) /\ Dialog!Reveal(d).editing = d.editing
<1> DEFINE at      == Dialog!Layout(d)[d.cursor]
           total   == Dialog!Total(d)
           bounded == Dialog!Within(d.scroll, total - d.height)
           end     == Dialog!Minimum(at.end, at.begin + d.height)
           to      == Dialog!Between(end - d.height, bounded, at.begin)
<1>1. /\ d.scroll \in Int /\ d.height \in Nat \ {0} /\ total \in Nat \ {0}
    BY DialogFacts
<1>2. /\ at.begin \in Nat /\ at.end \in Nat /\ at.begin < at.end /\ at.end <= total
    BY CursorLines
<1>3. Dialog!Reveal(d) = [d EXCEPT !.scroll = to]
    BY CursorLines DEF Dialog!Reveal
<1>4. bounded \in 0..total - 1
    <2> HIDE DEF total
    <2> QED BY <1>1 DEF Dialog!Within, Dialog!Maximum, Dialog!Minimum
<1> HIDE DEF at, total, bounded
<1>5. to \in 0..total - 1 /\ to \in Int
    BY <1>1, <1>2, <1>4 DEF Dialog!Between, Dialog!Maximum, Dialog!Minimum
<1> HIDE DEF to
<1> QED BY <1>3, <1>5, ScrolledTo DEF total

LEMMA ScrollByPlace ==
    ASSUME NEW d, InPlace(d), NEW delta \in Int
    PROVE  InPlace(Dialog!ScrollBy(d, delta))
<1> DEFINE total == Dialog!Total(d)
           to    == Dialog!Within(d.scroll + delta, total - d.height)
<1>1. Shaped(d) /\ Sits(d)
    BY DEF InPlace, Dialog!InBounds, Sits
<1>2. /\ d.scroll \in Int /\ d.height \in Nat \ {0} /\ total \in Nat \ {0}
    BY <1>1, DialogFacts
<1>3. Dialog!ScrollBy(d, delta) = [d EXCEPT !.scroll = to]
    BY DEF Dialog!ScrollBy
<1> HIDE DEF total
<1>4. to \in 0..total - 1 /\ to \in Int
    BY <1>2 DEF Dialog!Within, Dialog!Maximum, Dialog!Minimum
<1> HIDE DEF to
<1> QED BY <1>1, <1>3, <1>4, ScrolledTo DEF total

LEMMA ResizePlace ==
    ASSUME NEW d, InPlace(d), NEW tall \in Nat \ {0}
    PROVE  InPlace(Dialog!Resize(d, tall))
<1> DEFINE e == [d EXCEPT !.height = tall]
<1>1. Shaped(d) /\ Sits(d)
    BY DEF InPlace, Dialog!InBounds, Sits
<1>2. /\ e \in Shapes /\ e.editing = d.editing /\ e.tab = d.tab /\ e.cur = d.cur
      /\ e.cursor = d.cursor /\ e.option = d.option
    BY <1>1 DEF Shaped, Shapes
<1>3. Dialog!Resize(d, tall) = Dialog!Clamp(e)
    BY DEF Dialog!Resize
<1> HIDE DEF e
<1>4. Shaped(e)
    BY <1>1, <1>2 DEF Shaped
<1>5. Dialog!Rows(e) = Dialog!Rows(d)
    BY <1>2, RowsOfDialog
<1>6. Dialog!Current(e) = Dialog!Current(d)
    BY <1>2, <1>5 DEF Dialog!Current
<1>7. Dialog!Selecting(e) = Dialog!Selecting(d)
    BY <1>6 DEF Dialog!Selecting
<1>8. Sits(e)
    BY <1>1, <1>2, <1>5, <1>6, <1>7 DEF Sits
<1> QED BY <1>3, <1>4, <1>8, ClampPlace

(* The row that takes the cursor has its own option *)
LEMMA FocusSits ==
    ASSUME NEW d, Shaped(d), ~d.editing, NEW to \in 0..Len(Dialog!Rows(d)) - 1,
           Dialog!Editable(Dialog!Rows(d)[to + 1])
    PROVE  LET e == Dialog!Focus(d, to)
           IN  Shaped(e) /\ Sits(e) /\ ~e.editing /\ e.tab = d.tab /\ e.cur = d.cur
<1> DEFINE at  == [d EXCEPT !.cursor = to, !.option = 0]
           row == Dialog!Rows(d)[to + 1]
           value == Dialog!Maximum(d.cur[row.name], 0)
           e   == Dialog!Focus(d, to)
<1>1. /\ Sized(Dialog!Rows(d)) /\ Dialog!Rows(d) = RowsAt(d.tab, d.cur)
      /\ d.tab \in 0..Len(Tabs) - 1 /\ Dialog!Typed(d.cur)
    BY DialogFacts
<1>2. to \in Nat
    OBVIOUS
<1>3. /\ at \in Shapes /\ at.editing = d.editing /\ at.tab = d.tab /\ at.cur = d.cur
      /\ at.cursor = to /\ at.option = 0
    <2> DEFINE moved == [d EXCEPT !.cursor = to]
    <2>1. /\ moved \in Shapes /\ moved.editing = d.editing /\ moved.tab = d.tab
          /\ moved.cur = d.cur /\ moved.cursor = to
        BY <1>2 DEF Shaped, Shapes
    <2>2. at = [moved EXCEPT !.option = 0]
        OBVIOUS
    <2> HIDE DEF moved, at
    <2> QED BY <2>1, <2>2 DEF Shapes
<1>4. Dialog!Rows(at) = Dialog!Rows(d)
    BY <1>3, RowsOfDialog
<1>5. Dialog!Current(at) = row
    BY <1>3, <1>4 DEF Dialog!Current
<1>6. e = IF row.kind = "enum" THEN [at EXCEPT !.option = value] ELSE at
    BY <1>5 DEF Dialog!Focus
<1>7. row.kind \in {"enum", "multi"} => FieldRow(row) /\ row.size \in Nat \ {0}
    <2> DEFINE tab == d.tab
               cur == d.cur
               rows == RowsAt(tab, cur)
               n == Len(FieldsOf(tab))
    <2>1. tab \in 0..Len(Tabs) - 1 /\ Dialog!Typed(cur) /\ to \in 0..Len(rows) - 1
        BY <1>1
    <2> HIDE DEF tab, cur
    <2>2. /\ n \in Nat \ {0} /\ Len(rows) \in Nat /\ n <= Len(rows)
          /\ \A i \in 1..n : FieldRow(rows[i])
          /\ \A i \in n + 1..Len(rows) : rows[i] \in ListRow(cur)
        BY <2>1, RowOfDialog
    <2> HIDE DEF rows, n
    <2>3. to + 1 \in 1..n \/ to + 1 \in n + 1..Len(rows)
        BY <2>1, <2>2
    <2>4. to + 1 \in n + 1..Len(rows) => rows[to + 1].kind \notin {"enum", "multi"}
        BY <2>2 DEF ListRow
    <2>5. FieldRow(rows[to + 1]) /\ rows[to + 1].kind # "text" => rows[to + 1].size \in Nat \ {0}
        BY FieldFacts DEF FieldRow
    <2>6. row = rows[to + 1]
        BY <1>1 DEF rows, tab, cur
    <2> QED BY <2>2, <2>3, <2>4, <2>5, <2>6
<1>8. row.kind = "enum" => value \in 0..row.size - 1
    <2> SUFFICES ASSUME row.kind = "enum" PROVE value \in 0..row.size - 1
        OBVIOUS
    <2>1. PICK field \in Dialog!Fields :
              field.kind = "enum" /\ row.name = field.name /\ row.size = field.size
        BY <1>7 DEF FieldRow
    <2>2. d.cur[row.name] \in -1..row.size - 1
        BY <1>1, <2>1 DEF Dialog!Typed
    <2>3. row.size \in Nat \ {0}
        BY <1>7
    <2> HIDE DEF row
    <2> QED BY <2>2, <2>3 DEF Dialog!Maximum
<1> HIDE DEF at, row, value
<1>9. /\ e \in Shapes /\ e.editing = d.editing /\ e.tab = d.tab /\ e.cur = d.cur
      /\ e.cursor = to /\ e.option = IF row.kind = "enum" THEN value ELSE 0
    <2>1. CASE row.kind = "enum"
        <3>1. value \in Int
            BY <1>7, <1>8, <2>1
        <3> HIDE DEF e
        <3> QED BY <1>3, <1>6, <2>1, <3>1 DEF Shapes
    <2>2. CASE row.kind # "enum"
        <3> HIDE DEF e
        <3> QED BY <1>3, <1>6, <2>2
    <2> QED BY <2>1, <2>2
<1> HIDE DEF e
<1>10. Shaped(e)
    BY <1>1, <1>9 DEF Shaped
<1>11. Dialog!Rows(e) = Dialog!Rows(d)
    BY <1>9, RowsOfDialog
<1>12. Dialog!Current(e) = row
    BY <1>9, <1>11 DEF Dialog!Current, row
<1>13. Dialog!Selecting(e) => e.option \in 0..row.size - 1
    BY <1>7, <1>8, <1>9, <1>12 DEF Dialog!Selecting
<1>14. Sits(e)
    BY <1>9, <1>11, <1>12, <1>13 DEF Sits, row
<1> QED BY <1>9, <1>10, <1>14 DEF e

LEMMA InPlaceSits ==
    ASSUME NEW d, InPlace(d)
    PROVE  Shaped(d) /\ Sits(d)
BY DEF InPlace, Dialog!InBounds, Sits

(* A row that was made visible, without or with its option *)
LEMMA ShownPlace ==
    ASSUME NEW d, Shaped(d), Sits(d)
    PROVE  LET e == Dialog!Clamp(Dialog!Reveal(d))
           IN  InPlace(e) /\ e.editing = d.editing
<1>1. InPlace(Dialog!Reveal(d)) /\ Dialog!Reveal(d).editing = d.editing
    BY RevealPlace
<1>2. Shaped(Dialog!Reveal(d)) /\ Sits(Dialog!Reveal(d))
    BY <1>1, InPlaceSits
<1> QED BY <1>1, <1>2, ClampPlace

(* The cursor moves to a row that can be edited, wherever it was *)
LEMMA MovePlace ==
    ASSUME NEW d, Shaped(d), ~d.editing, NEW delta \in Int,
           d.cursor \in 0..Len(Dialog!Rows(d)) - 1 /\ Dialog!Selecting(d)
             => d.option \in 0..Dialog!Current(d).size - 1
    PROVE  InPlace(Dialog!Move(d, delta)) /\ ~Dialog!Move(d, delta).editing
<1> DEFINE rows  == Dialog!Rows(d)
           P     == {i \in 0..Len(rows) - 1 : Dialog!Editable(rows[i + 1])}
           count == Dialog!Cardinality(P)
           steps == Dialog!Between(-count, delta, count)
           nth   == Dialog!Within(Dialog!Before(P, d.cursor) + steps, count - 1)
           to    == Dialog!Nth(P, nth)
           e     == IF to # d.cursor THEN Dialog!Focus(d, to) ELSE d
<1>1. Dialog!Move(d, delta) = Dialog!Clamp(Dialog!Reveal(e))
    BY DEF Dialog!Move
<1>2. Sized(rows) /\ d.cursor \in Nat /\ Len(rows) \in Nat \ {0}
    BY DialogFacts DEF Sized
<1>3. 0 \in P
    <2> DEFINE tab == d.tab
               cur == d.cur
    <2>1. tab \in 0..Len(Tabs) - 1 /\ Dialog!Typed(cur) /\ rows = RowsAt(tab, cur)
        BY DialogFacts
    <2> HIDE DEF tab, cur, rows
    <2>2. Dialog!Editable(RowsAt(tab, cur)[1])
        BY <2>1, RowOfDialog
    <2> QED BY <1>2, <2>1, <2>2
<1>4. P \in SUBSET Nat /\ IsFiniteSet(P)
    <2>1. P \subseteq 0..Len(rows) - 1 /\ IsFiniteSet(0..Len(rows) - 1)
        BY FS_Interval
    <2>2. P \in SUBSET Nat
        BY <1>2
    <2> QED BY <2>1, <2>2, FS_Subset
<1>5. count = Cardinality(P)
    BY DEF Cardinality, Dialog!Cardinality
<1> HIDE DEF P, count
<1>6. count \in Nat \ {0}
    BY <1>3, <1>4, <1>5, FS_CardinalityType, FS_EmptySet
<1>7. Dialog!Before(P, d.cursor) \in Int
    <2>1. Before(P, d.cursor) \in 0..Cardinality(P)
        <3>1. \A i \in Int : Before(P, i) \in 0..Cardinality(P)
            BY <1>4, Ranks
        <3>2. d.cursor \in Int
            BY <1>2
        <3> QED BY <3>1, <3>2
    <2> QED BY <1>5, <1>6, <2>1, Renamed
<1>8. steps \in Int
    BY <1>6 DEF Dialog!Between, Dialog!Maximum, Dialog!Minimum
<1> HIDE DEF steps
<1>9. nth \in 0..count - 1
    BY <1>6, <1>7, <1>8 DEF Dialog!Within, Dialog!Maximum, Dialog!Minimum
<1> HIDE DEF nth
<1>10. to \in P
    <2>1. Nth(P, nth) \in P
        BY <1>4, <1>5, <1>9, NthPlace
    <2> QED BY <2>1, Renamed
<1> HIDE DEF to
<1>11. to \in 0..Len(rows) - 1 /\ Dialog!Editable(rows[to + 1])
    BY <1>10 DEF P
<1>12. Shaped(e) /\ Sits(e) /\ ~e.editing
    <2>1. CASE to # d.cursor
        BY <1>11, <2>1, FocusSits
    <2>2. CASE to = d.cursor
        <3>1. Dialog!Current(d) = rows[to + 1]
            BY <2>2 DEF Dialog!Current
        <3>2. Sits(d)
            BY <1>11, <2>2, <3>1 DEF Sits
        <3> QED BY <2>2, <3>2
    <2> QED BY <2>1, <2>2
<1> HIDE DEF e
<1> QED BY <1>1, <1>12, ShownPlace

LEMMA SitsMoves ==
    ASSUME NEW d, Shaped(d), Sits(d), ~d.editing, NEW delta \in Int
    PROVE  InPlace(Dialog!Move(d, delta)) /\ ~Dialog!Move(d, delta).editing
<1>1. d.cursor \in 0..Len(Dialog!Rows(d)) - 1 /\ Dialog!Selecting(d)
        => d.option \in 0..Dialog!Current(d).size - 1
    BY DEF Sits
<1> QED BY <1>1, MovePlace

(* The first row of a dialog can be edited, and the last one *)
LEMMA EndsEditable ==
    ASSUME NEW d, Shaped(d)
    PROVE  LET rows == Dialog!Rows(d)
           IN  /\ Len(rows) \in Nat \ {0}
               /\ 0 \in 0..Len(rows) - 1 /\ Dialog!Editable(rows[0 + 1])
               /\ Len(rows) - 1 \in 0..Len(rows) - 1 /\ Dialog!Editable(rows[(Len(rows) - 1) + 1])
<1> DEFINE tab  == d.tab
           cur  == d.cur
           rows == Dialog!Rows(d)
<1>1. tab \in 0..Len(Tabs) - 1 /\ Dialog!Typed(cur) /\ rows = RowsAt(tab, cur)
    BY DialogFacts
<1>2. Len(rows) \in Nat \ {0}
    BY DialogFacts DEF Sized
<1> HIDE DEF tab, cur, rows
<1>3. Dialog!Editable(RowsAt(tab, cur)[1]) /\ Dialog!Editable(RowsAt(tab, cur)[Len(RowsAt(tab, cur))])
    BY <1>1, RowOfDialog
<1>4. 0 + 1 = 1 /\ (Len(rows) - 1) + 1 = Len(rows)
    BY <1>2
<1>5. Dialog!Editable(rows[0 + 1]) /\ Dialog!Editable(rows[(Len(rows) - 1) + 1])
    BY <1>1, <1>3, <1>4
<1>6. 0 \in 0..Len(rows) - 1 /\ Len(rows) - 1 \in 0..Len(rows) - 1
    BY <1>2
<1> QED BY <1>2, <1>5, <1>6 DEF rows

LEMMA FirstRow ==
    ASSUME NEW d, Shaped(d), ~d.editing, NEW delta \in Int
    PROVE  InPlace(Dialog!Move(Dialog!Focus(d, 0), delta))
<1> DEFINE e == Dialog!Focus(d, 0)
<1>1. Shaped(e) /\ Sits(e) /\ ~e.editing
    BY EndsEditable, FocusSits
<1> HIDE DEF e
<1>2. InPlace(Dialog!Move(e, delta))
    BY <1>1, SitsMoves
<1> QED BY <1>2 DEF e

LEMMA SwitchTabPlace ==
    ASSUME NEW d, Shaped(d), ~d.editing, NEW tab \in 0..Len(Tabs) - 1
    PROVE  InPlace(Dialog!SwitchTab(d, tab))
<1> DEFINE e == [d EXCEPT !.tab = tab, !.scroll = 0]
<1>1. e \in Shapes /\ ~e.editing /\ e.cur = d.cur
    <2> DEFINE moved == [d EXCEPT !.tab = tab]
    <2>1. moved \in Shapes /\ ~moved.editing /\ moved.cur = d.cur
        BY DEF Shaped, Shapes
    <2>2. e = [moved EXCEPT !.scroll = 0]
        OBVIOUS
    <2> HIDE DEF moved, e
    <2> QED BY <2>1, <2>2 DEF Shapes
<1>2. Dialog!SwitchTab(d, tab) = Dialog!Move(Dialog!Focus(e, 0), 0)
    BY DEF Dialog!SwitchTab
<1> HIDE DEF e
<1>3. Shaped(e)
    BY <1>1 DEF Shaped
<1> QED BY <1>1, <1>2, <1>3, FirstRow

(* A page turns to a row that can be edited *)
LEMMA TurnRow ==
    ASSUME NEW d, Shaped(d), Sits(d), NEW delta \in Int
    PROVE  LET to == Dialog!Turn(d, delta)
           IN  to \in 0..Len(Dialog!Rows(d)) - 1 /\ Dialog!Editable(Dialog!Rows(d)[to + 1])
<1> DEFINE rows   == Dialog!Rows(d)
           layout == Dialog!Layout(d)
           last   == Len(rows) - 1
           goal == layout[d.cursor].begin + delta
           fits(i) == Dialog!Editable(layout[i].row)
                      /\ IF delta > 0 THEN layout[i].begin >= goal ELSE layout[i].begin <= goal
           down == {i \in d.cursor..last : fits(i) \/ i = last}
           up   == {i \in 0..d.cursor : fits(i) \/ i = 0}
           Good(i) == i \in 0..last /\ Dialog!Editable(rows[i + 1])
           to == Dialog!Turn(d, delta)
<1>1. to = IF delta > 0 THEN CHOOSE i \in down : \A j \in down : i <= j
           ELSE CHOOSE i \in up : \A j \in up : i >= j
    BY DEF Dialog!Turn
<1>2. /\ Len(rows) \in Nat \ {0} /\ last \in Nat /\ d.cursor \in 0..last
      /\ Good(0) /\ Good(last)
    BY EndsEditable DEF Sits
<1>3. \A i \in 0..last : fits(i) => Good(i)
    <2>1. \A i \in 0..last : layout[i].row = rows[i + 1]
        BY DialogFacts, Lines
    <2> HIDE DEF rows, layout, last, goal
    <2> QED BY <2>1
<1> HIDE DEF fits, Good, last, to
<1>4. CASE delta > 0
    <2>1. down \in SUBSET Nat /\ last \in down /\ down # {}
        BY <1>2
    <2>2. \A i \in down : Good(i)
        BY <1>2, <1>3
    <2>3. \E i \in down : \A j \in down : i <= j
        <3> HIDE DEF down
        <3> QED BY <2>1, Least
    <2> HIDE DEF down
    <2>4. to \in down
        BY <1>1, <1>4, <2>3
    <2> QED BY <2>2, <2>4 DEF Good, to, last
<1>5. CASE ~(delta > 0)
    <2>1. up \in SUBSET (0..d.cursor) /\ 0 \in up /\ up # {} /\ d.cursor \in Nat
        BY <1>2
    <2>2. \A i \in up : Good(i)
        BY <1>2, <1>3
    <2>3. \E i \in up : \A j \in up : i >= j
        <3>1. \E i \in up : \A j \in up : j <= i
            <4> HIDE DEF up
            <4> QED BY <2>1, Greatest
        <3>2. \A i, j \in up : j <= i => i >= j
            BY <2>1
        <3> HIDE DEF up
        <3> QED BY <3>1, <3>2
    <2> HIDE DEF up
    <2>4. to \in up
        BY <1>1, <1>5, <2>3
    <2> QED BY <2>2, <2>4 DEF Good, to, last
<1> QED BY <1>4, <1>5

LEMMA DialogNavigatePlace ==
    ASSUME NEW d, InPlace(d), ~d.editing, NEW motion \in Motions(Counts)
    PROVE  InPlace(Dialog!Navigate(d, motion))
<1> DEFINE rows   == Dialog!Rows(d)
           some   == Dialog!Distance(motion, d.height, Len(rows))
           delta  == Dialog!Distance(motion, d.height, Dialog!Total(d))
           turned == Dialog!Focus(d, Dialog!Turn(d, delta))
           paged  == [turned EXCEPT !.scroll = @ + delta]
           next   == Dialog!Navigate(d, motion)
<1>1. Shaped(d) /\ Sits(d)
    BY InPlaceSits
<1>2. /\ Len(rows) \in Nat /\ Dialog!Total(d) \in Nat /\ d.height \in Nat \ {0}
    BY <1>1, DialogFacts DEF Sized
<1>3. some \in Int /\ delta \in Int /\ Len(rows) \in Int
    <2>1. \A tall \in Nat \ {0}, limit \in Nat : Dialog!Distance(motion, tall, limit) \in Int
        BY DistanceType, Renamed
    <2> DEFINE tall  == d.height
               lines == Dialog!Total(d)
               n     == Len(rows)
    <2>2. tall \in Nat \ {0} /\ lines \in Nat /\ n \in Nat
        BY <1>2
    <2> HIDE DEF tall, lines, n
    <2>3. Dialog!Distance(motion, tall, n) \in Int /\ Dialog!Distance(motion, tall, lines) \in Int
        BY <2>1, <2>2
    <2> QED BY <2>2, <2>3 DEF tall, lines, n
<1>4. next = CASE motion.action = "move" -> Dialog!Move(d, some)
               [] motion.action = "last" -> Dialog!Move(Dialog!Focus(d, 0), Len(rows))
               [] motion.action = "line" -> Dialog!Move(Dialog!Focus(d, 0), motion.count - 1)
               [] motion.action \in {"page", "half"} -> Dialog!Clamp(Dialog!Reveal(paged))
               [] OTHER -> Dialog!ScrollBy(d, delta)
    BY DEF Dialog!Navigate
<1> HIDE DEF next, rows, some, delta
<1>5. CASE motion.action = "move"
    <2>1. next = Dialog!Move(d, some)
        BY <1>4, <1>5
    <2> QED BY <1>1, <1>3, <2>1, SitsMoves DEF next
<1>6. CASE motion.action = "last"
    <2>1. next = Dialog!Move(Dialog!Focus(d, 0), Len(rows))
        BY <1>4, <1>6
    <2> QED BY <1>1, <1>3, <2>1, FirstRow DEF next
<1>7. CASE motion.action = "line"
    <2>1. next = Dialog!Move(Dialog!Focus(d, 0), motion.count - 1)
        BY <1>4, <1>7
    <2>2. motion.count \in Counts
        BY <1>7 DEF Motions
    <2>3. motion.count \in Nat
        BY <2>2, MotionsAssumption
    <2>4. motion.count - 1 \in Int
        BY <2>3
    <2> QED BY <1>1, <2>1, <2>4, FirstRow DEF next
<1>8. CASE motion.action \in {"page", "half"}
    <2>1. next = Dialog!Clamp(Dialog!Reveal(paged))
        BY <1>4, <1>8
    <2>2. Shaped(turned) /\ Sits(turned)
        BY <1>1, <1>3, TurnRow, FocusSits
    <2> HIDE DEF turned
    <2>3. turned.scroll + delta \in Int
        <3>1. turned.scroll \in Int
            BY <2>2, DialogFacts
        <3> QED BY <1>3, <3>1
    <2>4. paged = [turned EXCEPT !.scroll = turned.scroll + delta]
        OBVIOUS
    <2>5. Shaped(paged) /\ Sits(paged)
        BY <2>2, <2>3, <2>4, ScrolledTo
    <2> HIDE DEF paged
    <2> QED BY <2>1, <2>5, ShownPlace DEF next
<1>9. CASE motion.action \notin {"move", "last", "line", "page", "half"}
    <2>1. next = Dialog!ScrollBy(d, delta)
        BY <1>4, <1>9
    <2> QED BY <1>3, <2>1, ScrollByPlace DEF next
<1> QED BY <1>5, <1>6, <1>7, <1>8, <1>9 DEF next

-----------------------------------------------------------------------------
(* The settings of a dialog *)

(* A field or a list that is set to a value of its own leaves the settings in  *)
(* their types                                                              *)
LEMMA FieldSet ==
    ASSUME NEW cur \in Values, Dialog!Typed(cur), NEW field \in Dialog!Fields, NEW value,
           field.kind = "enum" => value \in -1..field.size - 1,
           field.kind = "multi" => value \in SUBSET Nat,
           field.kind = "text" => value \in Nat
    PROVE  LET next == [cur EXCEPT ![field.name] = value]
           IN  next \in Values /\ Dialog!Typed(next)
<1> DEFINE next == [cur EXCEPT ![field.name] = value]
<1>1. /\ field.kind \in {"enum", "multi", "text"} /\ field.size \in Nat
      /\ field.name \in Dialog!Names /\ field.name \notin Dialog!Lists
      /\ \A other \in Dialog!Fields : other.name = field.name => other = field
    BY FieldFacts
<1>2. value \in Int \cup (SUBSET Nat) \cup Seq(Rules)
    BY <1>1
<1>3. /\ next \in Values /\ next[field.name] = value
      /\ \A name \in Dialog!Names : name # field.name => next[name] = cur[name]
    BY <1>1, <1>2 DEF Values
<1> HIDE DEF next
<1>4. next = [name \in Dialog!Names |-> next[name]]
    BY <1>3 DEF Values
<1>5. \A name \in Dialog!Lists : next[name] \in Seq(Rules)
    BY <1>1, <1>3 DEF Dialog!Typed, Dialog!Names
<1>6. ASSUME NEW other \in Dialog!Fields
      PROVE  CASE other.kind = "enum"  -> next[other.name] \in -1..other.size - 1
               [] other.kind = "multi" -> next[other.name] \in SUBSET Nat
               [] OTHER                -> next[other.name] \in Nat
    <2>1. other.kind \in {"enum", "multi", "text"} /\ other.name \in Dialog!Names
        BY FieldFacts
    <2>2. CASE other.name = field.name
        <3>1. other = field
            BY <1>1, <2>2
        <3> QED BY <1>1, <1>3, <3>1
    <2>3. CASE other.name # field.name
        <3>1. next[other.name] = cur[other.name]
            BY <1>3, <2>1, <2>3
        <3> QED BY <3>1 DEF Dialog!Typed
    <2> QED BY <2>2, <2>3
<1> QED BY <1>3, <1>4, <1>5, <1>6 DEF Dialog!Typed, next

LEMMA ListSet ==
    ASSUME NEW cur \in Values, Dialog!Typed(cur), NEW list \in Dialog!Lists, NEW rules \in Seq(Rules)
    PROVE  LET next == [cur EXCEPT ![list] = rules]
           IN  next \in Values /\ Dialog!Typed(next)
<1> DEFINE next == [cur EXCEPT ![list] = rules]
<1>1. list \in Dialog!Names
    BY DEF Dialog!Names
<1>2. /\ next \in Values /\ next[list] = rules
      /\ \A name \in Dialog!Names : name # list => next[name] = cur[name]
    BY <1>1 DEF Values
<1> HIDE DEF next
<1>3. next = [name \in Dialog!Names |-> next[name]]
    BY <1>2 DEF Values
<1>4. ASSUME NEW name \in Dialog!Lists PROVE next[name] \in Seq(Rules)
    <2>1. name \in Dialog!Names
        BY DEF Dialog!Names
    <2> QED BY <1>2, <2>1 DEF Dialog!Typed
<1>5. ASSUME NEW field \in Dialog!Fields
      PROVE  CASE field.kind = "enum"  -> next[field.name] \in -1..field.size - 1
               [] field.kind = "multi" -> next[field.name] \in SUBSET Nat
               [] OTHER                -> next[field.name] \in Nat
    <2>1. field.name \in Dialog!Names /\ field.name # list
        BY FieldFacts
    <2>2. next[field.name] = cur[field.name]
        BY <1>2, <2>1
    <2> QED BY <2>2 DEF Dialog!Typed
<1> QED BY <1>2, <1>3, <1>4, <1>5 DEF Dialog!Typed, next

(* The row under the cursor is that of a field, whatever the lists are, or one *)
(* of a list                                                                *)
OnField(d) == d.cursor + 1 <= Len(FieldsOf(d.tab))

LEMMA RowUnderCursor ==
    ASSUME NEW d, Shaped(d)
    PROVE  /\ OnField(d) => /\ d.cursor \in 0..Len(Dialog!Rows(d)) - 1
                            /\ Dialog!Current(d) = FieldRows(d.tab)[d.cursor + 1]
                            /\ FieldRow(Dialog!Current(d))
           /\ d.cursor \in 0..Len(Dialog!Rows(d)) - 1 /\ ~OnField(d)
                => Dialog!Current(d) \in ListRow(d.cur)
<1> DEFINE tab  == d.tab
           cur  == d.cur
           rows == RowsAt(tab, cur)
           n    == Len(FieldsOf(tab))
           i    == d.cursor + 1
<1>1. tab \in 0..Len(Tabs) - 1 /\ Dialog!Typed(cur) /\ Dialog!Rows(d) = rows /\ d.cursor \in Nat
    BY DialogFacts
<1>2. Dialog!Current(d) = rows[i] /\ (OnField(d) <=> i <= n)
    BY <1>1 DEF Dialog!Current, OnField
<1> HIDE DEF tab, cur
<1>3. /\ n \in Nat /\ Len(rows) \in Nat /\ n <= Len(rows)
      /\ \A j \in 1..n : rows[j] = FieldRows(tab)[j] /\ FieldRow(rows[j])
      /\ \A j \in n + 1..Len(rows) : rows[j] \in ListRow(cur)
    BY <1>1, RowOfDialog
<1> HIDE DEF rows, n
<1>4. /\ i <= n => i \in 1..n /\ d.cursor \in 0..Len(rows) - 1
      /\ d.cursor \in 0..Len(rows) - 1 /\ ~(i <= n) => i \in n + 1..Len(rows)
    BY <1>1, <1>3
<1> QED BY <1>1, <1>2, <1>3, <1>4 DEF tab, cur

LEMMA FieldKinds ==
    ASSUME NEW d, Shaped(d), d.cursor \in 0..Len(Dialog!Rows(d)) - 1
    PROVE  /\ Dialog!Current(d).kind \in {"enum", "multi", "text"} <=> OnField(d)
           /\ Dialog!Selecting(d) => OnField(d) /\ Dialog!Current(d).size \in Nat \ {0}
<1>1. CASE OnField(d)
    <2>1. PICK field \in Dialog!Fields :
              Dialog!Current(d).kind = field.kind /\ Dialog!Current(d).size = field.size
        BY <1>1, RowUnderCursor DEF FieldRow
    <2> QED BY <1>1, <2>1, FieldFacts DEF Dialog!Selecting
<1>2. CASE ~OnField(d)
    <2>1. Dialog!Current(d) \in ListRow(d.cur)
        BY <1>2, RowUnderCursor
    <2> QED BY <1>2, <2>1 DEF ListRow, Dialog!Selecting
<1> QED BY <1>1, <1>2

(* A field stays under the cursor when values change *)
LEMMA FieldStays ==
    ASSUME NEW d, Shaped(d), Sits(d), Dialog!Selecting(d),
           NEW e, Shaped(e), e.tab = d.tab, e.cursor = d.cursor, e.editing = d.editing,
           e.option \in 0..Dialog!Current(d).size - 1
    PROVE  Sits(e)
<1>1. OnField(d) /\ OnField(e)
    BY FieldKinds DEF Sits, OnField
<1>2. Dialog!Current(e) = Dialog!Current(d) /\ e.cursor \in 0..Len(Dialog!Rows(e)) - 1
    BY <1>1, RowUnderCursor
<1> QED BY <1>2 DEF Sits, Dialog!Selecting

(* ... and a row without options does not become one with them *)
LEMMA OtherMoves ==
    ASSUME NEW d, Shaped(d), Sits(d), ~Dialog!Selecting(d),
           NEW e, Shaped(e), e.tab = d.tab, e.cursor = d.cursor, ~e.editing
    PROVE  InPlace(Dialog!Move(e, 0))
<1>1. ASSUME e.cursor \in 0..Len(Dialog!Rows(e)) - 1, Dialog!Selecting(e)
      PROVE  FALSE
    <2>1. OnField(e) /\ OnField(d)
        BY <1>1, FieldKinds DEF OnField
    <2>2. Dialog!Current(e) = Dialog!Current(d)
        BY <2>1, RowUnderCursor
    <2> QED BY <1>1, <2>2 DEF Dialog!Selecting
<1>2. 0 \in Int
    OBVIOUS
<1> QED BY <1>1, <1>2, MovePlace

LEMMA StepPlace ==
    ASSUME NEW d, InPlace(d), ~d.editing, NEW delta \in {-1, 1}
    PROVE  InPlace(Dialog!Step(d, delta))
<1> DEFINE row  == Dialog!Current(d)
           next == (d.cur[row.name] + delta + row.size) % row.size
           changed == [d.cur EXCEPT ![row.name] = next]
           turned == [[d EXCEPT !.option = next] EXCEPT !.cur = changed]
           to     == Dialog!Within(d.option + delta, row.size - 1)
           moved  == [d EXCEPT !.option = to]
           after  == Dialog!Step(d, delta)
<1>1. Shaped(d) /\ Sits(d) /\ d.cursor \in 0..Len(Dialog!Rows(d)) - 1
    BY InPlaceSits DEF Sits
<1>2. after = CASE row.kind = "enum" ->
                     Dialog!Clamp([d EXCEPT !.option = next, !.cur = [@ EXCEPT ![row.name] = next]])
                [] row.kind = "multi" -> Dialog!Clamp(moved)
                [] OTHER -> d
    BY DEF Dialog!Step
<1>3. [d EXCEPT !.option = next, !.cur = [@ EXCEPT ![row.name] = next]] = turned
    BY <1>1 DEF Shaped, Shapes
<1>4. d.cur \in Values /\ Dialog!Typed(d.cur) /\ d.option \in Int
    BY <1>1 DEF Shaped, Shapes
<1> HIDE DEF after
<1>5. CASE row.kind = "enum"
    <2>1. OnField(d) /\ row.size \in Nat \ {0} /\ Dialog!Selecting(d)
        BY <1>1, <1>5, FieldKinds DEF Dialog!Selecting
    <2>2. PICK field \in Dialog!Fields :
              row.kind = field.kind /\ row.name = field.name /\ row.size = field.size
        BY <1>1, <2>1, RowUnderCursor DEF FieldRow
    <2>3. d.cur[row.name] \in -1..row.size - 1
        BY <1>4, <1>5, <2>2 DEF Dialog!Typed
    <2> HIDE DEF row
    <2>4. next \in 0..row.size - 1
        <3> DEFINE value == d.cur[row.name]
                   size  == row.size
        <3>1. value \in -1..size - 1 /\ size \in Nat \ {0}
            BY <2>1, <2>3
        <3> HIDE DEF value, size
        <3>2. value + delta + size \in Int
            BY <3>1
        <3>3. (value + delta + size) % size \in 0..size - 1
            BY <3>1, <3>2
        <3> QED BY <3>3 DEF value, size
    <2> HIDE DEF next
    <2>5. next \in Int /\ next \in -1..row.size - 1
        BY <2>1, <2>4
    <2>6. changed \in Values /\ Dialog!Typed(changed)
        BY <1>4, <1>5, <2>2, <2>5, FieldSet
    <2> HIDE DEF changed
    <2>7. /\ turned \in Shapes /\ turned.editing = d.editing /\ turned.tab = d.tab
          /\ turned.cursor = d.cursor /\ turned.cur = changed /\ turned.option = next
        <3> DEFINE e == [d EXCEPT !.option = next]
        <3>1. /\ e \in Shapes /\ e.editing = d.editing /\ e.tab = d.tab
              /\ e.cursor = d.cursor /\ e.option = next
            BY <1>1, <2>5 DEF Shaped, Shapes
        <3>2. turned = [e EXCEPT !.cur = changed]
            OBVIOUS
        <3> HIDE DEF e, turned
        <3> QED BY <2>6, <3>1, <3>2 DEF Shapes
    <2> HIDE DEF turned
    <2>8. Shaped(turned)
        BY <2>6, <2>7 DEF Shaped
    <2>9. Sits(turned)
        BY <1>1, <2>1, <2>4, <2>7, <2>8, FieldStays DEF row
    <2>10. after = Dialog!Clamp(turned)
        BY <1>2, <1>3, <1>5
    <2> QED BY <2>8, <2>9, <2>10, ClampPlace DEF after
<1>6. CASE row.kind = "multi"
    <2>1. row.size \in Nat \ {0} /\ Dialog!Selecting(d)
        BY <1>1, <1>6, FieldKinds DEF Dialog!Selecting
    <2> HIDE DEF row
    <2>2. to \in 0..row.size - 1 /\ to \in Int
        BY <1>4, <2>1 DEF Dialog!Within, Dialog!Maximum, Dialog!Minimum
    <2> HIDE DEF to
    <2>3. /\ moved \in Shapes /\ moved.editing = d.editing /\ moved.tab = d.tab
          /\ moved.cursor = d.cursor /\ moved.cur = d.cur /\ moved.option = to
        BY <1>1, <2>2 DEF Shaped, Shapes
    <2>4. after = Dialog!Clamp(moved)
        BY <1>2, <1>6
    <2> HIDE DEF moved
    <2>5. Shaped(moved)
        BY <1>4, <2>3 DEF Shaped
    <2>6. Sits(moved)
        BY <1>1, <2>1, <2>2, <2>3, <2>5, FieldStays DEF row
    <2> QED BY <2>4, <2>5, <2>6, ClampPlace DEF after
<1>7. CASE row.kind \notin {"enum", "multi"}
    <2>1. after = d
        BY <1>2, <1>7
    <2> QED BY <2>1 DEF after
<1> QED BY <1>5, <1>6, <1>7

(* What is chosen at the row under the cursor *)
LEMMA ChosenPlace ==
    ASSUME NEW d, Shaped(d), Sits(d), ~d.editing
    PROVE  InPlace(Dialog!Chosen(d, Dialog!Current(d)))
<1> DEFINE row  == Dialog!Current(d)
           set  == d.cur[row.name]
           flip == IF d.option \in set THEN set \ {d.option} ELSE set \cup {d.option}
           value == IF row.kind = "multi" THEN flip ELSE d.option
           changed == [d.cur EXCEPT ![row.name] = value]
           picked  == [d EXCEPT !.cur = changed]
           input   == [d EXCEPT !.editing = TRUE]
           after == Dialog!Chosen(d, row)
<1>1. d.cursor \in 0..Len(Dialog!Rows(d)) - 1
    BY DEF Sits
<1>2. d.cur \in Values /\ Dialog!Typed(d.cur) /\ d.option \in Int
    BY DEF Shaped, Shapes
<1>3. after = Dialog!Clamp(CASE row.kind = "multi" -> [d EXCEPT !.cur = [@ EXCEPT ![row.name] = flip]]
                             [] row.kind = "enum" -> [d EXCEPT !.cur = [@ EXCEPT ![row.name] = d.option]]
                             [] OTHER -> input)
    BY DEF Dialog!Chosen
<1> HIDE DEF after
<1>4. CASE row.kind \in {"enum", "multi"}
    <2>1. OnField(d) /\ row.size \in Nat \ {0} /\ Dialog!Selecting(d)
        BY <1>1, <1>4, FieldKinds DEF Dialog!Selecting
    <2>2. PICK field \in Dialog!Fields :
              row.kind = field.kind /\ row.name = field.name /\ row.size = field.size
        BY <2>1, RowUnderCursor DEF FieldRow
    <2>3. d.option \in 0..row.size - 1
        BY <2>1 DEF Sits
    <2>4. row.kind = "multi" => flip \in SUBSET Nat
        <3> SUFFICES ASSUME row.kind = "multi" PROVE flip \in SUBSET Nat
            OBVIOUS
        <3>1. d.cur[row.name] \in SUBSET Nat
            BY <1>2, <2>2 DEF Dialog!Typed
        <3>2. d.option \in Nat
            BY <2>1, <2>3
        <3> QED BY <3>1, <3>2
    <2>5. after = Dialog!Clamp(picked)
        BY <1>3, <1>4
    <2> HIDE DEF flip, row
    <2>6. /\ field.kind = "enum" => value \in -1..field.size - 1
          /\ field.kind = "multi" => value \in SUBSET Nat
        BY <2>1, <2>2, <2>3, <2>4
    <2>7. changed \in Values /\ Dialog!Typed(changed)
        <3>1. field.kind # "text"
            BY <1>4, <2>2
        <3> HIDE DEF value
        <3> QED BY <1>2, <2>2, <2>6, <3>1, FieldSet
    <2> HIDE DEF changed
    <2>8. /\ picked \in Shapes /\ picked.editing = d.editing /\ picked.tab = d.tab
          /\ picked.cursor = d.cursor /\ picked.cur = changed /\ picked.option = d.option
        BY <2>7 DEF Shaped, Shapes
    <2> HIDE DEF picked
    <2>9. Shaped(picked)
        BY <2>7, <2>8 DEF Shaped
    <2>10. Sits(picked)
        BY <2>1, <2>3, <2>8, <2>9, FieldStays DEF row
    <2> QED BY <2>5, <2>9, <2>10, ClampPlace DEF after, row
<1>5. CASE row.kind \notin {"enum", "multi"}
    <2>1. after = Dialog!Clamp(input)
        BY <1>3, <1>5
    <2>2. /\ input \in Shapes /\ input.tab = d.tab /\ input.cursor = d.cursor /\ input.cur = d.cur
          /\ input.option = d.option
        BY DEF Shaped, Shapes
    <2> HIDE DEF input
    <2>3. Shaped(input)
        BY <1>2, <2>2 DEF Shaped
    <2>4. Dialog!Rows(input) = Dialog!Rows(d)
        BY <2>2, RowsOfDialog
    <2>5. Dialog!Current(input) = row
        BY <2>2, <2>4 DEF Dialog!Current
    <2>6. Sits(input)
        BY <1>5, <2>2, <2>4, <2>5 DEF Sits, Dialog!Selecting
    <2> QED BY <2>1, <2>3, <2>6, ClampPlace DEF after
<1> QED BY <1>4, <1>5

LEMMA ActivatePlace ==
    ASSUME NEW d, Shaped(d), Sits(d), ~d.editing
    PROVE  InPlace(Dialog!Activate(d))
<1> DEFINE at == Dialog!Move(d, 0)
<1>1. InPlace(at) /\ ~at.editing
    BY SitsMoves
<1>2. Dialog!Activate(d) = Dialog!Chosen(at, Dialog!Current(at))
    BY DEF Dialog!Activate
<1> HIDE DEF at
<1> QED BY <1>1, <1>2, InPlaceSits, ChosenPlace

(* The rules that an entry leaves when it is removed, and those it is written   *)
(* into                                                                     *)
LEMMA RemovedType ==
    ASSUME NEW d, Shaped(d), Sits(d)
    PROVE  LET cur == Dialog!Removed(d, Dialog!Current(d))
           IN  cur \in Values /\ Dialog!Typed(cur)
<1> DEFINE row   == Dialog!Current(d)
           rules == d.cur[row.name]
           next  == Dialog!RemoveAt(rules, row.index)
<1>1. d.cur \in Values /\ Dialog!Typed(d.cur)
    BY DEF Shaped, Shapes
<1>2. CASE row.kind = "entry"
    <2>1. ~OnField(d)
        BY <1>2, FieldKinds DEF Sits
    <2>2. row \in ListRow(d.cur)
        BY <2>1, RowUnderCursor DEF Sits
    <2>3. row.name \in Dialog!Lists /\ row.index \in 1..Len(rules)
        BY <1>2, <2>2 DEF ListRow
    <2>4. Dialog!Removed(d, row) = [d.cur EXCEPT ![row.name] = next]
        <3>1. Dialog!Removed(d, row) = [d.cur EXCEPT ![row.name] = Dialog!RemoveAt(@, row.index)]
            BY <1>2 DEF Dialog!Removed
        <3>2. row.name \in DOMAIN d.cur
            BY <1>1, <2>3 DEF Values, Dialog!Names
        <3> QED BY <3>1, <3>2
    <2>5. rules \in Seq(Rules)
        BY <1>1, <2>3 DEF Dialog!Typed
    <2> DEFINE i == row.index
    <2>6. next = SubSeq(rules, 1, i - 1) \o SubSeq(rules, i + 1, Len(rules))
        BY DEF Dialog!RemoveAt
    <2> HIDE DEF rules, row, i
    <2>7. i \in 1..Len(rules) /\ Len(rules) \in Nat
        BY <2>3, <2>5 DEF i
    <2>8. SubSeq(rules, 1, i - 1) \in Seq(Rules) /\ SubSeq(rules, i + 1, Len(rules)) \in Seq(Rules)
        BY <2>5, <2>7
    <2> HIDE DEF next
    <2>9. next \in Seq(Rules)
        BY <2>6, <2>8
    <2> QED BY <1>1, <2>3, <2>4, <2>9, ListSet DEF row
<1>3. CASE row.kind # "entry"
    BY <1>1, <1>3 DEF Dialog!Removed
<1> QED BY <1>2, <1>3

LEMMA WrittenType ==
    ASSUME NEW d, Shaped(d), Sits(d), ~OnField(d), NEW rule \in Rules
    PROVE  LET cur == Dialog!Written(d, Dialog!Current(d), rule)
           IN  cur \in Values /\ Dialog!Typed(cur)
<1> DEFINE row   == Dialog!Current(d)
           rules == d.cur[row.name]
           next  == CASE row.kind = "entry" -> [rules EXCEPT ![row.index] = rule]
                      [] row.kind = "add" /\ Dialog!Has(rules, rule) -> rules
                      [] OTHER -> Append(rules, rule)
<1>1. d.cur \in Values /\ Dialog!Typed(d.cur)
    BY DEF Shaped, Shapes
<1>2. row \in ListRow(d.cur)
    BY RowUnderCursor DEF Sits
<1>3. row.name \in Dialog!Lists /\ rules \in Seq(Rules)
    BY <1>1, <1>2 DEF ListRow, Dialog!Typed
<1>4. Dialog!Written(d, row, rule) = [d.cur EXCEPT ![row.name] = next]
    BY DEF Dialog!Written
<1> HIDE DEF rules, row
<1>5. next \in Seq(Rules)
    <2>1. [rules EXCEPT ![row.index] = rule] \in Seq(Rules)
        <3> DEFINE written == [rules EXCEPT ![row.index] = rule]
        <3>1. Len(rules) \in Nat /\ rules \in [1..Len(rules) -> Rules]
            BY <1>3
        <3>2. written \in [1..Len(rules) -> Rules]
            BY <3>1
        <3> HIDE DEF written
        <3>3. written \in Seq(Rules)
            BY <3>1, <3>2
        <3> QED BY <3>3 DEF written
    <2>2. Append(rules, rule) \in Seq(Rules)
        BY <1>3
    <2> QED BY <1>3, <2>1, <2>2
<1> HIDE DEF next
<1> QED BY <1>1, <1>3, <1>4, <1>5, ListSet DEF row

LEMMA DeletePlace ==
    ASSUME NEW d, InPlace(d), ~d.editing
    PROVE  InPlace(Dialog!Delete(d))
<1> DEFINE row == Dialog!Current(d)
           cur == Dialog!Removed(d, row)
           e   == [d EXCEPT !.cur = cur]
<1>1. Shaped(d) /\ Sits(d)
    BY InPlaceSits
<1>2. cur \in Values /\ Dialog!Typed(cur)
    BY <1>1, RemovedType
<1>3. CASE row.kind = "entry"
    <2>1. Dialog!Delete(d) = Dialog!Move(e, 0) /\ ~Dialog!Selecting(d)
        BY <1>3 DEF Dialog!Delete, Dialog!Selecting
    <2> HIDE DEF cur
    <2>2. /\ e \in Shapes /\ ~e.editing /\ e.tab = d.tab /\ e.cursor = d.cursor /\ e.cur = cur
        BY <1>1, <1>2 DEF Shaped, Shapes
    <2> HIDE DEF e
    <2>3. Shaped(e)
        BY <1>2, <2>2 DEF Shaped
    <2> QED BY <1>1, <2>1, <2>2, <2>3, OtherMoves
<1>4. CASE row.kind # "entry"
    BY <1>4 DEF Dialog!Delete
<1> QED BY <1>3, <1>4

(* The end of an edit *)
LEMMA DonePlace ==
    ASSUME NEW d, Shaped(d), Sits(d), d.editing, NEW cur \in Values, Dialog!Typed(cur)
    PROVE  InPlace(Dialog!Move([d EXCEPT !.editing = FALSE, !.cur = cur], 0))
<1> DEFINE closed == [d EXCEPT !.editing = FALSE]
           e      == [closed EXCEPT !.cur = cur]
<1>1. closed \in Shapes /\ ~closed.editing /\ closed.tab = d.tab /\ closed.cursor = d.cursor
    BY DEF Shaped, Shapes
<1>2. e = [d EXCEPT !.editing = FALSE, !.cur = cur]
    OBVIOUS
<1> HIDE DEF closed
<1>3. e \in Shapes /\ ~e.editing /\ e.tab = d.tab /\ e.cursor = d.cursor /\ e.cur = cur
    BY <1>1 DEF Shapes
<1> HIDE DEF e
<1>4. Shaped(e)
    BY <1>3 DEF Shaped
<1>5. InPlace(Dialog!Move(e, 0))
    BY <1>3, <1>4, OtherMoves DEF Sits
<1> QED BY <1>2, <1>5

LEMMA EscapedPlace ==
    ASSUME NEW d, InPlace(d), d.editing
    PROVE  InPlace([d EXCEPT !.editing = FALSE])
<1> DEFINE e == [d EXCEPT !.editing = FALSE]
<1>1. Shaped(d) /\ Sits(d) /\ d.scroll \in 0..Dialog!Total(d) - 1
    BY InPlaceSits DEF InPlace, Dialog!InBounds
<1>2. /\ e \in Shapes /\ e.editing = FALSE /\ e.tab = d.tab /\ e.cursor = d.cursor /\ e.cur = d.cur
      /\ e.option = d.option /\ e.scroll = d.scroll
    BY <1>1 DEF Shaped, Shapes
<1> HIDE DEF e
<1>3. Shaped(e)
    BY <1>1, <1>2 DEF Shaped
<1>4. Dialog!Rows(e) = Dialog!Rows(d)
    BY <1>2, RowsOfDialog
<1>5. Dialog!Current(e) = Dialog!Current(d)
    BY <1>2, <1>4 DEF Dialog!Current
<1>6. Sits(e)
    BY <1>1, <1>2, <1>4, <1>5 DEF Sits, Dialog!Selecting
<1>7. Dialog!Total(d) <= Dialog!Total(e) /\ Dialog!Total(d) \in Nat /\ Dialog!Total(e) \in Nat
    <2>1. /\ Dialog!Total(d) = TotalAt(Dialog!Rows(d), d.cursor, TRUE) /\ Sized(Dialog!Rows(d))
          /\ Dialog!Total(d) \in Nat
        BY <1>1, DialogFacts
    <2>2. Dialog!Total(e) = TotalAt(Dialog!Rows(d), d.cursor, FALSE) /\ Dialog!Total(e) \in Nat
        BY <1>2, <1>3, <1>4, DialogFacts
    <2> QED BY <2>1, <2>2, EditsLower
<1>8. e.scroll \in 0..Dialog!Total(e) - 1
    BY <1>1, <1>2, <1>7
<1> QED BY <1>3, <1>6, <1>8 DEF InPlace, Dialog!InBounds, Sits, e

LEMMA EditsPlace ==
    ASSUME NEW d, InPlace(d), d.editing, NEW e \in Dialog!Edits(d)
    PROVE  InPlace(e)
<1> DEFINE row     == Dialog!Current(d)
           done(c) == Dialog!Move([d EXCEPT !.editing = FALSE, !.cur = c], 0)
<1>1. Shaped(d) /\ Sits(d) /\ ~Dialog!Selecting(d)
    BY InPlaceSits DEF Sits
<1>2. d.cur \in Values /\ Dialog!Typed(d.cur)
    BY <1>1 DEF Shaped, Shapes
<1>3. \A cur \in Values : Dialog!Typed(cur) => InPlace(done(cur))
    BY <1>1, DonePlace
<1> HIDE DEF done
<1>4. \/ e = [d EXCEPT !.editing = FALSE] \/ e = d
      \/ row.kind = "text" /\ \E text \in 0..1 : e = done([d.cur EXCEPT ![row.name] = text])
      \/ row.kind # "text" /\ e = done(Dialog!Removed(d, row))
      \/ row.kind # "text" /\ \E rule \in Rules : e = done(Dialog!Written(d, row, rule))
    BY DEF Dialog!Edits, done
<1>5. ASSUME NEW text \in 0..1, row.kind = "text", e = done([d.cur EXCEPT ![row.name] = text])
      PROVE  InPlace(e)
    <2>1. OnField(d)
        BY <1>1, <1>5, FieldKinds DEF Sits
    <2>2. PICK field \in Dialog!Fields : row.kind = field.kind /\ row.name = field.name
        BY <1>1, <2>1, RowUnderCursor DEF FieldRow
    <2> DEFINE cur == [d.cur EXCEPT ![row.name] = text]
    <2> HIDE DEF row
    <2>3. cur \in Values /\ Dialog!Typed(cur)
        <3>1. text \in Nat /\ field.kind = "text"
            BY <1>5, <2>2
        <3> QED BY <1>2, <2>2, <3>1, FieldSet
    <2> HIDE DEF cur
    <2> QED BY <1>3, <1>5, <2>3 DEF cur
<1>6. row.kind # "text" => ~OnField(d)
    BY <1>1, FieldKinds DEF Sits, Dialog!Selecting
<1>7. ASSUME NEW rule \in Rules, row.kind # "text", e = done(Dialog!Written(d, row, rule))
      PROVE  InPlace(e)
    BY <1>1, <1>3, <1>6, <1>7, WrittenType
<1>8. ASSUME e = done(Dialog!Removed(d, row)) PROVE InPlace(e)
    BY <1>1, <1>3, <1>8, RemovedType
<1> QED BY <1>4, <1>5, <1>7, <1>8, EscapedPlace

(* A line of the dialog is in a row, and in the option of its field            *)
LEMMA ClickPlace ==
    ASSUME NEW d, InPlace(d), ~d.editing, NEW line \in Nat
    PROVE  InPlace(Dialog!Click(d, line))
<1> DEFINE rows   == Dialog!Rows(d)
           layout == Dialog!Layout(d)
           hit    == {i \in DOMAIN layout :
                         /\ d.scroll + line >= layout[i].begin /\ d.scroll + line < layout[i].end
                         /\ Dialog!Editable(layout[i].row)}
           selects(i) == layout[i].row.kind \in {"enum", "multi"}
           option(i)  == d.scroll + line - layout[i].begin - 1
           result(i)  == Dialog!Clicked(d, i, selects(i), option(i))
<1>1. Shaped(d) /\ Sits(d) /\ d.scroll \in Int
    BY InPlaceSits, DialogFacts
<1>2. Dialog!Click(d, line)
        = IF hit = {} THEN d ELSE CHOOSE next \in {result(i) : i \in hit} : TRUE
    BY DEF Dialog!Click
<1>3. ASSUME NEW i \in hit PROVE InPlace(result(i))
    <2>1. /\ i \in DOMAIN layout /\ d.scroll + line < layout[i].end
          /\ Dialog!Editable(layout[i].row)
        OBVIOUS
    <2>2. Sized(rows) /\ layout = LayoutAt(rows, d.cursor, d.editing)
        BY <1>1, DialogFacts
    <2>3. i \in 0..Len(rows) - 1
        BY <2>1, <2>2 DEF LayoutAt
    <2>4. /\ layout[i].row = rows[i + 1] /\ layout[i].begin \in Nat
          /\ layout[i].end = layout[i].begin + HeightAt(rows, d.cursor, d.editing, i + 1)
        BY <2>2, <2>3, Lines
    <2>5. CASE i # d.cursor
        <3> DEFINE e == Dialog!Focus(d, i)
        <3>1. Shaped(e) /\ Sits(e) /\ ~e.editing
            BY <1>1, <2>1, <2>3, <2>4, FocusSits
        <3>2. result(i) = Dialog!Move(e, 0)
            BY <2>5 DEF Dialog!Clicked
        <3> HIDE DEF e, result
        <3>3. 0 \in Int
            OBVIOUS
        <3> QED BY <3>1, <3>2, <3>3, SitsMoves
    <2>6. CASE i = d.cursor /\ selects(i) /\ option(i) < 0
        <3>1. result(i) = d
            BY <2>6 DEF Dialog!Clicked
        <3> QED BY <3>1
    <2>7. CASE i = d.cursor /\ ~selects(i)
        <3>1. result(i) = Dialog!Activate(d)
            BY <2>7 DEF Dialog!Clicked
        <3> QED BY <1>1, <3>1, ActivatePlace
    <2>8. CASE i = d.cursor /\ selects(i) /\ ~(option(i) < 0)
        <3> DEFINE to == option(i)
                   e  == [d EXCEPT !.option = to]
        <3>1. result(i) = Dialog!Activate(e)
            BY <2>8 DEF Dialog!Clicked
        <3>2. Dialog!Current(d) = rows[i + 1] /\ Dialog!Selecting(d)
            BY <2>4, <2>8 DEF Dialog!Current, Dialog!Selecting
        <3>3. Dialog!Current(d).size \in Nat \ {0}
            BY <1>1, <3>2, FieldKinds DEF Sits
        <3>4. HeightAt(rows, d.cursor, d.editing, i + 1) = 1 + Dialog!Current(d).size
            <4>1. ~Dialog!Bare(rows[i + 1]) /\ Dialog!Editable(rows[i + 1])
                BY <3>2 DEF Dialog!Selecting, Dialog!Bare, Dialog!Editable
            <4>2. HeightAt(rows, d.cursor, d.editing, i + 1)
                    = 1 + Dialog!Maximum(rows[i + 1].size, 1)
                BY <2>8, <4>1 DEF HeightAt
            <4> DEFINE size == rows[i + 1].size
            <4>3. Dialog!Maximum(size, 1) = size
                <5>1. size \in Nat \ {0}
                    BY <3>2, <3>3
                <5> HIDE DEF size
                <5> QED BY <5>1 DEF Dialog!Maximum
            <4> QED BY <3>2, <4>2, <4>3
        <3>5. to \in 0..Dialog!Current(d).size - 1 /\ to \in Int
            <4> DEFINE begin == layout[i].begin
                       end   == layout[i].end
                       size  == Dialog!Current(d).size
                       top   == d.scroll
            <4>1. begin \in Nat /\ end = begin + (1 + size) /\ size \in Nat /\ top \in Int
                BY <1>1, <2>4, <3>3, <3>4
            <4>2. top + line < end /\ ~(to < 0) /\ to = top + line - begin - 1
                BY <2>1, <2>8
            <4> HIDE DEF begin, end, size, top, to
            <4> QED BY <4>1, <4>2 DEF size
        <3> HIDE DEF to
        <3>6. /\ e \in Shapes /\ e.editing = d.editing /\ e.tab = d.tab /\ e.cursor = d.cursor
              /\ e.cur = d.cur /\ e.option = to
            BY <1>1, <3>5 DEF Shaped, Shapes
        <3> HIDE DEF e
        <3>7. Shaped(e)
            BY <1>1, <3>6 DEF Shaped
        <3>8. Sits(e) /\ ~e.editing
            BY <1>1, <3>2, <3>5, <3>6, <3>7, FieldStays
        <3> QED BY <3>1, <3>7, <3>8, ActivatePlace
    <2> QED BY <2>5, <2>6, <2>7, <2>8
<1> HIDE DEF hit, result
<1> QED BY <1>2, <1>3

(* What the keys and the mouse make of a dialog in its bounds is one *)
LEMMA NextPlace ==
    ASSUME NEW d, InPlace(d), NEW e \in Dialog!Next(d, Motions(Counts))
    PROVE  InPlace(e)
<1>1. CASE d.editing
    BY <1>1, EditsPlace DEF Dialog!Next
<1>2. CASE ~d.editing
    <2>1. \/ \E motion \in Motions(Counts) : e = Dialog!Navigate(d, motion)
          \/ \E delta \in {-1, 1} : e = Dialog!Step(d, delta)
          \/ \E tab \in 0..Len(Tabs) - 1 : e = Dialog!SwitchTab(d, tab)
          \/ e = Dialog!Activate(d) \/ e = Dialog!Delete(d)
          \/ \E line \in 0..d.height - 1 : e = Dialog!Click(d, line)
          \/ \E delta \in {-3, 3} : e = Dialog!ScrollBy(d, delta)
        BY <1>2 DEF Dialog!Next
    <2>2. Shaped(d) /\ Sits(d) /\ d.height \in Nat \ {0}
        BY InPlaceSits, DialogFacts
    <2>3. \A line \in 0..d.height - 1 : line \in Nat
        BY <2>2
    <2> QED BY <1>2, <2>1, <2>2, <2>3, DialogNavigatePlace, StepPlace, SwitchTabPlace, ActivatePlace,
               DeletePlace, ClickPlace, ScrollByPlace
<1> QED BY <1>1, <1>2

(* A dialog begins with its first field, and nothing scrolled *)
LEMMA OpenPlace ==
    ASSUME NEW settings \in Settings, NEW tall \in Nat \ {0}
    PROVE  InPlace(Dialog!Open(settings, tall))
<1> DEFINE d == [tab |-> 0, cursor |-> 0, option |-> 0, scroll |-> 0, editing |-> FALSE,
                 height |-> tall, cur |-> settings, orig |-> settings]
           e == Dialog!Focus(d, 0)
<1>1. Dialog!Typed(settings)
    BY DialogAssumption
<1>2. settings \in Values
    <2>1. settings = [name \in Dialog!Names |-> settings[name]]
        BY <1>1 DEF Dialog!Typed
    <2>2. ASSUME NEW name \in Dialog!Names
          PROVE  settings[name] \in Int \cup (SUBSET Nat) \cup Seq(Rules)
        <3>1. CASE name \in Dialog!Lists
            BY <1>1, <3>1 DEF Dialog!Typed
        <3>2. CASE name \notin Dialog!Lists
            <4>1. PICK field \in Dialog!Fields : name = field.name
                BY <3>2 DEF Dialog!Names
            <4>2. field.kind \in {"enum", "multi", "text"} /\ field.size \in Nat
                BY FieldFacts
            <4>3. \/ field.kind = "enum" /\ settings[name] \in -1..field.size - 1
                  \/ field.kind = "multi" /\ settings[name] \in SUBSET Nat
                  \/ settings[name] \in Nat
                BY <1>1, <4>1, <4>2 DEF Dialog!Typed
            <4>4. settings[name] \in -1..field.size - 1 => settings[name] \in Int
                BY <4>2
            <4> QED BY <4>3, <4>4
        <3> QED BY <3>1, <3>2
    <2> QED BY <2>1, <2>2 DEF Values
<1>3. 0 \in 0..Len(Tabs) - 1
    BY DialogAssumption DEF Dialog!TabsTyped
<1>4. Shaped(d) /\ ~d.editing /\ d.scroll = 0
    BY <1>1, <1>2, <1>3 DEF Shaped, Shapes
<1>5. Dialog!Open(settings, tall) = e
    BY DEF Dialog!Open
<1>6. e.scroll = d.scroll
    <2> DEFINE moved == [d EXCEPT !.cursor = 0]
               at == [moved EXCEPT !.option = 0]
               option == Dialog!Maximum(d.cur[Dialog!Current(at).name], 0)
    <2>1. e = IF Dialog!Current(at).kind = "enum" THEN [at EXCEPT !.option = option] ELSE at
        BY DEF Dialog!Focus
    <2> HIDE DEF e, option, d
    <2>2. moved \in Shapes /\ moved.scroll = d.scroll
        BY <1>4 DEF Shaped, Shapes
    <2> HIDE DEF moved
    <2>3. at \in Shapes /\ at.scroll = d.scroll
        BY <2>2 DEF Shapes
    <2> HIDE DEF at
    <2>4. [at EXCEPT !.option = option].scroll = d.scroll
        BY <2>3 DEF Shapes
    <2> QED BY <2>1, <2>3, <2>4
<1> HIDE DEF d
<1>7. Shaped(e) /\ Sits(e)
    BY <1>4, EndsEditable, FocusSits
<1> HIDE DEF e
<1>8. e.scroll \in 0..Dialog!Total(e) - 1
    <2>1. Dialog!Total(e) \in Nat \ {0}
        BY <1>7, DialogFacts
    <2> QED BY <1>4, <1>6, <2>1
<1> QED BY <1>5, <1>7, <1>8 DEF InPlace, Dialog!InBounds, Sits

-----------------------------------------------------------------------------
(* The dialog, when there is one *)

DialogPlaced == /\ height \in Nat \ {0} /\ saving \in BOOLEAN
                /\ dialog = None \/ InPlace(dialog)
                /\ saving => dialog # None

(* None is no dialog *)
LEMMA PlaceIsState ==
    ASSUME NEW d, InPlace(d)
    PROVE  d # None
<1>1. d \in Shapes /\ d.scroll \in 0..Dialog!Total(d) - 1 /\ Dialog!Total(d) \in Nat
    <2>1. Shaped(d) /\ d.scroll \in 0..Dialog!Total(d) - 1
        BY DEF InPlace, Dialog!InBounds
    <2> QED BY <2>1, DialogFacts DEF Shaped
<1>2. d.scroll \in Nat
    BY <1>1
<1>3. d \in Dialog!States
    BY <1>1, <1>2 DEF Shapes, Values, Dialog!States
<1> QED BY <1>3, NoneAssumption

LEMMA DialogPlacedStep == DialogPlaced /\ [Next]_vars => DialogPlaced'
<1> SUFFICES ASSUME DialogPlaced, [Next]_vars PROVE DialogPlaced'
    OBVIOUS
<1>1. ASSUME UNCHANGED <<height, dialog, saving>> PROVE DialogPlaced'
    BY <1>1 DEF DialogPlaced
<1>2. CASE Resized
    <2>1. height' \in Nat \ {0}
        BY <1>2, MotionsAssumption DEF Resized
    <2>2. /\ saving' = saving
          /\ dialog' = IF dialog = None THEN None ELSE Dialog!Resize(dialog, height')
        BY <1>2 DEF Resized
    <2>3. CASE dialog = None
        BY <2>1, <2>2, <2>3 DEF DialogPlaced
    <2>4. CASE dialog # None
        <3>1. InPlace(Dialog!Resize(dialog, height'))
            BY <2>1, <2>4, ResizePlace DEF DialogPlaced
        <3> QED BY <2>1, <2>2, <2>4, <3>1, PlaceIsState DEF DialogPlaced
    <2> QED BY <2>3, <2>4
<1>3. CASE OpenSettings
    <2>1. PICK settings \in Settings : dialog' = Dialog!Open(settings, height)
        BY <1>3 DEF OpenSettings
    <2>2. InPlace(dialog')
        BY <2>1, OpenPlace DEF DialogPlaced
    <2>3. UNCHANGED <<height, saving>>
        BY <1>3 DEF OpenSettings, view
    <2> QED BY <2>2, <2>3, PlaceIsState DEF DialogPlaced
<1>4. CASE Dialogue
    <2>1. dialog' \in Dialog!Next(dialog, Motions(Counts)) /\ dialog # None
        BY <1>4 DEF Dialogue, OnDialog
    <2>2. InPlace(dialog')
        BY <2>1, NextPlace DEF DialogPlaced
    <2>3. UNCHANGED <<height, saving>>
        BY <1>4 DEF Dialogue, view
    <2> QED BY <2>2, <2>3, PlaceIsState DEF DialogPlaced
<1>5. CASE CloseSettings
    <2>1. /\ ~saving /\ dialog # None /\ UNCHANGED height
          /\ (dialog' = None /\ saving' = saving) \/ (saving' = TRUE /\ dialog' = dialog)
        BY <1>5 DEF CloseSettings, OnDialog, view
    <2>2. CASE dialog' = None /\ saving' = saving
        <3>1. ~saving' /\ saving' \in BOOLEAN
            BY <2>1, <2>2 DEF DialogPlaced
        <3> QED BY <2>1, <2>2, <3>1 DEF DialogPlaced
    <2>3. CASE saving' = TRUE /\ dialog' = dialog
        <3>1. saving' \in BOOLEAN /\ dialog' # None
            BY <2>1, <2>3
        <3>2. InPlace(dialog')
            BY <2>1, <2>3 DEF DialogPlaced
        <3> QED BY <2>1, <3>1, <3>2 DEF DialogPlaced
    <2> QED BY <2>1, <2>2, <2>3
<1>6. ASSUME NEW r \in Requests, Completed(r) PROVE DialogPlaced'
    <2>1. /\ saving' = (saving /\ request[r].kind # "save") /\ UNCHANGED height
          /\ dialog' = IF request[r].kind = "save" /\ request[r].ok THEN None ELSE dialog
        BY <1>6 DEF Completed, Waits, Unrequested, view
    <2> QED BY <2>1 DEF DialogPlaced
<1>7. ASSUME NEW r \in Requests, Attempt(r) \/ Await(r) \/ StartDaemon(r) PROVE DialogPlaced'
    <2>1. UNCHANGED <<height, dialog, saving>>
        BY <1>7 DEF Attempt, Await, StartDaemon, Fails, Returns, Becomes, Unrequested, view
    <2> QED BY <1>1, <2>1
<1>8. CASE \/ Pushed \/ Lost \/ Navigate \/ Wheel \/ Click \/ Collapse \/ Type \/ Accept \/ Clear
    <2>1. UNCHANGED <<height, dialog, saving>>
        BY <1>8 DEF Pushed, Lost, Updates, Navigate, Wheel, Click, Collapse, Type, Accept, Clear,
            Filters, UnlessPlace, over
    <2> QED BY <1>1, <2>1
<1>9. CASE Enter \/ Expand \/ Ask \/ SetTun \/ Slash \/ Help \/ Add \/ Delete \/ CloseModal
    <2>1. UNCHANGED <<height, dialog, saving>>
        BY <1>9 DEF Enter, Expand, Ask, SetTun, Slash, Help, Add, Delete, CloseModal,
            UnlessPlace, over, view
    <2> QED BY <1>1, <2>1
<1>10. CASE UNCHANGED vars
    BY <1>1, <1>10 DEF vars, view, over
<1> QED BY <1>2, <1>3, <1>4, <1>5, <1>6, <1>7, <1>8, <1>9, <1>10 DEF Next

LEMMA DialogPlacedInit == Init => DialogPlaced
<1> SUFFICES ASSUME Init PROVE DialogPlaced
    OBVIOUS
<1>1. height = 1 /\ dialog = None /\ saving = FALSE
    BY DEF Init
<1>2. ~saving /\ saving \in BOOLEAN
    BY <1>1
<1>3. height \in Nat \ {0}
    BY <1>1
<1> QED BY <1>1, <1>2, <1>3 DEF DialogPlaced

(* The dialog is in its bounds in every reachable state, and is there as long   *)
(* as its settings are being saved                                           *)
THEOREM DialogInvariant == Spec => []DialogPlaced
<1> QED BY DialogPlacedInit, DialogPlacedStep, PTL DEF Spec

-----------------------------------------------------------------------------
(* The properties *)

(* No index of the list or of the dialog is out of bounds (tree.go, settings.go) *)
THEOREM AlwaysInBounds == Spec => []InBounds
<1>1. Placed /\ DialogPlaced => InBounds
    <2> SUFFICES ASSUME Placed, DialogPlaced PROVE InBounds
        OBVIOUS
    <2>1. cursor \in 0..Maximum(List!Count(Rows) - 1, 0) /\ scroll \in 0..Maximum(Len(Rows) - height, 0)
        BY DEF Placed, Cursors, Tops
    <2>2. dialog = None \/ Dialog!InBounds(dialog)
        BY DEF DialogPlaced, InPlace
    <2> QED BY <2>1, <2>2 DEF InBounds
<1> QED BY PlaceInvariant, DialogInvariant, <1>1, PTL

(* What busy and saving say of the requests is true (actions.go, msg.go)       *)
THEOREM FlagsAreTrue == Spec => []FlagsTrue
<1>1. ASSUME NEW kind, NEW flag \in BOOLEAN, Stands(kind, flag)
      PROVE  Cardinality({r \in Requests : request[r].kind = kind}) = IF flag THEN 1 ELSE 0
    <2> DEFINE of == {r \in Requests : request[r].kind = kind}
    <2>1. CASE flag
        <3>1. PICK r \in Requests : request[r].kind = kind
            BY <1>1, <2>1 DEF Stands
        <3>2. of = {r}
            BY <1>1, <3>1 DEF Stands
        <3> HIDE DEF of
        <3>3. Cardinality({r}) = 1
            BY FS_Singleton
        <3> QED BY <2>1, <3>2, <3>3 DEF of
    <2>2. CASE ~flag
        <3>1. of = {}
            BY <1>1, <2>2 DEF Stands
        <3> HIDE DEF of
        <3>2. Cardinality({}) = 0
            BY FS_EmptySet
        <3> QED BY <2>2, <3>1, <3>2 DEF of
    <2> QED BY <2>1, <2>2
<1>2. Flagged /\ DialogPlaced => FlagsTrue
    <2> SUFFICES ASSUME Flagged, DialogPlaced PROVE FlagsTrue
        OBVIOUS
    <2>1. Cardinality({r \in Requests : request[r].kind = "connection"}) = IF busy THEN 1 ELSE 0
        BY <1>1 DEF Flagged
    <2>2. Cardinality({r \in Requests : request[r].kind = "save"}) = IF saving THEN 1 ELSE 0
        BY <1>1 DEF Flagged
    <2>3. saving => dialog # None
        BY DEF DialogPlaced
    <2> QED BY <2>1, <2>2, <2>3 DEF FlagsTrue
<1> QED BY RequestInvariant, DialogInvariant, <1>2, PTL
=============================================================================
