-------------------------- MODULE LeaderboardProofs --------------------------
(***************************************************************************)
(* What the abstract store promises to its readers, and what the readers   *)
(* make of it although their two queries see two states of it: for all     *)
(* users, counts, days and commits in between.                             *)
(***************************************************************************)
EXTENDS Leaderboard, FiniteSetTheorems, FunctionTheorems, WellFoundedInduction, TLAPS

(* The shape of the tables, and that snapshots go with their user: what is *)
(* inductive of the store.                                                 *)
StoreInv ==
  /\ today \in Nat
  /\ users \subseteq Ids
  /\ snapshots \in [Ids -> [Days -> Counts \cup {NULL}]]
  /\ NoOrphans

(* A step of the store keeps both.                                         *)
LEMMA StoreStep == StoreInv /\ [Next]_vars => StoreInv'
<1> USE DEF StoreInv, NoOrphans
<1> SUFFICES ASSUME StoreInv, [Next]_vars PROVE StoreInv'
  OBVIOUS
<1>1. CASE Midnight
  BY <1>1 DEF Midnight, Days
<1>2. ASSUME NEW u \in Ids, Create(u) PROVE StoreInv'
  BY <1>2 DEF Create
<1>3. ASSUME NEW u \in Ids, Delete(u) PROVE StoreInv'
  BY <1>3 DEF Delete
<1>4. ASSUME NEW u \in Ids, NEW d \in Days, NEW c \in Counts, Upsert(u, d, c)
      PROVE  StoreInv'
  BY <1>4 DEF Upsert
<1>5. CASE UNCHANGED vars
  BY <1>5 DEF vars
<1>. QED
  BY <1>1, <1>2, <1>3, <1>4, <1>5 DEF Next, Write

(* The store keeps the shape of its tables and leaves no orphans.          *)
THEOREM StoreInductive == Spec => []StoreInv
<1>1. Init => StoreInv
  BY DEF Init, StoreInv, NoOrphans
<1>. QED
  BY <1>1, StoreStep, PTL DEF Spec

(* No snapshot outlives its user, and no id is given out twice.            *)
THEOREM StoreHasNoOrphans == Spec => []NoOrphans
<1>1. StoreInv => NoOrphans
  BY DEF StoreInv
<1>. QED
  BY <1>1, StoreInductive, PTL

(* The snapshots of a date that ended more than MaxLate days ago never     *)
(* change while their user exists.                                         *)
THEOREM StoreHistoryFrozen == Spec => HistoryFrozen
<1> DEFINE Frozen == \A u \in Ids, d \in Days :
             d + MaxLate < today /\ u \in users' => snapshots'[u][d] = snapshots[u][d]
<1>1. StoreInv /\ [Next]_vars => [Frozen]_vars
  <2> SUFFICES ASSUME StoreInv, Next, NEW v \in Ids, NEW d \in Days,
                      d + MaxLate < today, v \in users'
               PROVE  snapshots'[v][d] = snapshots[v][d]
    OBVIOUS
  <2> USE DEF StoreInv, NoOrphans
  <2>1. CASE Midnight
    BY <2>1 DEF Midnight
  <2>2. ASSUME NEW u \in Ids, Create(u) PROVE snapshots'[v][d] = snapshots[v][d]
    BY <2>2 DEF Create
  <2>3. ASSUME NEW u \in Ids, Delete(u) PROVE snapshots'[v][d] = snapshots[v][d]
    BY <2>3 DEF Delete
  <2>4. ASSUME NEW u \in Ids, NEW e \in Days, NEW c \in Counts, Upsert(u, e, c)
        PROVE  snapshots'[v][d] = snapshots[v][d]
    <3>1. e # d
      BY <2>4, LeaderboardAssumption DEF Upsert, Days
    <3>. QED
      BY <2>4, <3>1 DEF Upsert
  <2>. QED
    BY <2>1, <2>2, <2>3, <2>4 DEF Next, Write
<1>2. Spec => [][Frozen]_vars
  BY <1>1, StoreInductive, PTL DEF Spec
<1>. QED
  BY <1>2 DEF HistoryFrozen

-----------------------------------------------------------------------------
(* The users that came after the first query.  Each took a commit, and     *)
(* another one if it has a snapshot already.                               *)
Newcomers == users \ reader.users

NewSolvers == Newcomers \cap Listed(snapshots)

Readers ==
  [stage : Stages, users : SUBSET Ids, today : Nat, commits : Nat,
   snapshots : [Ids -> [Days -> Counts \cup {NULL}] \cup {NULL}]]

ReaderType == reader \in Readers

CommitsPaid ==
  reader.stage # "idle" =>
    Cardinality(Newcomers) + Cardinality(NewSolvers) <= reader.commits

ReaderInv ==
  /\ StoreInv /\ ReaderType
  /\ IsFiniteSet(users) /\ IsFiniteSet(reader.users)
  /\ CommitsPaid

(* Users with a snapshot are users.                                        *)
LEMMA ListedAreUsers == StoreInv => Listed(snapshots) \subseteq users
BY DEF StoreInv, NoOrphans, Listed, Dates

(* What a commit between the queries does to the newcomers: it makes one,  *)
(* or gives one its first snapshot, or takes some away.                    *)
LEMMA NewcomersPay ==
  ASSUME StoreInv, Write, UNCHANGED reader.users
  PROVE  \/ Newcomers' \subseteq Newcomers /\ NewSolvers' \subseteq NewSolvers
         \/ \E u \in Ids : Newcomers' = Newcomers \cup {u} /\ NewSolvers' = NewSolvers
         \/ \E u \in Ids : Newcomers' = Newcomers /\ NewSolvers' \subseteq NewSolvers \cup {u}
<1> USE DEF Newcomers, NewSolvers, Listed, Dates
<1>1. ASSUME NEW u \in Ids, Create(u)
      PROVE  \/ Newcomers' = Newcomers /\ NewSolvers' = NewSolvers
             \/ Newcomers' = Newcomers \cup {u} /\ NewSolvers' = NewSolvers
  <2>1. users' = users \cup {u} /\ snapshots' = snapshots /\ reader.users' = reader.users
    BY <1>1 DEF Create
  <2>2. u \notin users /\ u \notin Listed(snapshots)
    BY <1>1, ListedAreUsers DEF Create, StoreInv, NoOrphans
  <2>. QED
    BY <2>1, <2>2
<1>2. ASSUME NEW u \in Ids, Delete(u)
      PROVE  Newcomers' \subseteq Newcomers /\ NewSolvers' \subseteq NewSolvers
  BY <1>2 DEF Delete, StoreInv
<1>3. ASSUME NEW u \in Ids, NEW d \in Days, NEW c \in Counts, Upsert(u, d, c)
      PROVE  Newcomers' = Newcomers /\ NewSolvers' \subseteq NewSolvers \cup {u}
  BY <1>3 DEF Upsert, StoreInv
<1>. QED
  BY <1>1, <1>2, <1>3 DEF Write

(* Adding an element adds at most one to the cardinality.                  *)
LEMMA OneMore ==
  ASSUME NEW S, IsFiniteSet(S), NEW T, NEW u, T \subseteq S \cup {u}
  PROVE  /\ IsFiniteSet(T) /\ Cardinality(T) \in Nat
         /\ Cardinality(T) <= Cardinality(S) + 1
<1>1. /\ IsFiniteSet(S \cup {u}) /\ Cardinality(S) \in Nat
      /\ Cardinality(S \cup {u}) <= Cardinality(S) + 1
  BY FS_AddElement, FS_CardinalityType
<1>2. /\ IsFiniteSet(T) /\ Cardinality(T) <= Cardinality(S \cup {u})
      /\ Cardinality(T) \in Nat /\ Cardinality(S \cup {u}) \in Nat
  BY <1>1, FS_Subset, FS_CardinalityType
<1>. QED
  BY <1>1, <1>2

(* So the newcomers stay paid for, whatever is committed, ...              *)
LEMMA ReaderStep == ReaderInv /\ [LeaderboardNext]_readVars => ReaderInv'
<1> SUFFICES ASSUME ReaderInv, [LeaderboardNext]_readVars PROVE ReaderInv'
  OBVIOUS
<1>1. /\ StoreInv /\ IsFiniteSet(users) /\ IsFiniteSet(reader.users) /\ CommitsPaid
      /\ reader.commits \in Nat /\ ReaderType
  BY DEF ReaderInv, ReaderType, Readers
<1>2. StoreInv'
  <2>1. [Next]_vars
    BY DEF LeaderboardNext, Query, Respond, Commit, Next, readVars, vars
  <2>. QED
    BY <1>1, <2>1, StoreStep
<1>3. snapshots \in Table /\ today \in Nat /\ users \subseteq Ids
  BY <1>1 DEF StoreInv, Table
<1>4. ASSUME UNCHANGED <<users, snapshots, reader>> PROVE ReaderInv'
  BY <1>1, <1>2, <1>4
     DEF ReaderInv, ReaderType, CommitsPaid, Newcomers, NewSolvers, Listed, Dates
<1>5. CASE Midnight /\ UNCHANGED reader
  BY <1>4, <1>5 DEF Midnight
<1>6. CASE UNCHANGED readVars
  BY <1>4, <1>6 DEF readVars, vars
<1>7. ASSUME NEW stage \in Stages, Query(stage) PROVE ReaderInv'
  <2>1. /\ ReaderType' /\ reader'.users = users /\ reader'.commits = 0
        /\ UNCHANGED <<users, snapshots>>
    BY <1>1, <1>3, <1>7 DEF Query, ReaderType, Readers, Table, vars
  <2>2. Newcomers' = {} /\ NewSolvers' = {}
    BY <2>1 DEF Newcomers, NewSolvers
  <2>3. CommitsPaid'
    BY <2>1, <2>2, FS_EmptySet DEF CommitsPaid
  <2>. QED
    BY <1>1, <1>2, <2>1, <2>3 DEF ReaderInv
<1>8. CASE Respond
  <2>1. /\ Idle \in Readers
        /\ Idle.stage = "idle" /\ Idle.users = {}
    BY DEF Idle, Stages, Readers
  <2>2. ReaderType' /\ IsFiniteSet(reader'.users) /\ CommitsPaid' /\ users' = users
    BY <1>8, <2>1, FS_EmptySet DEF Respond, ReaderType, CommitsPaid, vars
  <2>. QED
    BY <1>1, <1>2, <2>2 DEF ReaderInv
<1>9. CASE Commit
  <2>1. /\ ReaderType' /\ reader'.users = reader.users /\ reader'.stage = reader.stage
        /\ reader.stage # "idle" => reader'.commits = reader.commits + 1
    BY <1>1, <1>9 DEF Commit, ReaderType, Readers
  <2>2. IsFiniteSet(users')
    <3>1. \E u \in Ids : users' \subseteq users \cup {u}
      BY <1>3, <1>9 DEF Commit, Write, Create, Delete, Upsert
    <3>. QED
      BY <1>1, <3>1, OneMore
  <2>3. CommitsPaid'
    <3> SUFFICES ASSUME reader.stage # "idle"
                 PROVE  Cardinality(Newcomers') + Cardinality(NewSolvers')
                          <= reader.commits + 1
      BY <2>1 DEF CommitsPaid
    <3>1. /\ IsFiniteSet(Newcomers) /\ IsFiniteSet(NewSolvers)
          /\ Cardinality(Newcomers) \in Nat /\ Cardinality(NewSolvers) \in Nat
      <4>1. Newcomers \subseteq users /\ NewSolvers \subseteq users
        BY DEF Newcomers, NewSolvers
      <4>. QED
        BY <1>1, <4>1, FS_Subset, FS_CardinalityType
    <3>2. Cardinality(Newcomers) + Cardinality(NewSolvers) <= reader.commits
      BY <1>1 DEF CommitsPaid
    <3>3. \/ Newcomers' \subseteq Newcomers /\ NewSolvers' \subseteq NewSolvers
          \/ \E u \in Ids : Newcomers' = Newcomers \cup {u} /\ NewSolvers' = NewSolvers
          \/ \E u \in Ids : /\ Newcomers' = Newcomers
                            /\ NewSolvers' \subseteq NewSolvers \cup {u}
      BY <1>1, <1>9, <2>1, NewcomersPay DEF Commit
    <3>4. CASE Newcomers' \subseteq Newcomers /\ NewSolvers' \subseteq NewSolvers
      <4>1. /\ Cardinality(Newcomers') <= Cardinality(Newcomers)
            /\ Cardinality(NewSolvers') <= Cardinality(NewSolvers)
            /\ Cardinality(Newcomers') \in Nat /\ Cardinality(NewSolvers') \in Nat
        BY <3>1, <3>4, FS_Subset, FS_CardinalityType
      <4>. QED
        BY <1>1, <3>1, <3>2, <4>1
    <3>5. ASSUME NEW u \in Ids, Newcomers' = Newcomers \cup {u}, NewSolvers' = NewSolvers
          PROVE  Cardinality(Newcomers') + Cardinality(NewSolvers') <= reader.commits + 1
      <4>1. /\ Cardinality(Newcomers') \in Nat
            /\ Cardinality(Newcomers') <= Cardinality(Newcomers) + 1
        BY <3>1, <3>5, OneMore
      <4>. QED
        BY <1>1, <3>1, <3>2, <3>5, <4>1
    <3>6. ASSUME NEW u \in Ids, Newcomers' = Newcomers,
                 NewSolvers' \subseteq NewSolvers \cup {u}
          PROVE  Cardinality(Newcomers') + Cardinality(NewSolvers') <= reader.commits + 1
      <4>1. /\ Cardinality(NewSolvers') \in Nat
            /\ Cardinality(NewSolvers') <= Cardinality(NewSolvers) + 1
        BY <3>1, <3>6, OneMore
      <4>. QED
        BY <1>1, <3>1, <3>2, <3>6, <4>1
    <3>. QED
      BY <3>3, <3>4, <3>5, <3>6
  <2>. QED
    BY <1>1, <1>2, <2>1, <2>2, <2>3 DEF ReaderInv
<1>. QED
  BY <1>5, <1>6, <1>7, <1>8, <1>9 DEF LeaderboardNext

(* ... from the beginning on.                                              *)
LEMMA ReaderAlways == LeaderboardSpec => []ReaderInv
<1>1. LeaderboardInit => ReaderInv
  <2> SUFFICES ASSUME LeaderboardInit PROVE ReaderInv
    OBVIOUS
  <2>1. StoreInv /\ users = {}
    BY DEF LeaderboardInit, Init, StoreInv, NoOrphans
  <2>2. /\ Idle \in Readers
        /\ Idle.stage = "idle" /\ Idle.users = {}
    BY DEF Idle, Stages, Readers
  <2>. QED
    BY <2>1, <2>2, FS_EmptySet DEF LeaderboardInit, ReaderInv, ReaderType, CommitsPaid
<1>. QED
  BY <1>1, ReaderStep, PTL DEF LeaderboardSpec

(* The global statistics add up the totals of no more users than they      *)
(* count, but for one more with every two commits between the queries.     *)
THEOREM StatisticsCountUsers == LeaderboardSpec => []GlobalCountsItsUsers
<1>1. ReaderInv => GlobalCountsItsUsers
  <2> SUFFICES ASSUME ReaderInv, reader.stage = "global"
               PROVE  Cardinality(Listed(snapshots))
                        <= Cardinality(reader.users) + reader.commits \div 2
    BY DEF GlobalCountsItsUsers, GlobalStats
  <2>1. /\ IsFiniteSet(users) /\ IsFiniteSet(reader.users) /\ StoreInv
        /\ Cardinality(Newcomers) + Cardinality(NewSolvers) <= reader.commits
        /\ reader.commits \in Nat
    BY DEF ReaderInv, ReaderType, Readers, CommitsPaid
  <2>2. /\ NewSolvers \subseteq Newcomers /\ Newcomers \subseteq users
        /\ Listed(snapshots) \subseteq reader.users \cup NewSolvers
    BY <2>1, ListedAreUsers DEF Newcomers, NewSolvers
  <2>3. IsFiniteSet(Newcomers)
    BY <2>1, <2>2, FS_Subset
  <2>4. IsFiniteSet(NewSolvers) /\ Cardinality(NewSolvers) <= Cardinality(Newcomers)
    BY <2>2, <2>3, FS_Subset
  <2>5. /\ IsFiniteSet(reader.users \cup NewSolvers)
        /\ Cardinality(reader.users \cup NewSolvers)
             = Cardinality(reader.users) + Cardinality(NewSolvers)
                 - Cardinality(reader.users \cap NewSolvers)
    BY <2>1, <2>4, FS_Union
  <2>6. /\ IsFiniteSet(Listed(snapshots))
        /\ Cardinality(Listed(snapshots)) <= Cardinality(reader.users \cup NewSolvers)
    BY <2>2, <2>5, FS_Subset
  <2>7. /\ Cardinality(Newcomers) \in Nat /\ Cardinality(NewSolvers) \in Nat
        /\ Cardinality(reader.users) \in Nat /\ Cardinality(Listed(snapshots)) \in Nat
        /\ Cardinality(reader.users \cap NewSolvers) \in Nat
        /\ Cardinality(reader.users \cup NewSolvers) \in Nat
    BY <2>1, <2>3, <2>4, <2>5, <2>6, FS_Intersection, FS_CardinalityType
  <2>8. Cardinality(NewSolvers) + Cardinality(NewSolvers) <= reader.commits
    BY <2>1, <2>4, <2>7
  <2>9. Cardinality(NewSolvers) <= reader.commits \div 2
    BY <2>1, <2>7, <2>8
  <2>10. reader.commits \div 2 \in Int
    BY <2>1
  <2>. QED
    BY <2>5, <2>6, <2>7, <2>9, <2>10
<1>. QED
  BY <1>1, ReaderAlways, PTL

-----------------------------------------------------------------------------
(* A set with 0 that is closed under successor has every natural number:   *)
(* its complement would have a least element.                              *)
LEMMA NatClosed ==
  ASSUME NEW S, 0 \in S, \A n \in Nat : n \in S => n + 1 \in S
  PROVE  Nat \subseteq S
<1> SUFFICES ASSUME Nat \ S # {} PROVE FALSE
  OBVIOUS
<1>1. PICK n \in Nat \ S : \A m \in Nat \ S : <<m, n>> \notin OpToRel(<, Nat)
  BY WFMin, NatLessThanWellFounded
<1>2. \A m \in Nat \ S : ~(m < n)
  BY <1>1 DEF OpToRel
<1>3. n - 1 \in Nat /\ n - 1 < n /\ (n - 1) + 1 = n
  OBVIOUS
<1>. QED
  BY <1>2, <1>3

(* The sizes of the subsets of a finite set.                               *)
LEMMA Sizes ==
  ASSUME NEW S, IsFiniteSet(S)
  PROVE  /\ Cardinality(S) \in Nat
         /\ \A s \in SUBSET S :
              /\ IsFiniteSet(s) /\ Cardinality(s) \in Nat
              /\ Cardinality(s) <= Cardinality(S)
              /\ Cardinality(s) = 0 <=> s = {}
              /\ \A x \in s : /\ s \ {x} \in SUBSET S
                              /\ Cardinality(s \ {x}) = Cardinality(s) - 1
<1>1. ASSUME NEW s \in SUBSET S
      PROVE  /\ IsFiniteSet(s) /\ Cardinality(s) \in Nat
             /\ Cardinality(s) <= Cardinality(S)
             /\ Cardinality(s) = 0 <=> s = {}
  BY FS_Subset, FS_CardinalityType, FS_EmptySet
<1>2. ASSUME NEW s \in SUBSET S, NEW x \in s
      PROVE  s \ {x} \in SUBSET S /\ Cardinality(s \ {x}) = Cardinality(s) - 1
  BY <1>1, FS_RemoveElement
<1>. QED
  BY <1>1, <1>2, FS_CardinalityType

(* What a fold over the subsets of S satisfies: c picks the element that   *)
(* is folded last, and g is what it does to the result of the others.      *)
FoldsTo(it, S, base, c, g) ==
  it = [s \in SUBSET S |-> IF s = {} THEN base ELSE g[c[s]][it[s \ {c[s]}]]]

Chooses(c, S) == \A s \in SUBSET S : s # {} => c[s] \in s

(* A fold over a finite set is well defined.                               *)
LEMMA FoldExists ==
  ASSUME NEW S, IsFiniteSet(S), NEW V, NEW base \in V,
         NEW c, Chooses(c, S),
         NEW g \in [S -> [V -> V]]
  PROVE  \E it \in [SUBSET S -> V] : FoldsTo(it, S, base, c, g)
<1> USE DEF Chooses
<1> DEFINE F(it) == [s \in SUBSET S |-> IF s = {} THEN base ELSE g[c[s]][it[s \ {c[s]}]]]
           Good(it, n) == \A s \in SUBSET S : Cardinality(s) <= n => it[s] = F(it)[s]
           N == {n \in Nat : \E it \in [SUBSET S -> V] : Good(it, n)}
<1>1. ASSUME NEW it \in [SUBSET S -> V] PROVE F(it) \in [SUBSET S -> V]
  <2>1. ASSUME NEW s \in SUBSET S, s # {} PROVE g[c[s]][it[s \ {c[s]}]] \in V
    <3>1. c[s] \in S /\ s \ {c[s]} \in SUBSET S
      BY <2>1
    <3>2. it[s \ {c[s]}] \in V /\ g[c[s]] \in [V -> V]
      BY <3>1
    <3>. QED
      BY <3>2
  <2>. QED
    BY <2>1
<1>2. 0 \in N
  <2> DEFINE it == [s \in SUBSET S |-> base]
  <2>1. it \in [SUBSET S -> V]
    OBVIOUS
  <2>2. ASSUME NEW s \in SUBSET S, Cardinality(s) <= 0 PROVE it[s] = F(it)[s]
    <3>1. s = {}
      BY <2>2, Sizes
    <3>. QED
      BY <3>1
  <2>. QED
    BY <2>1, <2>2
<1>3. ASSUME NEW n \in Nat, n \in N PROVE n + 1 \in N
  <2>1. PICK it \in [SUBSET S -> V] : Good(it, n)
    BY <1>3
  <2> DEFINE next == F(it)
  <2>2. next \in [SUBSET S -> V]
    BY <1>1
  <2>3. ASSUME NEW s \in SUBSET S, Cardinality(s) <= n + 1 PROVE next[s] = F(next)[s]
    <3>1. CASE s = {}
      BY <3>1
    <3>2. CASE s # {}
      <4>1. c[s] \in s
        BY <3>2
      <4>2. s \ {c[s]} \in SUBSET S /\ Cardinality(s \ {c[s]}) <= n
        BY <2>3, <4>1, Sizes
      <4>3. next[s \ {c[s]}] = it[s \ {c[s]}]
        BY <2>1, <4>2
      <4>4. next[s] = g[c[s]][it[s \ {c[s]}]] /\ F(next)[s] = g[c[s]][next[s \ {c[s]}]]
        BY <3>2
      <4>. QED
        BY <4>3, <4>4
    <3>. QED
      BY <3>1, <3>2
  <2> HIDE DEF next, F
  <2>4. Good(next, n + 1)
    BY <2>3
  <2>. QED
    BY <2>2, <2>4
<1>4. Cardinality(S) \in N
  <2> HIDE DEF N
  <2>. QED
    BY <1>2, <1>3, NatClosed, Sizes
<1>5. PICK it \in [SUBSET S -> V] : Good(it, Cardinality(S))
  BY <1>4
<1>6. \A s \in SUBSET S : it[s] = F(it)[s]
  BY <1>5, Sizes
<1>7. it = F(it)
  <2>1. F(it) \in [SUBSET S -> V]
    BY <1>1
  <2> HIDE DEF F
  <2>. QED
    BY <1>6, <2>1
<1>. QED
  BY <1>7 DEF FoldsTo

-----------------------------------------------------------------------------
(* What a sequence in the order R of E is.                                 *)
InOrder(seq, E, R) ==
  /\ seq \in [1 .. Cardinality(E) -> E]
  /\ \A e \in E : \E i \in DOMAIN seq : seq[i] = e
  /\ \A i, j \in DOMAIN seq : i < j => seq[i] # seq[j] /\ <<seq[i], seq[j]>> \in R

(* R puts any two elements of E in one order.                              *)
TotalOrder(E, R) ==
  /\ \A a \in E : <<a, a>> \notin R
  /\ \A a, b \in E : a = b \/ <<a, b>> \in R \/ <<b, a>> \in R
  /\ \A a, b, c \in E : <<a, b>> \in R /\ <<b, c>> \in R => <<a, c>> \in R

(* A finite set can be put in order: each element goes where the number of *)
(* those before it says.                                                   *)
LEMMA OrderExists ==
  ASSUME NEW E, IsFiniteSet(E), NEW R, TotalOrder(E, R)
  PROVE  \E seq \in SetToSeqs(E) :
           \A i, j \in DOMAIN seq : i < j => <<seq[i], seq[j]>> \in R
<1> DEFINE n == Cardinality(E)
           Lower(e) == {a \in E : <<a, e>> \in R}
           rank == [e \in E |-> Cardinality(Lower(e)) + 1]
<1>1. n \in Nat /\ IsFiniteSet(1 .. n) /\ Cardinality(1 .. n) = n
  <2>1. n \in Nat /\ 1 \in Int /\ n \in Int
    BY FS_CardinalityType
  <2>2. IsFiniteSet(1 .. n) /\ Cardinality(1 .. n) = IF 1 > n THEN 0 ELSE n - 1 + 1
    BY <2>1, FS_Interval
  <2> HIDE DEF n
  <2>. QED
    BY <2>1, <2>2
<1>2. \A e \in E : /\ IsFiniteSet(Lower(e)) /\ Cardinality(Lower(e)) \in Nat
                   /\ Cardinality(Lower(e)) < n
  <2> SUFFICES ASSUME NEW e \in E
               PROVE  /\ IsFiniteSet(Lower(e)) /\ Cardinality(Lower(e)) \in Nat
                      /\ Cardinality(Lower(e)) < n
    OBVIOUS
  <2>1. Lower(e) \in SUBSET E /\ Lower(e) # E
    BY DEF TotalOrder
  <2> HIDE DEF Lower
  <2>2. /\ IsFiniteSet(Lower(e)) /\ Cardinality(Lower(e)) \in Nat
        /\ Cardinality(Lower(e)) <= n /\ Cardinality(Lower(e)) # n
    BY <2>1, FS_Subset, FS_CardinalityType
  <2> HIDE DEF n
  <2>. QED
    BY <1>1, <2>2
<1>3. ASSUME NEW a \in E, NEW b \in E, <<a, b>> \in R
      PROVE  Cardinality(Lower(a)) < Cardinality(Lower(b))
  <2>1. Lower(a) \in SUBSET Lower(b) /\ Lower(a) # Lower(b)
    BY <1>3 DEF TotalOrder
  <2>2. IsFiniteSet(Lower(b)) /\ Cardinality(Lower(b)) \in Nat
        /\ Cardinality(Lower(a)) \in Nat
    BY <1>2
  <2> HIDE DEF Lower
  <2>3. Cardinality(Lower(a)) <= Cardinality(Lower(b))
        /\ Cardinality(Lower(b)) # Cardinality(Lower(a))
    BY <2>1, <2>2, FS_Subset
  <2>. QED
    BY <2>2, <2>3
<1> HIDE DEF Lower
<1>4. rank \in Injection(E, 1 .. n)
  <2>1. rank \in [E -> 1 .. n]
    <3> HIDE DEF n
    <3>. QED
      BY <1>1, <1>2
  <2>2. ASSUME NEW a \in E, NEW b \in E, rank[a] = rank[b] PROVE a = b
    <3>1. Cardinality(Lower(a)) = Cardinality(Lower(b))
      BY <1>2, <2>2
    <3>2. <<a, b>> \notin R /\ <<b, a>> \notin R
      BY <1>2, <1>3, <3>1
    <3>. QED
      BY <3>2 DEF TotalOrder
  <2> HIDE DEF rank
  <2>. QED
    BY <2>1, <2>2, Fun_IsInj
<1>5. rank \in Bijection(E, 1 .. n)
  <2> HIDE DEF rank
  <2>1. rank \in Surjection(E, 1 .. n)
    BY <1>1, <1>4, FS_Injection
  <2>. QED
    BY <1>4, <2>1, Fun_IsBij
<1> DEFINE seq == Inverse(rank, E, 1 .. n)
<1>6. /\ seq \in [1 .. n -> E]
      /\ \A i \in 1 .. n : rank[seq[i]] = i
  <2> HIDE DEF rank, n
  <2>1. seq \in Bijection(1 .. n, E) /\ \A e \in E : seq[rank[e]] = e
    BY <1>5, Fun_BijInverse
  <2>2. \A i \in 1 .. n : \E e \in E : rank[e] = i
    BY <1>5 DEF Bijection, Surjection
  <2> HIDE DEF seq
  <2>3. seq \in [1 .. n -> E]
    BY <2>1 DEF Bijection, Surjection
  <2>. QED
    BY <2>1, <2>2, <2>3
<1> HIDE DEF seq, rank
<1>7. ASSUME NEW i \in 1 .. n, NEW j \in 1 .. n, i < j
      PROVE  seq[i] # seq[j] /\ <<seq[i], seq[j]>> \in R
  <2>1. /\ seq[i] \in E /\ rank[seq[i]] = i /\ i \in Int
        /\ seq[j] \in E /\ rank[seq[j]] = j /\ j \in Int
    BY <1>1, <1>6
  <2>2. Cardinality(Lower(seq[i])) < Cardinality(Lower(seq[j]))
    BY <1>2, <1>7, <2>1 DEF rank
  <2>3. <<seq[j], seq[i]>> \notin R /\ seq[i] # seq[j]
    BY <1>2, <1>3, <2>1, <2>2
  <2>. QED
    BY <2>1, <2>3 DEF TotalOrder
<1>8. seq \in SetToSeqs(E)
  <2> HIDE DEF n
  <2>1. ASSUME NEW i \in 1 .. n, NEW j \in 1 .. n, i # j PROVE seq[i] # seq[j]
    <3>1. i < j \/ j < i
      BY <1>1, <2>1
    <3>. QED
      BY <1>7, <3>1
  <2>. QED
    BY <1>6, <2>1 DEF SetToSeqs, n
<1>. QED
  BY <1>6, <1>7, <1>8

(* So the sorted sequence is in order, and has every element once.         *)
LEMMA OrderFacts ==
  ASSUME NEW E, IsFiniteSet(E), NEW R,
         NEW seq \in SetToSeqs(E),
         \A i, j \in DOMAIN seq : i < j => <<seq[i], seq[j]>> \in R
  PROVE  InOrder(seq, E, R)
<1> DEFINE n == Cardinality(E)
<1>1. n \in Nat /\ IsFiniteSet(1 .. n) /\ Cardinality(1 .. n) = n
  <2>1. n \in Nat /\ 1 \in Int /\ n \in Int
    BY FS_CardinalityType
  <2>2. IsFiniteSet(1 .. n) /\ Cardinality(1 .. n) = IF 1 > n THEN 0 ELSE n - 1 + 1
    BY <2>1, FS_Interval
  <2> HIDE DEF n
  <2>. QED
    BY <2>1, <2>2
<1>2. seq \in [1 .. n -> E] /\ \A i, j \in 1 .. n : i # j => seq[i] # seq[j]
  BY DEF SetToSeqs
<1> HIDE DEF n
<1>3. seq \in Injection(1 .. n, E)
  BY <1>2, Fun_IsInj
<1>4. seq \in Surjection(1 .. n, E)
  BY <1>1, <1>3, FS_Injection DEF n
<1>5. \A e \in E : \E i \in 1 .. n : seq[i] = e
  BY <1>4 DEF Surjection
<1>. QED
  BY <1>1, <1>2, <1>5 DEF InOrder, n

(* The entries of the list of most active users.                           *)
Entries == [user : Ids, active_days : Nat, total_solved : Nat]

(* The most active users are put in an order of which every two entries of *)
(* different users are in one.                                             *)
LEMMA EntriesSorted ==
  ASSUME NEW E \in SUBSET Entries, IsFiniteSet(E),
         \A a, b \in E : a.user = b.user => a = b
  PROVE  InOrder(Sorted(E, Before), E, {p \in E \X E : Before(p[1], p[2])})
<1> DEFINE R == {p \in E \X E : Before(p[1], p[2])}
           seq == Sorted(E, Before)
<1>1. \A a, b \in E : <<a, b>> \in R <=> Before(a, b)
  OBVIOUS
<1>2. \A a, b \in E : Before(a, b) <=>
        \/ a.active_days > b.active_days
        \/ a.active_days = b.active_days /\ a.total_solved > b.total_solved
        \/ /\ a.active_days = b.active_days /\ a.total_solved = b.total_solved
           /\ a.user < b.user
  BY DEF Before, Entries
<1>3. \A a \in E : a.user \in Nat /\ a.active_days \in Nat /\ a.total_solved \in Nat
  BY LeaderboardAssumption DEF Entries
<1>4. TotalOrder(E, R)
  <2> HIDE DEF R
  <2>1. \A a \in E : <<a, a>> \notin R
    BY <1>1, <1>2, <1>3
  <2>2. ASSUME NEW a \in E, NEW b \in E, a # b
        PROVE  <<a, b>> \in R \/ <<b, a>> \in R
    <3>1. a.user # b.user
      BY <2>2
    <3>. QED
      BY <1>1, <1>2, <1>3, <3>1
  <2>3. ASSUME NEW a \in E, NEW b \in E, NEW c \in E, <<a, b>> \in R, <<b, c>> \in R
        PROVE  <<a, c>> \in R
    BY <1>1, <1>2, <1>3, <2>3
  <2>. QED
    BY <2>1, <2>2, <2>3 DEF TotalOrder
<1>5. \A s \in SetToSeqs(E) : \A i, j \in DOMAIN s : s[i] \in E /\ s[j] \in E
  BY DEF SetToSeqs
<1>6. /\ seq \in SetToSeqs(E)
      /\ \A i, j \in DOMAIN seq : i < j => Before(seq[i], seq[j])
  <2>1. \E s \in SetToSeqs(E) : \A i, j \in DOMAIN s : i < j => Before(s[i], s[j])
    <3> HIDE DEF R
    <3>1. PICK s \in SetToSeqs(E) : \A i, j \in DOMAIN s : i < j => <<s[i], s[j]>> \in R
      BY <1>4, OrderExists
    <3>. QED
      BY <1>1, <1>5, <3>1
  <2>. QED
    BY <2>1 DEF Sorted
<1> HIDE DEF seq
<1>7. \A i, j \in DOMAIN seq : i < j => <<seq[i], seq[j]>> \in R
  BY <1>1, <1>5, <1>6
<1> HIDE DEF R
<1>8. InOrder(seq, E, R)
  BY <1>6, <1>7, OrderFacts
<1>. QED
  BY <1>8 DEF R, seq

(* The ids of users are in their order.                                    *)
LEMMA IdsSorted ==
  ASSUME NEW E \in SUBSET Nat, IsFiniteSet(E)
  PROVE  InOrder(Sorted(E, <), E, {p \in E \X E : p[1] < p[2]})
<1> DEFINE R == {p \in E \X E : p[1] < p[2]}
           seq == Sorted(E, <)
<1>1. \A a, b \in E : <<a, b>> \in R <=> a < b
  OBVIOUS
<1>2. TotalOrder(E, R)
  <2> HIDE DEF R
  <2>. QED
    BY <1>1 DEF TotalOrder
<1>3. \A s \in SetToSeqs(E) : \A i, j \in DOMAIN s : s[i] \in E /\ s[j] \in E
  BY DEF SetToSeqs
<1>4. /\ seq \in SetToSeqs(E)
      /\ \A i, j \in DOMAIN seq : i < j => seq[i] < seq[j]
  <2>1. \E s \in SetToSeqs(E) : \A i, j \in DOMAIN s : i < j => s[i] < s[j]
    <3> HIDE DEF R
    <3>1. PICK s \in SetToSeqs(E) : \A i, j \in DOMAIN s : i < j => <<s[i], s[j]>> \in R
      BY <1>2, OrderExists
    <3>. QED
      BY <1>1, <1>3, <3>1
  <2>. QED
    BY <2>1 DEF Sorted
<1> HIDE DEF seq
<1>5. \A i, j \in DOMAIN seq : i < j => <<seq[i], seq[j]>> \in R
  BY <1>1, <1>3, <1>4
<1> HIDE DEF R
<1>6. InOrder(seq, E, R)
  BY <1>4, <1>5, OrderFacts
<1>. QED
  BY <1>6 DEF R, seq

-----------------------------------------------------------------------------
(* A set of numbers up to m that is not empty has a greatest one.          *)
LEMMA Greatest ==
  ASSUME NEW m \in Nat, NEW D \in SUBSET (0 .. m), D # {}
  PROVE  Max(D) \in D /\ \A e \in D : e <= Max(D)
<1> DEFINE S == {m - d : d \in D}
<1>1. S \in SUBSET Nat /\ S # {}
  <2>1. \A d \in D : d \in Nat /\ d <= m /\ m - d \in Nat
    OBVIOUS
  <2>. QED
    BY <2>1
<1>2. PICK n \in S : \A k \in S : <<k, n>> \notin OpToRel(<, Nat)
  BY <1>1, WFMin, NatLessThanWellFounded
<1>3. PICK d \in D : n = m - d
  OBVIOUS
<1>4. ASSUME NEW e \in D PROVE d >= e
  <2>1. m - e \in S /\ m - e \in Nat /\ n \in Nat
    BY <1>1
  <2>2. ~(m - e < n)
    BY <1>2, <2>1 DEF OpToRel
  <2>. QED
    BY <1>3, <2>1, <2>2
<1>5. Max(D) \in D /\ \A e \in D : Max(D) >= e
  BY <1>4 DEF Max
<1>. QED
  BY <1>5

(* A set of days that is not empty has a last one.                         *)
LEMMA LastDay ==
  ASSUME NEW D \in SUBSET Days, D # {}
  PROVE  Max(D) \in D /\ \A e \in D : e <= Max(D)
<1>1. MaxDay \in Nat
  BY LeaderboardAssumption
<1>. QED
  BY <1>1, Greatest DEF Days

(* row_number() = 2: the date before the last, if there is one.            *)
LEMMA SecondRow ==
  ASSUME NEW t, NEW u, Dates(t, u) # {}
  PROVE  LET earlier == Dates(t, u) \ {LatestDate(t, u)}
         IN  PreviousDates(t, u) = IF earlier = {} THEN {} ELSE {Max(earlier)}
<1> DEFINE D == Dates(t, u)
           last == Max(D)
           earlier == D \ {last}
           After(d) == {e \in D : e > d}
<1>1. D \in SUBSET Days /\ last \in D /\ \A e \in D : e <= last /\ e \in Nat
  BY LastDay DEF Dates, Days
<1>2. earlier # {} => Max(earlier) \in earlier /\ \A e \in earlier : e <= Max(earlier)
  BY <1>1, LastDay
<1>3. PreviousDates(t, u) = {d \in D : Cardinality(After(d)) = 1}
  BY DEF PreviousDates
<1> HIDE DEF D, last
<1>4. ASSUME NEW d \in D
      PROVE  Cardinality(After(d)) = 1 <=> earlier # {} /\ d = Max(earlier)
  <2>1. IsFiniteSet(After(d))
    <3>1. 0 \in Int /\ MaxDay \in Int
      BY LeaderboardAssumption
    <3>2. IsFiniteSet(Days)
      BY <3>1, FS_Interval DEF Days
    <3>3. After(d) \subseteq Days
      BY <1>1
    <3>. QED
      BY <3>2, <3>3, FS_Subset
  <2>2. Cardinality(After(d)) = 1 <=> \E x : After(d) = {x}
    BY <2>1, FS_Singleton
  <2>3. ASSUME earlier # {}, d = Max(earlier) PROVE After(d) = {last}
    <3>1. d \in earlier /\ \A e \in earlier : e <= d
      BY <1>2, <2>3
    <3>2. d < last
      BY <1>1, <3>1
    <3>. QED
      BY <1>1, <3>1, <3>2
  <2>4. ASSUME NEW x, After(d) = {x} PROVE earlier # {} /\ d = Max(earlier)
    <3>1. x \in D /\ x > d /\ \A e \in D : e > d => e = x
      BY <2>4
    <3>2. last = x /\ d # last
      BY <1>1, <3>1
    <3>3. d \in earlier /\ \A e \in earlier : e <= d
      BY <1>1, <3>1, <3>2
    <3>. QED
      BY <1>1, <1>2, <3>3
  <2>. QED
    BY <2>2, <2>3, <2>4
<1>5. PreviousDates(t, u) = IF earlier = {} THEN {} ELSE {Max(earlier)}
  BY <1>2, <1>3, <1>4
<1>. QED
  BY <1>5 DEF LatestDate, D, last

(* The sum over at most one previous total.                                *)
LEMMA SumOfOne ==
  ASSUME NEW x \in Int
  PROVE  /\ MapThenSumSet(LAMBDA p : p, {}) = 0
         /\ MapThenSumSet(LAMBDA p : p, {x}) = x
<1> DEFINE F(S, iter) == [s \in SUBSET S |->
                            IF s = {} THEN 0
                            ELSE LET z == CHOOSE y \in s : TRUE IN z + iter[s \ {z}]]
           it(S) == CHOOSE iter : iter = F(S, iter)
<1>1. it({})[{}] = 0
  <2> DEFINE g == [s \in SUBSET {} |-> 0]
  <2>1. g = F({}, g)
    OBVIOUS
  <2>2. it({}) = F({}, it({}))
    BY <2>1
  <2>. QED
    BY <2>2
<1>2. it({x})[{x}] = x
  <2> DEFINE g == [s \in SUBSET {x} |-> IF s = {} THEN 0 ELSE x]
             i == it({x})
  <2>1. /\ \A s \in SUBSET {x} : s = {} \/ s = {x}
        /\ {x} \ {x} = {} /\ x + 0 = x
    <3>1. \A s \in SUBSET {x} : s = {} \/ s = {x}
      OBVIOUS
    <3>2. {x} \ {x} = {}
      OBVIOUS
    <3>3. x + 0 = x
      OBVIOUS
    <3>. QED
      BY <3>1, <3>2, <3>3
  <2>7. (CHOOSE y \in {x} : TRUE) = x
    OBVIOUS
  <2>2. g = F({x}, g)
    <3>1. ASSUME NEW s \in SUBSET {x} PROVE g[s] = F({x}, g)[s]
      <4>1. CASE s = {}
        BY <4>1
      <4>2. CASE s = {x}
        <5>1. g[{}] = 0 /\ g[{x}] = x
          OBVIOUS
        <5>2. F({x}, g)[{x}] = x + g[{x} \ {x}]
          BY <2>7
        <5>. QED
          BY <2>1, <4>2, <5>1, <5>2
      <4>. QED
        BY <2>1, <4>1, <4>2
    <3>. QED
      BY <3>1
  <2> HIDE DEF g
  <2>3. i = F({x}, i)
    BY <2>2
  <2> HIDE DEF i
  <2>4. F({x}, i)[{}] = 0 /\ F({x}, i)[{x}] = x + i[{x} \ {x}]
    BY <2>7
  <2>5. i[{}] = 0 /\ i[{x}] = x + i[{}]
    BY <2>1, <2>3, <2>4
  <2>6. i[{x}] = x
    BY <2>1, <2>5
  <2>. QED
    BY <2>6 DEF i
<1>. QED
  BY <1>1, <1>2 DEF MapThenSumSet, MapThenFoldSet

(* The difference of an entry, if the second query saw a date before the   *)
(* last or none.                                                           *)
LEMMA Difference ==
  ASSUME NEW t, NEW t2, NEW u, Latest(t, u) \in Int
  PROVE  LET entry == WeeklyEntry(t, t2, u)
         IN  /\ PreviousDates(t2, u) = {} =>
                  entry.previous_total = NULL /\ entry.delta_total = Latest(t, u)
             /\ \A d : PreviousDates(t2, u) = {d} /\ t2[u][d] \in Int =>
                  entry.delta_total = Latest(t, u) - t2[u][d]
<1> DEFINE previous == {t2[u][d] : d \in PreviousDates(t2, u)}
           sum == MapThenSumSet(LAMBDA p : p, previous)
           entry == WeeklyEntry(t, t2, u)
<1>1. /\ entry.previous_total = IF previous = {} THEN NULL ELSE Max(previous)
      /\ entry.delta_total = Latest(t, u) - sum
  BY DEF WeeklyEntry
<1>2. ASSUME PreviousDates(t2, u) = {} PROVE previous = {} /\ sum = 0
  <2>1. previous = {}
    BY <1>2
  <2>2. MapThenSumSet(LAMBDA p : p, {}) = 0
    BY SumOfOne
  <2>. QED
    BY <2>1, <2>2
<1>3. ASSUME NEW d, PreviousDates(t2, u) = {d}, t2[u][d] \in Int PROVE sum = t2[u][d]
  <2>1. previous = {t2[u][d]}
    BY <1>3
  <2>2. MapThenSumSet(LAMBDA p : p, {t2[u][d]}) = t2[u][d]
    BY <1>3, SumOfOne
  <2>. QED
    BY <2>1, <2>2
<1> HIDE DEF entry, sum, previous
<1>4. Latest(t, u) - 0 = Latest(t, u)
  OBVIOUS
<1>. QED
  BY <1>1, <1>2, <1>3, <1>4 DEF entry

(* What the first query saw is still there unless its user is gone, and of *)
(* the dates that had ended more than MaxLate days before it still all     *)
(* there is.                                                               *)
ViewKept ==
  reader.stage # "idle" =>
    /\ reader.snapshots \in Table /\ reader.today \in Nat /\ reader.today <= today
    /\ \A u \in Ids, d \in Days :
         reader.snapshots[u][d] # NULL => /\ u \in used
                                          /\ u \in users => snapshots[u][d] # NULL
    /\ \A u \in users, d \in Days :
         d + MaxLate < reader.today => snapshots[u][d] = reader.snapshots[u][d]

(* This is an invariant, as deleted users do not come back.                *)
LEMMA ViewStep ==
  ASSUME StoreInv, ReaderType, ViewKept, [LeaderboardNext]_readVars
  PROVE  ViewKept'
<1>1. /\ snapshots \in Table /\ today \in Nat /\ users \subseteq used
      /\ users \subseteq Ids /\ NULL \notin Counts
      /\ \A u \in Ids, d \in Days : snapshots[u][d] # NULL => u \in users
  BY LeaderboardAssumption DEF StoreInv, NoOrphans, Table
<1>2. ASSUME NEW stage, Query(stage) PROVE ViewKept'
  BY <1>1, <1>2 DEF Query, vars, ViewKept
<1>3. CASE Respond
  BY <1>3 DEF Respond, Idle, vars, ViewKept
<1>4. CASE Midnight /\ UNCHANGED reader
  <2>1. today' = today + 1 /\ UNCHANGED <<used, users, snapshots, reader>>
    BY <1>4 DEF Midnight
  <2>2. reader.today \in Nat /\ reader.today <= today => reader.today <= today + 1
    BY <1>1
  <2>. QED
    BY <2>1, <2>2 DEF ViewKept
<1>5. CASE UNCHANGED readVars
  BY <1>5 DEF readVars, vars, ViewKept
<1>6. CASE Commit
  <2>1. /\ reader'.stage = reader.stage /\ reader'.snapshots = reader.snapshots
        /\ reader'.today = reader.today
    BY <1>6 DEF Commit, ReaderType, Readers
  <2>2. ASSUME NEW v \in Ids, Create(v) PROVE ViewKept'
    <3>1. /\ v \notin used /\ used' = used \cup {v} /\ users' = users \cup {v}
          /\ UNCHANGED <<today, snapshots>>
      BY <2>2 DEF Create
    <3>2. reader.stage # "idle" =>
            \A d \in Days : reader.snapshots[v][d] = NULL /\ snapshots[v][d] = NULL
      BY <1>1, <3>1 DEF ViewKept
    <3>. QED
      BY <2>1, <3>1, <3>2 DEF ViewKept
  <2>3. ASSUME NEW v \in Ids, Delete(v) PROVE ViewKept'
    <3>1. /\ users' = users \ {v} /\ UNCHANGED <<today, used>>
          /\ \A u \in Ids, d \in Days :
               snapshots'[u][d] = IF u = v THEN NULL ELSE snapshots[u][d]
      BY <1>1, <2>3 DEF Delete, Table
    <3>. QED
      BY <1>1, <2>1, <3>1 DEF ViewKept
  <2>4. ASSUME NEW v \in Ids, NEW e \in Days, NEW c \in Counts, Upsert(v, e, c)
        PROVE  ViewKept'
    <3>1. /\ UNCHANGED <<today, used, users>> /\ today <= e + MaxLate
          /\ \A u \in Ids, d \in Days :
               snapshots'[u][d] = IF u = v /\ d = e THEN c ELSE snapshots[u][d]
      BY <1>1, <2>4 DEF Upsert, Table
    <3>2. reader.stage # "idle" => ~(e + MaxLate < reader.today)
      BY <1>1, <3>1, LeaderboardAssumption DEF ViewKept, Days
    <3>. QED
      BY <1>1, <2>1, <3>1, <3>2 DEF ViewKept
  <2>. QED
    BY <1>6, <2>2, <2>3, <2>4 DEF Commit, Write
<1>. QED
  BY <1>2, <1>3, <1>4, <1>5, <1>6 DEF LeaderboardNext

(* An entry, whatever was stored between its two queries.                  *)
LEMMA EntryExact ==
  ASSUME StoreInv, ReaderType, ViewKept, reader.stage = "weekly",
         NEW u \in Listed(reader.snapshots)
  PROVE  LET t       == reader.snapshots[u]
             last    == LatestDate(reader.snapshots, u)
             earlier == {d \in Dates(snapshots, u) : d < last}
             later   == {d \in Dates(snapshots, u) : d > last}
             entry   == WeeklyEntry(reader.snapshots, snapshots, u)
         IN  /\ u \in users /\ later = {} =>
                  entry.delta_total =
                    t[last] - (IF earlier = {} THEN 0 ELSE snapshots[u][Max(earlier)])
             /\ u \notin users =>
                  entry.previous_total = NULL /\ entry.delta_total = t[last]
             /\ u \in users /\ Cardinality(later) = 1 =>
                  entry.delta_total = t[last] - snapshots[u][last]
<1> DEFINE t       == reader.snapshots[u]
           t2      == snapshots[u]
           D       == Dates(reader.snapshots, u)
           D2      == Dates(snapshots, u)
           last    == LatestDate(reader.snapshots, u)
           earlier == {d \in D2 : d < last}
           later   == {d \in D2 : d > last}
           entry   == WeeklyEntry(reader.snapshots, snapshots, u)
<1>1. /\ u \in Ids /\ D \in SUBSET Days /\ D # {} /\ D2 \in SUBSET Days
      /\ last = Max(D) /\ Latest(reader.snapshots, u) = t[last]
      /\ \A d \in Days : (d \in D <=> t[d] # NULL) /\ (d \in D2 <=> t2[d] # NULL)
  BY DEF Listed, Dates, LatestDate, Latest
<1>2. /\ \A d \in D : t[d] \in Int
      /\ \A d \in D2 : t2[d] \in Int
      /\ Days \subseteq Nat
  <2>1. /\ Counts \subseteq Nat /\ NULL \notin Int /\ Days \subseteq Nat
        /\ \A d \in Days : t[d] \in Counts \cup {NULL} /\ t2[d] \in Counts \cup {NULL}
    BY <1>1, LeaderboardAssumption DEF ViewKept, StoreInv, Table, Days
  <2> HIDE DEF t, t2, D, D2
  <2>2. ASSUME NEW d \in D PROVE t[d] \in Int
    <3>1. t[d] \in Counts
      BY <1>1, <2>1
    <3>2. Counts \subseteq Int
      BY <2>1
    <3>. QED
      BY <3>1, <3>2
  <2>3. ASSUME NEW d \in D2 PROVE t2[d] \in Int
    <3>1. t2[d] \in Counts
      BY <1>1, <2>1
    <3>2. Counts \subseteq Int
      BY <2>1
    <3>. QED
      BY <3>1, <3>2
  <2>. QED
    BY <2>1, <2>2, <2>3
<1>3. last \in D
  BY <1>1, LastDay
<1>4. t[last] \in Int
  BY <1>2, <1>3
<1>5. u \in users => last \in D2
  BY <1>1, <1>3 DEF ViewKept
<1>6. D2 # {} => PreviousDates(snapshots, u) =
                   LET e2 == D2 \ {Max(D2)} IN IF e2 = {} THEN {} ELSE {Max(e2)}
  BY SecondRow DEF LatestDate
<1>7. /\ PreviousDates(snapshots, u) = {} =>
           entry.previous_total = NULL /\ entry.delta_total = t[last]
      /\ \A d : PreviousDates(snapshots, u) = {d} /\ t2[d] \in Int =>
           entry.delta_total = t[last] - t2[d]
  BY <1>1, <1>4, Difference
<1> HIDE DEF entry, t, t2, D, D2, last
<1>8. ASSUME u \in users, later = {}
      PROVE  entry.delta_total = t[last] - (IF earlier = {} THEN 0 ELSE t2[Max(earlier)])
  <2>1. Max(D2) = last /\ D2 \ {last} = earlier /\ D2 # {}
    <3>1. ASSUME NEW d \in D2 PROVE d \in Nat /\ d <= last
      <4>1. d \in Nat /\ last \in Nat
        BY <1>1, <1>2, <1>3
      <4>2. ~(d > last)
        BY <1>8
      <4>. QED
        BY <4>1, <4>2
    <3>2. Max(D2) \in D2 /\ \A e \in D2 : e <= Max(D2)
      BY <1>1, <1>5, <1>8, LastDay
    <3>. QED
      BY <1>5, <1>8, <3>1, <3>2
  <2>2. CASE earlier = {}
    <3>1. PreviousDates(snapshots, u) = {}
      BY <1>6, <2>1, <2>2
    <3>2. t[last] - 0 = t[last]
      BY <1>4
    <3>. QED
      BY <1>7, <2>2, <3>1, <3>2
  <2>3. CASE earlier # {}
    <3>1. PreviousDates(snapshots, u) = {Max(earlier)}
      BY <1>6, <2>1, <2>3
    <3>2. Max(earlier) \in earlier
      BY <1>1, <2>3, LastDay
    <3>3. t2[Max(earlier)] \in Int
      BY <1>2, <3>2
    <3>. QED
      BY <1>7, <2>3, <3>1, <3>3
  <2>. QED
    BY <2>2, <2>3
<1>9. ASSUME u \notin users PROVE entry.previous_total = NULL /\ entry.delta_total = t[last]
  <2>1. D2 = {}
    BY <1>1, <1>9 DEF StoreInv, NoOrphans, t2
  <2>2. PreviousDates(snapshots, u) = {}
    BY <2>1 DEF PreviousDates, D2
  <2>. QED
    BY <1>7, <2>2
<1>10. ASSUME u \in users, Cardinality(later) = 1
       PROVE  entry.delta_total = t[last] - t2[last]
  <2>1. PICK n : later = {n}
    <3>1. IsFiniteSet(later)
      <4>1. 0 \in Int /\ MaxDay \in Int
        BY LeaderboardAssumption
      <4>2. IsFiniteSet(Days)
        BY <4>1, FS_Interval DEF Days
      <4>3. later \subseteq Days
        BY <1>1
      <4>. QED
        BY <4>2, <4>3, FS_Subset
    <3>. QED
      BY <1>10, <3>1, FS_Singleton
  <2>2. /\ last \in D2 /\ n \in D2 /\ n > last
        /\ \A e \in D2 : e \in Nat /\ (e <= last \/ e = n)
    <3>1. n \in later /\ last \in D2
      BY <1>5, <1>10, <2>1
    <3>2. ASSUME NEW e \in D2 PROVE e \in Nat /\ (e <= last \/ e = n)
      <4>1. e \in Nat /\ last \in Nat
        BY <1>1, <1>2, <1>3
      <4>2. e > last => e \in later
        OBVIOUS
      <4>. QED
        BY <2>1, <4>1, <4>2
    <3>. QED
      BY <3>1, <3>2
  <2>3. Max(D2) = n
    <3>1. Max(D2) \in D2 /\ \A e \in D2 : e <= Max(D2)
      BY <1>1, <2>2, LastDay
    <3>. QED
      BY <2>2, <3>1
  <2>4. Max(D2 \ {n}) = last /\ D2 \ {n} # {}
    <3>1. D2 \ {n} \in SUBSET Days /\ last \in D2 \ {n}
      BY <1>1, <2>2
    <3>2. Max(D2 \ {n}) \in D2 \ {n} /\ \A e \in D2 \ {n} : e <= Max(D2 \ {n})
      BY <3>1, LastDay
    <3>. QED
      BY <2>2, <3>1, <3>2
  <2>5. PreviousDates(snapshots, u) = {last}
    BY <1>6, <2>2, <2>3, <2>4
  <2>6. t2[last] \in Int
    BY <1>2, <2>2
  <2>. QED
    BY <1>7, <2>5, <2>6
<1>. QED
  BY <1>8, <1>9, <1>10 DEF t, t2, D, D2, last, entry

(* An entry of the weekly comparison is the difference to the date before, *)
(* unless its user was deleted, or a later snapshot of it stored, between  *)
(* the two queries: then it is the whole total, or what was overwritten.   *)
THEOREM WeeklyIsExact == LeaderboardSpec => []WeeklyExact
<1>1. LeaderboardInit => ViewKept
  BY DEF LeaderboardInit, Init, Idle, ViewKept
<1>2. ReaderInv /\ ViewKept /\ [LeaderboardNext]_readVars => ViewKept'
  BY ViewStep DEF ReaderInv
<1>3. ReaderInv /\ ViewKept => WeeklyExact
  BY EntryExact DEF ReaderInv, WeeklyExact
<1>. QED
  BY <1>1, <1>2, <1>3, ReaderAlways, PTL DEF LeaderboardSpec

-----------------------------------------------------------------------------
(* A set of days that is not empty has a first one.                        *)
LEMMA FirstDay ==
  ASSUME NEW D \in SUBSET Days, D # {}
  PROVE  Min(D) \in D /\ \A e \in D : Min(D) <= e
<1>1. D \subseteq Nat
  BY DEF Days
<1>2. PICK d \in D : \A e \in D : <<e, d>> \notin OpToRel(<, Nat)
  BY <1>1, WFMin, NatLessThanWellFounded
<1>3. \A e \in D : ~(e < d)
  BY <1>1, <1>2 DEF OpToRel
<1>4. d \in D /\ \A e \in D : d <= e
  BY <1>1, <1>3
<1>. QED
  BY <1>4 DEF Min

(* The lesser of two numbers.                                              *)
LEMMA MinOfTwo ==
  ASSUME NEW a \in Int, NEW b \in Int
  PROVE  Min({a, b}) = IF a <= b THEN a ELSE b
<1> DEFINE m == IF a <= b THEN a ELSE b
<1>1. m \in {a, b} /\ \A y \in {a, b} : m <= y
  OBVIOUS
<1>2. Min({a, b}) \in {a, b} /\ \A y \in {a, b} : Min({a, b}) <= y
  BY <1>1 DEF Min
<1>. QED
  BY <1>1, <1>2

(* The active days of a user, from the table alone.                        *)
Window(t, n, u) == {d \in Dates(t, u) : d >= n - ActiveDays}

(* They are the same whatever was fetched for the trend.                   *)
LEMMA ActiveIsWindow ==
  ASSUME NEW t, NEW n \in Int, NEW trend \in Int, NEW u \in Ids
  PROVE  Active(Fetched(t, n, trend), n, u) = Window(t, n, u)
<1>1. /\ n - trend \in Int /\ n - ActiveDays \in Int
      /\ Since(n, trend) \in Int /\ Since(n, trend) <= n - ActiveDays
  <2>1. n - trend \in Int /\ n - ActiveDays \in Int
    BY LeaderboardAssumption
  <2>. QED
    BY <2>1, MinOfTwo DEF Since
<1>2. \A d \in Days : d \in Int /\ (d >= n - ActiveDays => d >= Since(n, trend))
  BY <1>1 DEF Days
<1>3. \A d \in Days : <<u, d>> \in Fetched(t, n, trend) <=>
                        d \in Dates(t, u) /\ d >= Since(n, trend)
  BY DEF Fetched
<1>. QED
  BY <1>2, <1>3 DEF Active, Window, Dates

(* seq[:n] is an initial part of the sequence, all of it if n is enough.   *)
LEMMA SliceFacts ==
  ASSUME NEW S, NEW seq \in Seq(S), NEW n \in Int
  PROVE  /\ Slice(seq, n) \in Seq(S)
         /\ Len(Slice(seq, n)) <= Len(seq)
         /\ n >= Len(seq) => Len(Slice(seq, n)) = Len(seq)
         /\ \A i \in 1 .. Len(Slice(seq, n)) : Slice(seq, n)[i] = seq[i]
<1> DEFINE m == IF n >= 0 THEN Min({n, Len(seq)}) ELSE Len(seq) + n
<1>1. Len(seq) \in Nat /\ m \in Int /\ m <= Len(seq) /\ (n >= Len(seq) => m = Len(seq))
  BY MinOfTwo
<1>2. Slice(seq, n) = SubSeq(seq, 1, m)
  BY DEF Slice
<1> HIDE DEF m
<1>3. CASE m < 0
  <2>1. SubSeq(seq, 1, m) = <<>>
    BY <1>1, <1>3
  <2>. QED
    BY <1>1, <1>2, <1>3, <2>1
<1>4. CASE m >= 0
  BY <1>1, <1>2, <1>4
<1>. QED
  BY <1>1, <1>3, <1>4

(* The entries of the active users, before they are sorted and cut.        *)
ActiveUsers(t, n) == {u \in Ids : Window(t, n, u) # {}}

EntryOf(t, n, u) ==
  [user |-> u, active_days |-> Cardinality(Window(t, n, u)),
   total_solved |-> t[u][Max(Window(t, n, u))]]

(* They are finitely many, and every active user has an entry.             *)
LEMMA WindowFacts ==
  ASSUME NEW t \in Table, NEW n \in Int, NEW u \in Ids
  PROVE  /\ Window(t, n, u) \in SUBSET Dates(t, u) /\ Dates(t, u) \in SUBSET Days
         /\ IsFiniteSet(Window(t, n, u)) /\ Cardinality(Window(t, n, u)) \in Nat
         /\ \A d \in Dates(t, u) : t[u][d] \in Counts /\ t[u][d] \in Nat
         /\ u \in ActiveUsers(t, n) => EntryOf(t, n, u) \in Entries
<1>1. Window(t, n, u) \in SUBSET Dates(t, u) /\ Dates(t, u) \in SUBSET Days
  BY DEF Window, Dates
<1>2. IsFiniteSet(Window(t, n, u)) /\ Cardinality(Window(t, n, u)) \in Nat
  <2>1. 0 \in Int /\ MaxDay \in Int
    BY LeaderboardAssumption
  <2>2. IsFiniteSet(Days)
    BY <2>1, FS_Interval DEF Days
  <2>. QED
    BY <1>1, <2>2, FS_Subset, FS_CardinalityType
<1>3. ASSUME NEW d \in Dates(t, u) PROVE t[u][d] \in Counts /\ t[u][d] \in Nat
  <2>1. t[u][d] \in Counts
    BY DEF Dates, Table
  <2>. QED
    BY <2>1, LeaderboardAssumption
<1>4. ASSUME u \in ActiveUsers(t, n) PROVE EntryOf(t, n, u) \in Entries
  <2>1. Max(Window(t, n, u)) \in Dates(t, u)
    BY <1>1, <1>4, LastDay DEF ActiveUsers
  <2>. QED
    BY <1>2, <1>3, <2>1 DEF EntryOf, Entries
<1>. QED
  BY <1>1, <1>2, <1>3, <1>4

(* The list is the entries of active users, in their order, up to a limit. *)
LEMMA MostActiveFacts ==
  ASSUME NEW t \in Table, IsFiniteSet(Listed(t)),
         NEW n \in Int, NEW trend \in Int, NEW limit \in Int
  PROVE  LET list == MostActiveUsers(t, n, Fetched(t, n, trend), limit)
             A    == ActiveUsers(t, n)
         IN  /\ list \in Seq(Entries) /\ Len(list) \in Nat
             /\ \A i \in 1 .. Len(list) :
                  list[i].user \in A /\ list[i] = EntryOf(t, n, list[i].user)
             /\ \A i, j \in 1 .. Len(list) :
                  i < j => list[i].user # list[j].user /\ Before(list[i], list[j])
             /\ \A u \in A, i \in 1 .. Len(list) :
                  \/ \E j \in 1 .. Len(list) : list[j].user = u
                  \/ Before(list[i], EntryOf(t, n, u))
             /\ limit >= Cardinality(A) =>
                  \A u \in A : \E j \in 1 .. Len(list) : list[j].user = u
<1> DEFINE A    == ActiveUsers(t, n)
           E    == {EntryOf(t, n, u) : u \in A}
           full == Sorted(E, Before)
           R    == {p \in E \X E : Before(p[1], p[2])}
           list == Slice(full, limit)
           k    == Cardinality(E)
<1>1. MostActiveUsers(t, n, Fetched(t, n, trend), limit) = list
  <2> DEFINE rows == Fetched(t, n, trend)
             B == {v \in Ids : Active(rows, n, v) # {}}
             Of(u) == [user |-> u, active_days |-> Cardinality(Active(rows, n, u)),
                       total_solved |-> t[u][Max(Active(rows, n, u))]]
  <2>1. \A u \in Ids : Active(rows, n, u) = Window(t, n, u)
    BY ActiveIsWindow
  <2>2. B = A
    BY <2>1 DEF ActiveUsers
  <2>3. \A u \in B : Of(u) = EntryOf(t, n, u)
    BY <2>1 DEF EntryOf
  <2>4. {Of(u) : u \in B} = E
    <3> HIDE DEF B, Of
    <3>. QED
      BY <2>2, <2>3
  <2>5. MostActiveUsers(t, n, rows, limit) = Slice(Sorted({Of(u) : u \in B}, Before), limit)
    BY DEF MostActiveUsers
  <2> HIDE DEF B, Of, E
  <2>. QED
    BY <2>4, <2>5
<1>2. A \in SUBSET Ids /\ IsFiniteSet(A) /\ Cardinality(A) \in Nat
  <2>1. A \in SUBSET Listed(t)
    BY DEF ActiveUsers, Listed, Window
  <2>2. A \in SUBSET Ids
    BY DEF ActiveUsers
  <2>. QED
    BY <2>1, <2>2, FS_Subset, FS_CardinalityType
<1>3. /\ \A u \in A : EntryOf(t, n, u) \in Entries /\ EntryOf(t, n, u).user = u
      /\ E \in SUBSET Entries
      /\ \A e \in E : e.user \in A /\ e = EntryOf(t, n, e.user)
  <2>1. \A u \in A : EntryOf(t, n, u) \in Entries
    BY <1>2, WindowFacts
  <2>2. \A u \in A : EntryOf(t, n, u).user = u
    BY DEF EntryOf
  <2>. QED
    BY <2>1, <2>2
<1>4. IsFiniteSet(E) /\ k \in Nat /\ k <= Cardinality(A)
  <2> DEFINE f == [u \in A |-> EntryOf(t, n, u)]
  <2>1. f \in Surjection(A, E)
    BY DEF Surjection
  <2> HIDE DEF f, E, A
  <2>. QED
    BY <1>2, <2>1, FS_Surjection, FS_CardinalityType
<1> HIDE DEF A
<1>5. InOrder(full, E, R)
  <2>1. \A a, b \in E : a.user = b.user => a = b
    BY <1>3
  <2> HIDE DEF E
  <2>. QED
    BY <1>3, <1>4, <2>1, EntriesSorted
<1> HIDE DEF E, full
<1>6. /\ full \in [1 .. k -> E]
      /\ \A e \in E : \E i \in 1 .. k : full[i] = e
      /\ \A i, j \in 1 .. k : i < j => full[i] # full[j] /\ Before(full[i], full[j])
  <2>1. full \in [1 .. k -> E]
    BY <1>5 DEF InOrder
  <2>. QED
    BY <1>5, <2>1 DEF InOrder
<1> HIDE DEF k, R
<1>7. full \in Seq(Entries) /\ Len(full) = k
  BY <1>3, <1>4, <1>6
<1>8. /\ list \in Seq(Entries) /\ Len(list) \in Nat /\ Len(list) <= k
      /\ limit >= k => Len(list) = k
      /\ \A i \in 1 .. Len(list) : list[i] = full[i]
  <2>1. /\ list \in Seq(Entries) /\ Len(list) <= k
        /\ limit >= k => Len(list) = k
        /\ \A i \in 1 .. Len(list) : list[i] = full[i]
    BY <1>7, SliceFacts
  <2>. QED
    BY <2>1
<1> HIDE DEF list
<1>9. ASSUME NEW i \in 1 .. Len(list)
      PROVE  i \in 1 .. k /\ list[i] \in E /\ list[i].user \in A
             /\ list[i] = EntryOf(t, n, list[i].user)
  <2>1. i \in 1 .. k /\ list[i] \in E
    BY <1>4, <1>6, <1>8
  <2>. QED
    BY <1>3, <2>1
<1>10. ASSUME NEW i \in 1 .. Len(list), NEW j \in 1 .. Len(list), i < j
       PROVE  list[i].user # list[j].user /\ Before(list[i], list[j])
  <2>1. list[i] # list[j] /\ Before(list[i], list[j])
    BY <1>6, <1>8, <1>9, <1>10
  <2>. QED
    BY <1>9, <2>1
<1>11. ASSUME NEW u \in A, NEW j \in 1 .. k, full[j] = EntryOf(t, n, u), j <= Len(list)
       PROVE  \E i \in 1 .. Len(list) : list[i].user = u
  <2>1. j \in 1 .. Len(list)
    BY <1>4, <1>8, <1>11
  <2>2. list[j].user = u
    BY <1>3, <1>8, <1>11, <2>1
  <2>. QED
    BY <2>1, <2>2
<1>12. ASSUME NEW u \in A PROVE \E j \in 1 .. k : full[j] = EntryOf(t, n, u)
  <2>1. EntryOf(t, n, u) \in E
    BY DEF E
  <2>. QED
    BY <1>6, <2>1
<1>13. ASSUME NEW u \in A, NEW i \in 1 .. Len(list)
       PROVE  \/ \E j \in 1 .. Len(list) : list[j].user = u
              \/ Before(list[i], EntryOf(t, n, u))
  <2>1. PICK j \in 1 .. k : full[j] = EntryOf(t, n, u)
    BY <1>12
  <2>2. CASE j <= Len(list)
    BY <1>11, <2>1, <2>2
  <2>3. CASE j > Len(list)
    <3>1. i \in 1 .. k /\ i < j /\ list[i] = full[i]
      BY <1>4, <1>8, <1>9, <2>3
    <3>. QED
      BY <1>6, <2>1, <3>1
  <2>. QED
    BY <1>4, <1>8, <2>2, <2>3
<1>14. ASSUME limit >= Cardinality(A), NEW u \in A
       PROVE  \E j \in 1 .. Len(list) : list[j].user = u
  <2>1. PICK j \in 1 .. k : full[j] = EntryOf(t, n, u)
    BY <1>12
  <2>2. j <= Len(list)
    BY <1>2, <1>4, <1>8, <1>14
  <2>. QED
    BY <1>11, <2>1, <2>2
<1>. QED
  BY <1>1, <1>8, <1>9, <1>10, <1>13, <1>14 DEF A

(* The second query of a dashboard sees a table of snapshots of finitely   *)
(* many users.                                                             *)
LEMMA Seen ==
  ReaderInv => /\ snapshots \in Table /\ IsFiniteSet(Listed(snapshots))
               /\ reader.today \in Int
<1> SUFFICES ASSUME ReaderInv
             PROVE  /\ snapshots \in Table /\ IsFiniteSet(Listed(snapshots))
                    /\ reader.today \in Int
  OBVIOUS
<1>1. StoreInv /\ ReaderType /\ IsFiniteSet(users)
  BY DEF ReaderInv
<1>2. IsFiniteSet(Listed(snapshots))
  BY <1>1, ListedAreUsers, FS_Subset
<1>. QED
  BY <1>1, <1>2 DEF StoreInv, Table, ReaderType, Readers

(* The order of the list is the order of the entries, and the total of an  *)
(* entry is the latest one, as the window ends with the last date.         *)
LEMMA RankedInv == ReaderInv => MostActiveRanked
<1> SUFFICES ASSUME ReaderInv, reader.stage = "dashboard",
                    NEW trend \in TrendDays, NEW limit \in Limits
             PROVE  LET n == reader.today
                        list == MostActiveUsers(snapshots, n,
                                  Fetched(snapshots, n, trend), limit)
                        listed == {list[i].user : i \in 1 .. Len(list)}
                        Recent(u) == {d \in Dates(snapshots, u) : d >= n - ActiveDays}
                        Days30(u) == Cardinality(Recent(u))
                    IN  /\ \A i, j \in 1 .. Len(list) :
                             i < j => /\ list[i].user # list[j].user
                                      /\ list[i].active_days >= list[j].active_days
                                      /\ list[i].active_days = list[j].active_days =>
                                           list[i].total_solved >= list[j].total_solved
                        /\ \A u \in Ids \ listed, i \in 1 .. Len(list) :
                             \/ Days30(u) < list[i].active_days
                             \/ /\ Days30(u) = list[i].active_days
                                /\ snapshots[u][Max(Recent(u))] <= list[i].total_solved
                        /\ limit >= Cardinality({u \in Ids : Days30(u) > 0}) =>
                             listed = {u \in Ids : Days30(u) > 0}
                        /\ \A i \in 1 .. Len(list) :
                             snapshots[list[i].user] = reader.snapshots[list[i].user] =>
                               list[i].total_solved =
                                 Latest(reader.snapshots, list[i].user)
  BY DEF MostActiveRanked
<1> DEFINE n == reader.today
           list == MostActiveUsers(snapshots, n, Fetched(snapshots, n, trend), limit)
           listed == {list[i].user : i \in 1 .. Len(list)}
           Recent(u) == {d \in Dates(snapshots, u) : d >= n - ActiveDays}
           Days30(u) == Cardinality(Recent(u))
           A == ActiveUsers(snapshots, n)
           Of(u) == EntryOf(snapshots, n, u)
<1>1. /\ snapshots \in Table /\ IsFiniteSet(Listed(snapshots))
      /\ n \in Int /\ trend \in Int /\ limit \in Int
  BY Seen, LeaderboardAssumption
<1>2. /\ list \in Seq(Entries) /\ Len(list) \in Nat
      /\ \A i \in 1 .. Len(list) : list[i].user \in A /\ list[i] = Of(list[i].user)
      /\ \A i, j \in 1 .. Len(list) :
           i < j => list[i].user # list[j].user /\ Before(list[i], list[j])
      /\ \A u \in A, i \in 1 .. Len(list) :
           (\E j \in 1 .. Len(list) : list[j].user = u) \/ Before(list[i], Of(u))
      /\ limit >= Cardinality(A) =>
           \A u \in A : \E j \in 1 .. Len(list) : list[j].user = u
  BY <1>1, MostActiveFacts, SMTT(30)
<1>3. \A u \in Ids :
        /\ Days30(u) \in Nat /\ (u \in A <=> Days30(u) > 0)
        /\ u \in A => /\ Of(u) \in Entries /\ Of(u).active_days = Days30(u)
                       /\ Of(u).total_solved = snapshots[u][Max(Recent(u))]
  <2> SUFFICES ASSUME NEW u \in Ids
               PROVE  /\ Days30(u) \in Nat /\ (u \in A <=> Days30(u) > 0)
                      /\ u \in A => /\ Of(u) \in Entries /\ Of(u).active_days = Days30(u)
                                     /\ Of(u).total_solved = snapshots[u][Max(Recent(u))]
    OBVIOUS
  <2>1. Recent(u) = Window(snapshots, n, u)
    BY DEF Window
  <2>2. /\ IsFiniteSet(Window(snapshots, n, u))
        /\ Cardinality(Window(snapshots, n, u)) \in Nat
        /\ u \in A => Of(u) \in Entries
    BY <1>1, WindowFacts
  <2>3. u \in A <=> Cardinality(Window(snapshots, n, u)) # 0
    BY <2>2, FS_EmptySet DEF ActiveUsers
  <2> HIDE DEF Recent, A
  <2>4. Of(u).active_days = Days30(u) /\ Of(u).total_solved = snapshots[u][Max(Recent(u))]
    BY <2>1 DEF EntryOf
  <2>. QED
    BY <2>1, <2>2, <2>3, <2>4
<1>4. \A a, b \in Entries :
        /\ a.active_days \in Nat /\ a.total_solved \in Nat
        /\ Before(a, b) => /\ a.active_days >= b.active_days
                           /\ a.active_days = b.active_days =>
                                a.total_solved >= b.total_solved
  BY DEF Entries, Before
<1>5. A \in SUBSET Ids /\ A = {u \in Ids : Days30(u) > 0}
  <2>1. A \in SUBSET Ids
    BY DEF ActiveUsers
  <2>. QED
    BY <1>3, <2>1
<1>6. ASSUME NEW i \in 1 .. Len(list)
      PROVE  snapshots[list[i].user] = reader.snapshots[list[i].user] =>
               list[i].total_solved = Latest(reader.snapshots, list[i].user)
  <2> DEFINE u == list[i].user
             W == Window(snapshots, n, u)
             D == Dates(snapshots, u)
  <2>1. u \in A /\ u \in Ids /\ list[i] = Of(u)
    BY <1>2, <1>5
  <2>2. W \in SUBSET D /\ D \in SUBSET Days /\ W # {}
    BY <1>1, <2>1, WindowFacts DEF ActiveUsers
  <2>3. Max(W) = Max(D)
    <3>1. Max(D) \in D /\ \A e \in D : e <= Max(D)
      BY <2>2, LastDay
    <3>2. Max(W) \in W /\ \A e \in W : e <= Max(W)
      BY <2>2, LastDay
    <3>3. Max(W) \in D /\ Max(W) <= Max(D) /\ Max(W) >= n - ActiveDays
      BY <2>2, <3>1, <3>2 DEF Window
    <3>4. Max(W) \in Int /\ Max(D) \in Int /\ n - ActiveDays \in Int
      BY <1>1, <2>2, <3>1, <3>3, LeaderboardAssumption DEF Days
    <3>5. Max(D) \in W
      BY <3>1, <3>3, <3>4 DEF Window
    <3>. QED
      BY <3>2, <3>3, <3>4, <3>5
  <2>4. list[i].total_solved = snapshots[u][Max(D)]
    BY <2>1, <2>3 DEF EntryOf
  <2>5. ASSUME snapshots[u] = reader.snapshots[u] PROVE D = Dates(reader.snapshots, u)
    BY <2>5 DEF Dates
  <2>. QED
    BY <2>4, <2>5 DEF Latest, LatestDate
<1> HIDE DEF list, Recent, A, Of
<1>7. ASSUME NEW i \in 1 .. Len(list), NEW j \in 1 .. Len(list), i < j
      PROVE  /\ list[i].user # list[j].user
             /\ list[i].active_days >= list[j].active_days
             /\ list[i].active_days = list[j].active_days =>
                  list[i].total_solved >= list[j].total_solved
  BY <1>2, <1>4, <1>7
<1>8. ASSUME NEW u \in Ids \ listed, NEW i \in 1 .. Len(list)
      PROVE  \/ Days30(u) < list[i].active_days
             \/ /\ Days30(u) = list[i].active_days
                /\ snapshots[u][Max(Recent(u))] <= list[i].total_solved
  <2>1. list[i] \in Entries
    BY <1>2
  <2>2. CASE u \in A
    <3>1. Before(list[i], Of(u))
      BY <1>2, <2>2
    <3>2. /\ list[i].active_days >= Days30(u)
          /\ list[i].active_days = Days30(u) =>
               list[i].total_solved >= snapshots[u][Max(Recent(u))]
          /\ list[i].active_days \in Nat /\ list[i].total_solved \in Nat
          /\ Days30(u) \in Nat /\ snapshots[u][Max(Recent(u))] \in Nat
      BY <1>3, <1>4, <2>1, <2>2, <3>1
    <3>. QED
      BY <3>2
  <2>3. CASE u \notin A
    <3>1. list[i].user \in A /\ list[i].user \in Ids /\ list[i] = Of(list[i].user)
      BY <1>2, <1>5
    <3>2. list[i].active_days > 0
      BY <1>3, <3>1
    <3>3. Days30(u) = 0
      BY <1>3, <2>3
    <3>. QED
      BY <3>2, <3>3
  <2>. QED
    BY <2>2, <2>3
<1>9. ASSUME limit >= Cardinality(A) PROVE listed = A
  BY <1>2, <1>9
<1>. QED
  BY <1>5, <1>6, <1>7, <1>8, <1>9 DEF list, Recent, A

-----------------------------------------------------------------------------
(* What the loop over the users makes of the best player so far.           *)
Players == [user : Ids \cup {NULL}, improvement : Int]

Nobody == [user |-> NULL, improvement |-> 0]

Visited(rows) == Sorted({r[1] : r \in rows}, <)

Step(t, n, rows, best, u) ==
  LET i == Improvement(t[u], Active(rows, n, u))
  IN  IF Better(i, best) THEN [user |-> u, improvement |-> i] ELSE best

(* The improvement of a user is what its first and last active days make,  *)
(* and nothing else.                                                       *)
LEMMA ImprovementFacts ==
  ASSUME NEW t \in Table, NEW n \in Int, NEW u \in Ids
  PROVE  LET i == Improvement(t[u], Window(t, n, u))
         IN  /\ i \in Int
             /\ \A j : Improved(t, n, u, j) => j = i
             /\ i # 0 => Improved(t, n, u, i)
<1> DEFINE W == Window(t, n, u)
           i == Improvement(t[u], W)
<1>1. /\ W \in SUBSET Dates(t, u) /\ Dates(t, u) \in SUBSET Days
      /\ IsFiniteSet(W) /\ Cardinality(W) \in Nat
      /\ \A d \in Dates(t, u) : t[u][d] \in Nat
  BY WindowFacts
<1>2. n - ActiveDays \in Int /\ Days \subseteq Int
  BY LeaderboardAssumption DEF Days
<1>3. \A d \in Dates(t, u) : d \in Int /\ (d \in W <=> n - ActiveDays <= d)
  <2>1. \A d \in Dates(t, u) : d \in Int
    BY <1>1, <1>2
  <2>. QED
    BY <1>2, <2>1 DEF Window
<1>4. W # {} => /\ Max(W) \in W /\ Min(W) \in W
                /\ \A e \in W : Min(W) <= e /\ e <= Max(W)
  BY <1>1, LastDay, FirstDay
<1> HIDE DEF W
<1>5. Cardinality(W) < 2 <=> W = {} \/ \E d : W = {d}
  <2>1. Cardinality(W) = 0 <=> W = {}
    BY <1>1, FS_EmptySet
  <2>2. Cardinality(W) = 1 <=> \E d : W = {d}
    BY <1>1, FS_Singleton
  <2>. QED
    BY <1>1, <2>1, <2>2
<1>6. CASE Cardinality(W) < 2
  <2>1. i = 0
    BY <1>6 DEF Improvement
  <2>2. ASSUME NEW j, Improved(t, n, u, j) PROVE FALSE
    <3>1. PICK c \in Dates(t, u), d \in Dates(t, u) : n - ActiveDays <= c /\ c < d
      BY <2>2 DEF Improved
    <3>2. c \in Int /\ d \in Int /\ n - ActiveDays <= d
      BY <1>2, <1>3, <3>1
    <3>3. c \in W /\ d \in W /\ c # d
      BY <1>3, <3>1, <3>2
    <3>. QED
      BY <1>5, <1>6, <3>3
  <2>. QED
    BY <2>1, <2>2 DEF W
<1>7. CASE ~(Cardinality(W) < 2)
  <2>1. i = t[u][Max(W)] - t[u][Min(W)]
    BY <1>7 DEF Improvement
  <2>2. /\ W # {} /\ Max(W) \in Dates(t, u) /\ Min(W) \in Dates(t, u)
        /\ Max(W) \in Int /\ Min(W) \in Int
        /\ n - ActiveDays <= Min(W)
        /\ \A e \in Dates(t, u) : n - ActiveDays <= e => Min(W) <= e /\ e <= Max(W)
    BY <1>1, <1>2, <1>3, <1>4, <1>5, <1>7
  <2>3. Min(W) < Max(W)
    <3>1. Min(W) # Max(W)
      <4>1. ASSUME Min(W) = Max(W) PROVE W = {Min(W)}
        <5>1. \A e \in W : e \in Int /\ Min(W) <= e /\ e <= Min(W)
          BY <1>1, <1>2, <1>4, <4>1
        <5>. QED
          BY <1>4, <2>2, <5>1
      <4>. QED
        BY <1>5, <1>7, <4>1
    <3>. QED
      BY <1>4, <2>2, <3>1
  <2>4. Improved(t, n, u, i)
    BY <2>1, <2>2, <2>3 DEF Improved
  <2>5. ASSUME NEW j, Improved(t, n, u, j) PROVE j = i
    <3>1. PICK c \in Dates(t, u), d \in Dates(t, u) :
            /\ n - ActiveDays <= c /\ c < d
            /\ \A e \in Dates(t, u) : n - ActiveDays <= e => c <= e /\ e <= d
            /\ j = t[u][d] - t[u][c]
      BY <2>5 DEF Improved
    <3>2. c \in Int /\ d \in Int /\ n - ActiveDays <= d
      BY <1>2, <1>3, <3>1
    <3>3. n - ActiveDays <= Max(W)
      BY <1>2, <2>2, <2>3
    <3>4. c = Min(W) /\ d = Max(W)
      BY <2>2, <3>1, <3>2, <3>3
    <3>. QED
      BY <2>1, <3>1, <3>4
  <2>6. i \in Int
    BY <1>1, <2>1, <2>2
  <2>. QED
    BY <2>4, <2>5, <2>6 DEF W
<1>. QED
  BY <1>6, <1>7

(* The improvements are numbers.                                           *)
Numeric(t, n, rows) ==
  \A u \in Ids : Improvement(t[u], Active(rows, n, u)) \in Int

(* A fold from the left goes through the sequence one element at a time.   *)
LEMMA BestFold ==
  ASSUME NEW t, NEW n, NEW rows, NEW k \in Nat, NEW seq \in [1 .. k -> Ids],
         seq = Visited(rows), Numeric(t, n, rows)
  PROVE  \E it \in [0 .. k -> Players] :
           /\ it[0] = Nobody
           /\ \A i \in 1 .. k : it[i] = Step(t, n, rows, it[i - 1], seq[i])
           /\ it[k] = BestPlayer(t, n, rows)
<1> DEFINE D == 1 .. k
           F(it) == [s \in SUBSET D |-> IF s = {} THEN Nobody
                                        ELSE LET x == Max(s)
                                             IN  Step(t, n, rows, it[s \ {x}], seq[x])]
           c == [s \in SUBSET D |-> Max(s)]
           g == [i \in D |-> [v \in Players |-> Step(t, n, rows, v, seq[i])]]
           Up(i) == 1 .. i
<1>1. \A s \in SUBSET D : s # {} => Max(s) \in s /\ \A e \in s : e <= Max(s)
  <2>1. D \subseteq 0 .. k
    OBVIOUS
  <2>. QED
    BY <2>1, Greatest
<1>2. Nobody \in Players
  BY DEF Nobody, Players
<1>3. \A v \in Players, u \in Ids : Step(t, n, rows, v, u) \in Players
  <2> SUFFICES ASSUME NEW v \in Players, NEW u \in Ids PROVE Step(t, n, rows, v, u) \in Players
    OBVIOUS
  <2>1. Improvement(t[u], Active(rows, n, u)) \in Int
    BY DEF Numeric
  <2>. QED
    BY <2>1 DEF Step, Players
<1>4. PICK i \in [SUBSET D -> Players] : FoldsTo(i, D, Nobody, c, g)
  <2>1. g \in [D -> [Players -> Players]]
    BY <1>3
  <2>2. Chooses(c, D)
    BY <1>1 DEF Chooses
  <2>3. IsFiniteSet(D)
    BY FS_Interval
  <2> HIDE DEF g, c, D
  <2>. QED
    BY <1>2, <2>1, <2>2, <2>3, FoldExists
<1>5. i = F(i)
  <2>1. ASSUME NEW s \in SUBSET D PROVE i[s] = F(i)[s]
    <3>1. CASE s = {}
      BY <1>4, <3>1 DEF FoldsTo
    <3>2. CASE s # {}
      <4>1. Max(s) \in D /\ s \ {Max(s)} \in SUBSET D /\ c[s] = Max(s)
        BY <1>1, <3>2
      <4>2. i[s] = g[c[s]][i[s \ {c[s]}]]
        BY <1>4, <3>2 DEF FoldsTo
      <4>3. i[s \ {Max(s)}] \in Players
        BY <1>4, <4>1
      <4>4. g[Max(s)][i[s \ {Max(s)}]] = Step(t, n, rows, i[s \ {Max(s)}], seq[Max(s)])
        BY <4>1, <4>3
      <4>. QED
        BY <3>2, <4>1, <4>2, <4>4
    <3>. QED
      BY <3>1, <3>2
  <2>2. i = [s \in SUBSET D |-> i[s]] /\ F(i) = [s \in SUBSET D |-> F(i)[s]]
    OBVIOUS
  <2> HIDE DEF F
  <2>. QED
    BY <2>1, <2>2
<1> DEFINE it == CHOOSE iter : iter = F(iter)
<1>6. it = F(it)
  <2> HIDE DEF F
  <2>. QED
    BY <1>5
<1>7. BestPlayer(t, n, rows) = it[D]
  <2>1. DOMAIN seq = D
    OBVIOUS
  <2>. QED
    BY <2>1 DEF BestPlayer, FoldLeft, MapThenFoldSet, Visited, Step, Nobody
<1> HIDE DEF it
<1>8. /\ it[Up(0)] = Nobody
      /\ \A j \in 1 .. k : it[Up(j)] = Step(t, n, rows, it[Up(j - 1)], seq[j])
  <2>1. Up(0) = {} /\ Up(0) \in SUBSET D
    OBVIOUS
  <2>2. ASSUME NEW j \in 1 .. k PROVE it[Up(j)] = Step(t, n, rows, it[Up(j - 1)], seq[j])
    <3>1. /\ Up(j) \in SUBSET D /\ Up(j) # {} /\ j \in Up(j)
          /\ \A e \in Up(j) : e <= j /\ e \in Int
          /\ Up(j) \ {j} = Up(j - 1)
      <4>1. Up(j) \in SUBSET D
        OBVIOUS
      <4>2. \A e \in Up(j) : e <= j /\ e \in Int
        OBVIOUS
      <4>3. Up(j) \ {j} = Up(j - 1)
        OBVIOUS
      <4>4. j \in Up(j)
        OBVIOUS
      <4>. QED
        BY <4>1, <4>2, <4>3, <4>4
    <3>2. Max(Up(j)) = j
      <4>1. Max(Up(j)) \in Up(j) /\ j <= Max(Up(j))
        BY <1>1, <3>1
      <4>2. Max(Up(j)) <= j /\ Max(Up(j)) \in Int /\ j \in Int
        BY <3>1, <4>1
      <4> HIDE DEF Up
      <4>. QED
        BY <4>1, <4>2
    <3>3. F(it)[Up(j)] = Step(t, n, rows, it[Up(j) \ {j}], seq[j])
      BY <3>1, <3>2
    <3>. QED
      BY <1>6, <3>1, <3>3
  <2>. QED
    BY <1>6, <2>1, <2>2
<1> DEFINE prefix == [j \in 0 .. k |-> it[Up(j)]]
<1>9. /\ prefix[0] = Nobody /\ prefix[k] = it[D]
      /\ \A j \in 1 .. k : prefix[j] = Step(t, n, rows, prefix[j - 1], seq[j])
  BY <1>8
<1>10. prefix \in [0 .. k -> Players]
  <2> DEFINE N == {j \in Nat : j <= k => prefix[j] \in Players}
  <2>1. 0 \in N
    BY <1>2, <1>9
  <2>2. ASSUME NEW j \in Nat, j \in N PROVE j + 1 \in N
    <3> SUFFICES ASSUME j + 1 <= k PROVE prefix[j + 1] \in Players
      OBVIOUS
    <3>1. j + 1 \in 1 .. k /\ (j + 1) - 1 = j /\ prefix[j] \in Players
      BY <2>2
    <3> HIDE DEF prefix
    <3>. QED
      BY <1>3, <1>9, <3>1
  <2>3. Nat \subseteq N
    <3> HIDE DEF N
    <3>. QED
      BY <2>1, <2>2, NatClosed
  <2>4. \A j \in 0 .. k : it[Up(j)] \in Players
    <3>1. \A j \in 0 .. k : j \in N /\ prefix[j] = it[Up(j)]
      <4> HIDE DEF N
      <4>. QED
        BY <2>3
    <3>. QED
      BY <3>1
  <2>. QED
    BY <2>4
<1> HIDE DEF prefix
<1>. QED
  BY <1>7, <1>9, <1>10

(* No user in front of k improved more than the best of them, none before  *)
(* it as much, and without an improvement there is none.  f has the        *)
(* improvement of every user.                                              *)
BestOf(f, seq, k, best) ==
  /\ best.improvement >= 0 /\ (best.user = NULL <=> best.improvement = 0)
  /\ best.user # NULL => /\ best.user \in Ids /\ best.improvement = f[best.user]
                         /\ \E j \in 1 .. k : seq[j] = best.user
  /\ \A j \in 1 .. k : /\ f[seq[j]] <= best.improvement
                       /\ best.user # NULL /\ f[seq[j]] = best.improvement =>
                            best.user <= seq[j]

(* The loop keeps it so from one user to the next.                         *)
LEMMA BestStep ==
  ASSUME NEW f \in [Ids -> Int], NEW k \in Nat, NEW seq \in [1 .. k -> Ids],
         \A i, j \in 1 .. k : i < j => seq[i] < seq[j],
         NEW j \in 1 .. k, NEW best \in Players, BestOf(f, seq, j - 1, best),
         NEW next \in Players,
         next = IF f[seq[j]] > best.improvement
                  THEN [user |-> seq[j], improvement |-> f[seq[j]]] ELSE best
  PROVE  BestOf(f, seq, j, next)
<1> DEFINE u == seq[j]
<1>1. Ids \subseteq Int /\ NULL \notin Ids
  <2>1. Ids \subseteq Nat /\ NULL \notin Int
    BY LeaderboardAssumption
  <2>2. Ids \subseteq Int
    BY <2>1
  <2>. QED
    BY Zenon, <2>1, <2>2
<1>2. /\ u \in Ids /\ u \in Int /\ u # NULL /\ f[u] \in Int /\ best.improvement \in Int
      /\ best.user # NULL => best.user \in Int /\ best.user \in Ids
  <2>1. best.improvement \in Int /\ best.user \in Ids \cup {NULL}
    BY DEF Players
  <2>2. u \in Ids /\ f[u] \in Int
    OBVIOUS
  <2>3. u \in Int /\ u # NULL
    BY Zenon, <1>1, <2>2
  <2>4. best.user # NULL => best.user \in Int /\ best.user \in Ids
    BY Zenon, <1>1, <2>1
  <2>. QED
    BY <2>1, <2>2, <2>3, <2>4
<1>3. \A i \in 1 .. j : i = j \/ i \in 1 .. (j - 1)
  OBVIOUS
<1>4. \A i \in 1 .. (j - 1) :
        /\ i \in 1 .. j /\ seq[i] \in Ids /\ seq[i] \in Int /\ seq[i] < u
        /\ f[seq[i]] \in Int
  <2> SUFFICES ASSUME NEW i \in 1 .. (j - 1)
               PROVE  /\ i \in 1 .. j /\ seq[i] \in Ids /\ seq[i] \in Int /\ seq[i] < u
                      /\ f[seq[i]] \in Int
    OBVIOUS
  <2>1. i \in 1 .. j /\ i \in 1 .. k /\ i < j
    OBVIOUS
  <2>2. seq[i] \in Ids /\ seq[i] < u
    BY <2>1
  <2>. QED
    BY <1>1, <2>1, <2>2
<1>5. /\ best.improvement >= 0 /\ (best.user = NULL <=> best.improvement = 0)
      /\ best.user # NULL => /\ best.improvement = f[best.user]
                             /\ \E i \in 1 .. (j - 1) : seq[i] = best.user
      /\ \A i \in 1 .. (j - 1) :
           /\ f[seq[i]] <= best.improvement
           /\ best.user # NULL /\ f[seq[i]] = best.improvement => best.user <= seq[i]
  BY DEF BestOf
<1> HIDE DEF u
<1>6. CASE f[u] > best.improvement
  <2>1. next.user = u /\ next.improvement = f[u] /\ f[u] > 0 /\ f[u] # 0 /\ f[u] >= 0
    BY <1>2, <1>5, <1>6 DEF u
  <2>2. j \in 1 .. j /\ seq[j] = u
    BY DEF u
  <2>3. ASSUME NEW i \in 1 .. j
        PROVE  f[seq[i]] <= f[u] /\ (f[seq[i]] = f[u] => u <= seq[i])
    <3>1. CASE i = j
      BY <1>2, <2>2, <3>1
    <3>2. CASE i \in 1 .. (j - 1)
      <4>1. f[seq[i]] \in Int /\ seq[i] < u
        BY <1>4, <3>2
      <4>2. f[seq[i]] <= best.improvement
        BY <1>5, <3>2
      <4>. QED
        BY <1>2, <1>6, <4>1, <4>2
    <3>. QED
      BY <1>3, <3>1, <3>2
  <2>. QED
    BY <1>2, <2>1, <2>2, <2>3 DEF BestOf
<1>7. CASE ~(f[u] > best.improvement)
  <2>1. next = best /\ f[u] <= best.improvement
    BY <1>2, <1>7 DEF u
  <2>2. best.user # NULL => best.user <= u /\ \E i \in 1 .. j : seq[i] = best.user
    BY <1>2, <1>4, <1>5
  <2>3. ASSUME NEW i \in 1 .. j
        PROVE  /\ f[seq[i]] <= best.improvement
               /\ best.user # NULL /\ f[seq[i]] = best.improvement => best.user <= seq[i]
    <3>1. CASE i = j
      BY <2>1, <2>2, <3>1 DEF u
    <3>2. CASE i \in 1 .. (j - 1)
      BY <1>5, <3>2
    <3>. QED
      BY <1>3, <3>1, <3>2
  <2>. QED
    BY <1>2, <1>5, <2>1, <2>2, <2>3 DEF BestOf
<1>. QED
  BY <1>6, <1>7

Improvements(t, n) == [u \in Ids |-> Improvement(t[u], Window(t, n, u))]

(* So the most improved player is the best of all whose rows were fetched. *)
LEMMA BestPlayerFacts ==
  ASSUME NEW t \in Table, IsFiniteSet(Listed(t)), NEW n \in Int, NEW trend \in Int
  PROVE  LET rows == Fetched(t, n, trend)
             best == BestPlayer(t, n, rows)
             f == Improvements(t, n)
         IN  \E k \in Nat : \E seq \in [1 .. k -> Ids] :
               /\ best \in Players /\ BestOf(f, seq, k, best)
               /\ \A u \in ActiveUsers(t, n) : \E j \in 1 .. k : seq[j] = u
<1> DEFINE rows == Fetched(t, n, trend)
           best == BestPlayer(t, n, rows)
           U == {r[1] : r \in rows}
           seq == Visited(rows)
           k == Cardinality(U)
           f == Improvements(t, n)
<1>1. \A u \in Ids : Active(rows, n, u) = Window(t, n, u)
  BY ActiveIsWindow
<1>2. /\ U \in SUBSET Listed(t) /\ U \in SUBSET Ids
      /\ ActiveUsers(t, n) \subseteq U
  <2>1. U \in SUBSET Listed(t) /\ U \in SUBSET Ids
    BY DEF Fetched, Listed
  <2>2. ASSUME NEW u \in ActiveUsers(t, n) PROVE u \in U
    <3>1. u \in Ids /\ \E d \in Days : d \in Window(t, n, u)
      BY DEF ActiveUsers, Window, Dates
    <3>2. \E d \in Days : <<u, d>> \in rows
      BY <1>1, <3>1 DEF Active
    <3>. QED
      BY <3>2
  <2>. QED
    BY <2>1, <2>2
<1> HIDE DEF U
<1>3. U \in SUBSET Nat /\ IsFiniteSet(U) /\ k \in Nat
  BY <1>2, LeaderboardAssumption, FS_Subset, FS_CardinalityType
<1>4. InOrder(seq, U, {p \in U \X U : p[1] < p[2]})
  <2>1. seq = Sorted(U, <)
    BY DEF Visited, U
  <2>. QED
    BY <1>3, <2>1, IdsSorted
<1> HIDE DEF rows, seq
<1>5. /\ seq \in [1 .. k -> Ids]
      /\ \A u \in U : \E j \in 1 .. k : seq[j] = u
      /\ \A i, j \in 1 .. k : i < j => seq[i] < seq[j]
  <2>1. seq \in [1 .. k -> U]
    BY <1>4 DEF InOrder
  <2>2. /\ \A u \in U : \E j \in 1 .. k : seq[j] = u
        /\ \A i, j \in 1 .. k : i < j => seq[i] < seq[j]
    BY <1>4, <2>1 DEF InOrder
  <2>. QED
    BY <1>2, <2>1, <2>2
<1> HIDE DEF k
<1>6. PICK it \in [0 .. k -> Players] :
        /\ it[0] = Nobody
        /\ \A i \in 1 .. k : it[i] = Step(t, n, rows, it[i - 1], seq[i])
        /\ it[k] = best
  <2>1. Numeric(t, n, rows)
    BY <1>1, ImprovementFacts DEF Numeric
  <2> HIDE DEF best
  <2>. QED
    BY <1>3, <1>5, <2>1, BestFold, ZenonT(30) DEF best, seq
<1> DEFINE N == {i \in Nat : i <= k => BestOf(f, seq, i, it[i])}
<1>7. f \in [Ids -> Int]
  BY ImprovementFacts DEF Improvements
<1> HIDE DEF f
<1>8. 0 \in N
  <2>1. Nobody.user = NULL /\ Nobody.improvement = 0
    BY DEF Nobody
  <2>. QED
    BY <1>6, <2>1 DEF BestOf
<1>9. ASSUME NEW i \in Nat, i \in N PROVE i + 1 \in N
  <2> SUFFICES ASSUME i + 1 <= k PROVE BestOf(f, seq, i + 1, it[i + 1])
    OBVIOUS
  <2>1. i + 1 \in 1 .. k /\ (i + 1) - 1 = i /\ it[i] \in Players
        /\ BestOf(f, seq, i, it[i])
    BY <1>3, <1>9
  <2>2. it[i + 1] = Step(t, n, rows, it[i], seq[i + 1])
    BY <1>6, <2>1
  <2>3. seq[i + 1] \in Ids /\ it[i + 1] \in Players
    BY <1>5, <1>6, <2>1
  <2>4. it[i + 1] = IF f[seq[i + 1]] > it[i].improvement
                      THEN [user |-> seq[i + 1], improvement |-> f[seq[i + 1]]] ELSE it[i]
    BY <1>1, <2>2, <2>3 DEF Step, Better, f, Improvements
  <2>. QED
    BY <1>3, <1>5, <1>7, <2>1, <2>3, <2>4, BestStep
<1>10. BestOf(f, seq, k, best) /\ best \in Players
  <2>1. k \in N
    <3> HIDE DEF N
    <3>. QED
      BY <1>3, <1>8, <1>9, NatClosed
  <2>. QED
    BY <1>3, <1>6, <2>1
<1>. QED
  BY <1>2, <1>3, <1>5, <1>10 DEF rows, f

(* The improvements that count are those of the active users, and the loop *)
(* visits each of them.                                                    *)
LEMMA BestIsBest == ReaderInv => BestPlayerIsBest
<1> SUFFICES ASSUME ReaderInv, reader.stage = "dashboard", NEW trend \in TrendDays
             PROVE  LET t    == snapshots
                        n    == reader.today
                        best == BestPlayer(t, n, Fetched(t, n, trend))
                    IN  /\ \A u \in Ids, i \in Gains :
                             Improved(t, n, u, i) =>
                               i <= (IF best.user = NULL \/ u >= best.user
                                       THEN best.improvement ELSE best.improvement - 1)
                        /\ best.user = NULL <=> best.improvement = 0
                        /\ best.user # NULL => Improved(t, n, best.user, best.improvement)
  BY DEF BestPlayerIsBest
<1> DEFINE t    == snapshots
           n    == reader.today
           best == BestPlayer(t, n, Fetched(t, n, trend))
           f    == Improvements(t, n)
<1>1. t \in Table /\ IsFiniteSet(Listed(t)) /\ n \in Int /\ trend \in Int
  BY Seen, LeaderboardAssumption
<1>2. Ids \subseteq Int
  <2>1. Ids \subseteq Nat
    BY LeaderboardAssumption
  <2>. QED
    BY <2>1
<1>3. PICK k \in Nat : \E s \in [1 .. k -> Ids] :
        /\ best \in Players /\ BestOf(f, s, k, best)
        /\ \A u \in ActiveUsers(t, n) : \E j \in 1 .. k : s[j] = u
  BY <1>1, BestPlayerFacts
<1>4. PICK seq \in [1 .. k -> Ids] :
        /\ best \in Players /\ BestOf(f, seq, k, best)
        /\ \A u \in ActiveUsers(t, n) : \E j \in 1 .. k : seq[j] = u
  BY <1>3
<1>5. ASSUME NEW u \in Ids
      PROVE  /\ f[u] \in Int
             /\ \A i : Improved(t, n, u, i) => i = f[u] /\ u \in ActiveUsers(t, n)
             /\ f[u] # 0 => Improved(t, n, u, f[u])
  <2>1. /\ f[u] \in Int
        /\ \A i : Improved(t, n, u, i) => i = f[u]
        /\ f[u] # 0 => Improved(t, n, u, f[u])
    BY <1>1, ImprovementFacts DEF Improvements
  <2>2. ASSUME NEW i, Improved(t, n, u, i) PROVE u \in ActiveUsers(t, n)
    <3>1. PICK c \in Dates(t, u) : n - ActiveDays <= c
      BY <2>2 DEF Improved
    <3>2. c \in Int /\ n - ActiveDays \in Int
      BY <1>1, LeaderboardAssumption DEF Dates, Days
    <3>3. c \in Window(t, n, u)
      BY <3>1, <3>2 DEF Window
    <3>. QED
      BY <3>3 DEF ActiveUsers
  <2>. QED
    BY <2>1, <2>2
<1> HIDE DEF best, f
<1>6. /\ best.improvement \in Int /\ best.improvement >= 0
      /\ best.user = NULL <=> best.improvement = 0
      /\ best.user # NULL => /\ best.user \in Ids /\ best.user \in Int
                             /\ best.improvement = f[best.user]
      /\ \A j \in 1 .. k : /\ f[seq[j]] <= best.improvement
                           /\ best.user # NULL /\ f[seq[j]] = best.improvement =>
                                best.user <= seq[j]
  <2>1. best.improvement \in Int
    BY <1>4 DEF Players
  <2>2. /\ best.improvement >= 0
        /\ best.user = NULL <=> best.improvement = 0
        /\ best.user # NULL => best.user \in Ids /\ best.improvement = f[best.user]
    BY <1>4 DEF BestOf
  <2>3. \A j \in 1 .. k : /\ f[seq[j]] <= best.improvement
                          /\ best.user # NULL /\ f[seq[j]] = best.improvement =>
                               best.user <= seq[j]
    BY <1>4 DEF BestOf
  <2>4. best.user # NULL => best.user \in Int
    BY <1>2, <2>2
  <2>. QED
    BY <2>1, <2>2, <2>3, <2>4
<1>7. ASSUME NEW u \in Ids, NEW i \in Gains, Improved(t, n, u, i)
      PROVE  i <= (IF best.user = NULL \/ u >= best.user
                     THEN best.improvement ELSE best.improvement - 1)
  <2>1. i = f[u] /\ i \in Int /\ u \in ActiveUsers(t, n) /\ u \in Int
    BY <1>2, <1>5, <1>7
  <2>2. PICK j \in 1 .. k : seq[j] = u
    BY <1>4, <2>1
  <2>3. /\ i <= best.improvement
        /\ best.user # NULL /\ i = best.improvement => best.user <= u
    BY <1>6, <2>1, <2>2
  <2>4. CASE best.user = NULL \/ u >= best.user
    BY <2>3, <2>4
  <2>5. CASE ~(best.user = NULL \/ u >= best.user)
    <3>1. best.user # NULL /\ ~(u >= best.user) /\ best.user \in Int
      BY <1>6, <2>5
    <3>2. i # best.improvement
      BY <2>1, <2>3, <3>1
    <3>3. i <= best.improvement - 1
      BY <1>6, <2>1, <2>3, <3>2
    <3>. QED
      BY <2>5, <3>3
  <2>. QED
    BY <2>4, <2>5
<1>8. best.user # NULL => Improved(t, n, best.user, best.improvement)
  BY <1>5, <1>6
<1>. QED
  BY <1>6, <1>7, <1>8 DEF best

-----------------------------------------------------------------------------
(* The second query of a dashboard fetches the trend's window, whichever   *)
(* of the two windows is longer; and of the dates that ended long before   *)
(* the first query both queries saw the same.                              *)
LEMMA TrendsInv == ReaderInv /\ ViewKept => TrendsCountEachSnapshot
<1> SUFFICES ASSUME ReaderInv, ViewKept, reader.stage = "dashboard",
                    NEW trend \in TrendDays
             PROVE  LET n == reader.today
                        trends == GlobalTrends(snapshots, n,
                                               Fetched(snapshots, n, trend), trend)
                        Solvers(t, d) == {u \in users : t[u][d] # NULL}
                        Reports(t, d) ==
                          /\ trends[d].user_count = Cardinality(Solvers(t, d))
                          /\ trends[d].total =
                               SumFunction([u \in Solvers(t, d) |-> t[u][d]])
                    IN  /\ DOMAIN trends =
                             {d \in Days : d >= n - trend /\ Solvers(snapshots, d) # {}}
                        /\ \A d \in DOMAIN trends :
                             /\ Reports(snapshots, d)
                             /\ d + MaxLate < n => Reports(reader.snapshots, d)
  BY DEF TrendsCountEachSnapshot
<1> DEFINE n == reader.today
           fetched == Fetched(snapshots, n, trend)
           trends == GlobalTrends(snapshots, n, fetched, trend)
           D == TrendDates(fetched, n, trend)
           Solvers(t, d) == {u \in users : t[u][d] # NULL}
           S(d) == {u \in Ids : <<u, d>> \in fetched}
<1>1. /\ n - trend \in Int /\ Since(n, trend) \in Int /\ Since(n, trend) <= n - trend
      /\ Days \subseteq Int
  <2>1. n - trend \in Int /\ n - ActiveDays \in Int
    BY Seen, LeaderboardAssumption
  <2>. QED
    BY <2>1, MinOfTwo DEF Since, Days
<1>2. /\ users \subseteq Ids
      /\ \A u \in Ids, d \in Days : snapshots[u][d] # NULL => u \in users
  BY DEF ReaderInv, StoreInv, NoOrphans
<1>3. \A u \in Ids, d \in Days :
        <<u, d>> \in fetched <=> snapshots[u][d] # NULL /\ d >= Since(n, trend)
  BY DEF Fetched, Dates
<1>4. ASSUME NEW d \in Days, d >= n - trend PROVE S(d) = Solvers(snapshots, d)
  <2>1. d >= Since(n, trend)
    <3>1. d \in Int
      BY <1>1
    <3>. QED
      BY <1>1, <1>4, <3>1
  <2>. QED
    BY <1>2, <1>3, <2>1
<1>5. D = {d \in Days : d >= n - trend /\ Solvers(snapshots, d) # {}}
  <2>1. D = {d \in Days : d >= n - trend /\ S(d) # {}}
    BY DEF TrendDates
  <2> HIDE DEF D, S, Solvers
  <2>. QED
    BY <1>4, <2>1
<1>6. DOMAIN trends = D /\ \A d \in D :
        /\ trends[d].total = SumFunction([u \in S(d) |-> snapshots[u][d]])
        /\ trends[d].user_count = Cardinality(S(d))
  BY DEF GlobalTrends
<1>7. ASSUME NEW d \in Days, d + MaxLate < n
      PROVE  /\ Solvers(snapshots, d) = Solvers(reader.snapshots, d)
             /\ [u \in Solvers(snapshots, d) |-> snapshots[u][d]]
                  = [u \in Solvers(reader.snapshots, d) |-> reader.snapshots[u][d]]
  <2>1. \A u \in users : snapshots[u][d] = reader.snapshots[u][d]
    BY <1>7 DEF ViewKept
  <2>. QED
    BY <2>1
<1> HIDE DEF trends, D, S, Solvers
<1>8. ASSUME NEW d \in DOMAIN trends
      PROVE  /\ d \in Days /\ S(d) = Solvers(snapshots, d)
             /\ trends[d].user_count = Cardinality(Solvers(snapshots, d))
             /\ trends[d].total =
                  SumFunction([u \in Solvers(snapshots, d) |-> snapshots[u][d]])
  BY <1>4, <1>5, <1>6, <1>8
<1>9. ASSUME NEW d \in DOMAIN trends, d + MaxLate < n
      PROVE  /\ trends[d].user_count = Cardinality(Solvers(reader.snapshots, d))
             /\ trends[d].total =
                  SumFunction([u \in Solvers(reader.snapshots, d)
                                 |-> reader.snapshots[u][d]])
  BY <1>7, <1>8, <1>9
<1>. QED
  BY <1>5, <1>6, <1>8, <1>9 DEF trends, D, S, Solvers

-----------------------------------------------------------------------------
(* What a step keeps of the types, beside the invariants above.            *)
Typed ==
  /\ today \in Days /\ used \subseteq Ids
  /\ reader.stage \in Stages /\ reader.commits \in 0 .. MaxCommits

(* Days and commits stay within their bounds.                              *)
LEMMA TypedStep == ReaderInv /\ Typed /\ [LeaderboardNext]_readVars => Typed'
<1> SUFFICES ASSUME ReaderInv, Typed, [LeaderboardNext]_readVars PROVE Typed'
  OBVIOUS
<1>1. reader \in Readers /\ MaxCommits \in Nat /\ MaxDay \in Nat
  BY LeaderboardAssumption DEF ReaderInv, ReaderType
<1>2. ASSUME NEW stage \in Stages, Query(stage) PROVE Typed'
  BY <1>1, <1>2 DEF Typed, Query, vars
<1>3. CASE Respond
  BY <1>1, <1>3 DEF Typed, Respond, vars, Idle, Stages
<1>4. CASE Commit
  <2>1. today' = today /\ used' \subseteq Ids
    BY <1>4 DEF Commit, Write, Create, Delete, Upsert, Typed
  <2>2. reader'.stage \in Stages /\ reader'.commits \in 0 .. MaxCommits
    <3>1. CASE reader.stage = "idle"
      BY <1>4, <3>1 DEF Commit, Typed
    <3>2. CASE reader.stage # "idle"
      <4>1. /\ reader'.stage = reader.stage /\ reader'.commits = reader.commits + 1
            /\ reader.commits < MaxCommits
        BY <1>1, <1>4, <3>2 DEF Commit, Readers
      <4>. QED
        BY <1>1, <4>1 DEF Typed
    <3>. QED
      BY <3>1, <3>2
  <2>. QED
    BY <2>1, <2>2 DEF Typed
<1>5. CASE Midnight /\ UNCHANGED reader
  BY <1>1, <1>5 DEF Typed, Midnight, Days
<1>6. CASE UNCHANGED readVars
  BY <1>6 DEF Typed, readVars, vars
<1>. QED
  BY <1>2, <1>3, <1>4, <1>5, <1>6 DEF LeaderboardNext

(* The tables keep their types, and a response is of the declared schema.  *)
LEMMA ResponsesTyped == ReaderInv /\ ViewKept /\ Typed => LeaderboardTypeOK
<1> SUFFICES ASSUME ReaderInv, ViewKept, Typed PROVE LeaderboardTypeOK
  OBVIOUS
<1>1. /\ snapshots \in Table /\ IsFiniteSet(Listed(snapshots)) /\ reader.today \in Int
      /\ users \subseteq used
  BY Seen DEF ReaderInv, StoreInv, NoOrphans
<1>2. reader.stage # "idle" => reader.snapshots \in Table
  BY DEF ViewKept
<1>3. ASSUME NEW trend \in TrendDays, NEW limit \in Limits
      PROVE  MostActiveUsers(snapshots, reader.today,
                             Fetched(snapshots, reader.today, trend), limit)
               \in Seq([user : Ids, active_days : Nat, total_solved : Nat])
  <2>1. trend \in Int /\ limit \in Int
    BY LeaderboardAssumption
  <2>. QED
    BY <1>1, <2>1, MostActiveFacts DEF Entries
<1>. QED
  BY <1>1, <1>2, <1>3 DEF LeaderboardTypeOK, Typed

(* The tables keep their types, and every answer of the dashboard is of    *)
(* the declared schema.                                                    *)
THEOREM ResponsesAreTyped == LeaderboardSpec => []LeaderboardTypeOK
<1>1. LeaderboardInit => ViewKept /\ Typed
  <2>1. 0 \in 0 .. MaxDay /\ 0 \in 0 .. MaxCommits
    BY LeaderboardAssumption
  <2>. QED
    BY <2>1 DEF LeaderboardInit, Init, Idle, Stages, ViewKept, Typed, Days
<1>2. ReaderInv /\ ViewKept /\ [LeaderboardNext]_readVars => ViewKept'
  BY ViewStep DEF ReaderInv
<1>. QED
  BY <1>1, <1>2, TypedStep, ResponsesTyped, ReaderAlways, PTL DEF LeaderboardSpec

(* The dashboard lists the most active users in order, leaves out nobody   *)
(* who ranks before one it lists, and agrees with its own first query on   *)
(* every user whose snapshots were left alone.                             *)
THEOREM MostActiveAreRanked == LeaderboardSpec => []MostActiveRanked
BY RankedInv, ReaderAlways, PTL

(* The most improved player is: nobody improved more, and nobody before it *)
(* as much, whatever trend_days is and whatever was committed in between.  *)
THEOREM MostImprovedIsBest == LeaderboardSpec => []BestPlayerIsBest
BY BestIsBest, ReaderAlways, PTL

(* The trend has every date of its window with a snapshot, and reports the *)
(* number and the sum of its snapshots; of dates that ended more than      *)
(* MaxLate days before, those of its first query too.                      *)
THEOREM TrendsAreComplete == LeaderboardSpec => []TrendsCountEachSnapshot
<1>1. LeaderboardInit => ViewKept
  BY DEF LeaderboardInit, Init, Idle, ViewKept
<1>2. ReaderInv /\ ViewKept /\ [LeaderboardNext]_readVars => ViewKept'
  BY ViewStep DEF ReaderInv
<1>. QED
  BY <1>1, <1>2, TrendsInv, ReaderAlways, PTL DEF LeaderboardSpec
=============================================================================
