----------------------------- MODULE ReportProofs -----------------------------
(***************************************************************************)
(* Proofs about the figures users are shown: the sums, pages, percentiles  *)
(* and reports of Reports, for any rows, incidents, monitors and times.     *)
(***************************************************************************)
EXTENDS Reports, FiniteSetTheorems, SequenceTheorems, TLAPS

------------------------------------------------------------------------------
(* Least numbers and sums of functions. *)

\* A set of naturals that is not empty has a least.
LEMMA LeastNumber ==
  ASSUME NEW S, S \subseteq Nat, S # {}
  PROVE  \E n \in S : \A k \in S : n <= k
<1>1. IsWellFoundedOn(OpToRel(<, Nat), Nat)
  BY NatLessThanWellFounded
<1>2. PICK n \in S : \A k \in S : ~(<<k, n>> \in OpToRel(<, Nat))
  BY <1>1, WFMin
<1>3. \A k \in S : ~(k < n)
  BY <1>2 DEF OpToRel
<1> QED BY <1>3

\* A correspondence one to one keeps the size.
LEMMA Corresponding ==
  ASSUME NEW S, NEW T, IsFiniteSet(S), NEW f \in [S -> T],
         \A x, y \in S : f[x] = f[y] => x = y, \A t \in T : \E x \in S : f[x] = t
  PROVE  IsFiniteSet(T) /\ Cardinality(T) = Cardinality(S)
<1>1. f \in Bijection(S, T)
  BY DEF Bijection, Injection, IsInjective, Surjection
<1>2. ExistsBijection(S, T)
  BY <1>1 DEF ExistsBijection
<1> QED BY <1>2, FS_Bijection

\* A subset is finite and not greater.
LEMMA Smaller ==
  ASSUME NEW S, NEW T, IsFiniteSet(S), T \subseteq S
  PROVE  IsFiniteSet(T) /\ Cardinality(T) \in Nat /\ Cardinality(S) \in Nat /\ Cardinality(T) <= Cardinality(S)
BY FS_Subset, FS_CardinalityType

\* The members of a family of sets, each with its index.
Pairs(h, s) == UNION {{x} \X h[x] : x \in s}

\* What a pair of the family is.
LEMMA InPairs ==
  ASSUME NEW h, NEW s, NEW p
  PROVE  p \in Pairs(h, s) <=> \E x \in s : \E y \in h[x] : p = <<x, y>>
BY DEF Pairs

\* When a given pair belongs to the family.
LEMMA PairIn ==
  ASSUME NEW h, NEW s, NEW x, NEW y
  PROVE  <<x, y>> \in Pairs(h, s) <=> x \in s /\ y \in h[x]
<1>1. ASSUME NEW v, NEW w, <<x, y>> = <<v, w>>
      PROVE  x = v /\ y = w
  BY <1>1
<1> QED BY <1>1, InPairs

\* A pair of the family, taken apart.
LEMMA PairOf ==
  ASSUME NEW h, NEW s, NEW p \in Pairs(h, s)
  PROVE  p = <<p[1], p[2]>> /\ p[1] \in s /\ p[2] \in h[p[1]]
<1>1. PICK x \in s : \E y \in h[x] : p = <<x, y>>
  BY InPairs
<1>2. PICK y \in h[x] : p = <<x, y>>
  BY <1>1
<1>3. p[1] = x /\ p[2] = y
  BY <1>2
<1> QED BY <1>2, <1>3

\* A finite family of finite sets has finitely many pairs.
LEMMA PairsFinite ==
  ASSUME NEW s, IsFiniteSet(s), NEW h, \A x \in s : IsFiniteSet(h[x])
  PROVE  IsFiniteSet(Pairs(h, s))
<1> DEFINE all == {{x} \X h[x] : x \in s}
           f == [x \in s |-> {x} \X h[x]]
<1>1. f \in Surjection(s, all)
  BY DEF Surjection
<1>2. IsFiniteSet(all)
  BY <1>1, FS_Surjection
<1>3. \A T \in all : IsFiniteSet(T)
  <2> SUFFICES ASSUME NEW x \in s PROVE IsFiniteSet({x} \X h[x])
    OBVIOUS
  <2>1. IsFiniteSet({x})
    BY FS_Singleton
  <2> QED BY <2>1, FS_Product
<1> QED BY <1>2, <1>3, FS_UNION DEF Pairs

\* One index more.
LEMMA PairsGrow ==
  ASSUME NEW s, IsFiniteSet(s), NEW h, \A x \in s : IsFiniteSet(h[x]), NEW c \in s
  PROVE  Cardinality(Pairs(h, s)) = Cardinality(h[c]) + Cardinality(Pairs(h, s \ {c}))
<1>1. IsFiniteSet(s \ {c})
  BY FS_RemoveElement
<1>2. IsFiniteSet(Pairs(h, s \ {c}))
  BY <1>1, PairsFinite
<1>3. IsFiniteSet({c} \X h[c]) /\ Cardinality({c} \X h[c]) = Cardinality(h[c])
  <2>1. IsFiniteSet({c}) /\ Cardinality({c}) = 1
    BY FS_Singleton
  <2>2. Cardinality({c} \X h[c]) = Cardinality({c}) * Cardinality(h[c]) /\ IsFiniteSet({c} \X h[c])
    BY <2>1, FS_Product
  <2>3. Cardinality(h[c]) \in Nat
    BY FS_CardinalityType
  <2> QED BY <2>1, <2>2, <2>3
<1>4. Pairs(h, s) = ({c} \X h[c]) \union Pairs(h, s \ {c})
  BY DEF Pairs
<1>5. ({c} \X h[c]) \intersect Pairs(h, s \ {c}) = {}
  BY DEF Pairs
<1>6. Cardinality(Pairs(h, s)) = Cardinality(h[c]) + Cardinality(Pairs(h, s \ {c})) - Cardinality({})
  <2> DEFINE A == {c} \X h[c]
             B == Pairs(h, s \ {c})
  <2>1. IsFiniteSet(A) /\ IsFiniteSet(B) /\ A \intersect B = {} /\ Pairs(h, s) = A \union B /\ Cardinality(A) = Cardinality(h[c])
    BY <1>2, <1>3, <1>4, <1>5
  <2> HIDE DEF A, B
  <2>2. Cardinality(A \union B) = Cardinality(A) + Cardinality(B) - Cardinality(A \intersect B)
    BY <2>1, FS_Union
  <2>3. Cardinality(Pairs(h, s)) = Cardinality(h[c]) + Cardinality(B) - Cardinality({})
    BY <2>1, <2>2
  <2> QED BY <2>3 DEF B
<1>7. Cardinality(h[c]) \in Nat /\ Cardinality(Pairs(h, s \ {c})) \in Nat
  BY <1>2, FS_CardinalityType
<1> QED BY <1>6, <1>7, FS_EmptySet

\* g sums f up over every subset, as the fold of the library does.
SumsUp(f, S, g) ==
  g = [s \in SUBSET S |-> IF s = {} THEN 0 ELSE f[CHOOSE x \in s : TRUE] + g[s \ {CHOOSE x \in s : TRUE}]]

\* What a sum stands for.
LEMMA TotalUnfolds ==
  ASSUME NEW f
  PROVE  Total(f) = (CHOOSE g : SumsUp(f, DOMAIN f, g))[DOMAIN f]
BY DEF Total, MapThenSumSet, MapThenFoldSet, SumsUp

\* Counting the pairs of a part of the family adds up the cardinalities,
LEMMA CountSums ==
  ASSUME NEW S, IsFiniteSet(S), NEW h, \A x \in S : IsFiniteSet(h[x]),
         NEW f, \A x \in S : f[x] = Cardinality(h[x])
  PROVE  SumsUp(f, S, [s \in SUBSET S |-> Cardinality(Pairs(h, s))])
<1> DEFINE g == [s \in SUBSET S |-> Cardinality(Pairs(h, s))]
<1>1. ASSUME NEW s \in SUBSET S
      PROVE  Cardinality(Pairs(h, s)) =
               IF s = {} THEN 0 ELSE f[CHOOSE x \in s : TRUE] + g[s \ {CHOOSE x \in s : TRUE}]
  <2>1. CASE s = {}
    <3>1. Pairs(h, {}) = {}
      BY DEF Pairs
    <3> QED BY <2>1, <3>1, FS_EmptySet
  <2>2. CASE s # {}
    <3> DEFINE c == CHOOSE x \in s : TRUE
    <3>1. c \in s
      BY <2>2
    <3> HIDE DEF c
    <3>2. IsFiniteSet(s)
      BY FS_Subset
    <3>3. Cardinality(Pairs(h, s)) = Cardinality(h[c]) + Cardinality(Pairs(h, s \ {c}))
      BY <3>1, <3>2, PairsGrow
    <3>4. s \ {c} \in SUBSET S
      OBVIOUS
    <3>5. Cardinality(Pairs(h, s)) = f[c] + g[s \ {c}]
      BY <3>1, <3>3, <3>4
    <3> QED BY <2>2, <3>5 DEF c
  <2> QED BY <2>1, <2>2
<1> QED BY <1>1 DEF SumsUp

\* and whatever adds them up counts the pairs.
LEMMA SumsCount ==
  ASSUME NEW S, IsFiniteSet(S), NEW h, \A x \in S : IsFiniteSet(h[x]),
         NEW f, \A x \in S : f[x] = Cardinality(h[x]), NEW g, SumsUp(f, S, g)
  PROVE  g[S] = Cardinality(Pairs(h, S))
<1> DEFINE Wrong(s) == g[s] # Cardinality(Pairs(h, s))
           sizes == {n \in Nat : \E s \in SUBSET S : Cardinality(s) = n /\ Wrong(s)}
<1> SUFFICES ASSUME Wrong(S) PROVE FALSE
  OBVIOUS
<1> HIDE DEF Wrong
<1>1. Cardinality(S) \in sizes
  BY FS_CardinalityType
<1>2. PICK n \in sizes : \A k \in sizes : n <= k
  <2>1. sizes \subseteq Nat /\ sizes # {}
    BY <1>1
  <2> HIDE DEF sizes
  <2> QED BY <2>1, LeastNumber
<1>3. PICK s \in SUBSET S : Cardinality(s) = n /\ Wrong(s)
  OBVIOUS
<1>4. g[s] = IF s = {} THEN 0 ELSE f[CHOOSE x \in s : TRUE] + g[s \ {CHOOSE x \in s : TRUE}]
  BY DEF SumsUp
<1>5. CASE s = {}
  <2>1. Pairs(h, {}) = {}
    BY DEF Pairs
  <2> QED BY <1>3, <1>4, <1>5, <2>1, FS_EmptySet DEF Wrong
<1>6. CASE s # {}
  <2> DEFINE c == CHOOSE x \in s : TRUE
  <2>1. c \in s /\ g[s] = f[c] + g[s \ {c}]
    BY <1>4, <1>6
  <2> HIDE DEF c
  <2>2. IsFiniteSet(s) /\ \A x \in s : IsFiniteSet(h[x])
    BY FS_Subset
  <2>3. Cardinality(Pairs(h, s)) = Cardinality(h[c]) + Cardinality(Pairs(h, s \ {c}))
    BY <2>1, <2>2, PairsGrow
  <2>4. Cardinality(s \ {c}) = n - 1 /\ IsFiniteSet(s \ {c}) /\ n \in Nat
    BY <1>2, <1>3, <2>1, <2>2, FS_RemoveElement
  <2>5. n - 1 \in Nat
    BY <2>4, FS_CardinalityType
  <2>6. ~Wrong(s \ {c})
    <3>1. SUFFICES ASSUME Wrong(s \ {c}) PROVE FALSE
      OBVIOUS
    <3>2. n - 1 \in sizes
      BY <2>4, <2>5, <3>1
    <3> HIDE DEF sizes
    <3> QED BY <1>2, <2>4, <3>2
  <2> QED BY <1>3, <2>1, <2>3, <2>6 DEF Wrong
<1> QED BY <1>5, <1>6

\* The sum of the sizes of some sets is the number of their members, each with its index.
LEMMA TotalCounts ==
  ASSUME NEW S, IsFiniteSet(S), NEW h, \A x \in S : IsFiniteSet(h[x]),
         NEW f, DOMAIN f = S, \A x \in S : f[x] = Cardinality(h[x])
  PROVE  Total(f) = Cardinality(Pairs(h, S)) /\ IsFiniteSet(Pairs(h, S))
<1> DEFINE g == CHOOSE g : SumsUp(f, S, g)
<1>1. \E k : SumsUp(f, S, k)
  BY CountSums
<1>2. SumsUp(f, S, g)
  BY <1>1
<1>3. Total(f) = g[S]
  BY TotalUnfolds
<1> HIDE DEF g
<1>4. g[S] = Cardinality(Pairs(h, S))
  BY <1>2, SumsCount
<1> QED BY <1>3, <1>4, PairsFinite

------------------------------------------------------------------------------
(* SLA reports. *)

\* The incidents of a table.
IncidentRows(incidents) ==
  IsFiniteSet(incidents) /\ \A i \in incidents : i.started \in Int /\ i.resolved \in Int

\* The requests for reports about some monitors.
FiltersOf(monitors, statuses) ==
  [monitors : SUBSET monitors, status : statuses, after : Int, before : Int,
   excludeMaintenance : BOOLEAN, limit : Int, offset : Nat]

\* The seconds of a period in which an incident is under way.
UnderWay(i, from, to) == {t \in from..(to - 1) : i.started <= t /\ (i.resolved = Ongoing \/ t < i.resolved)}

\* The downtime of an incident is the number of seconds it is under way.
LEMMA DownSecondsCount ==
  ASSUME NEW i, i.started \in Int, i.resolved \in Int, NEW from \in Int, NEW to \in Int
  PROVE  IsFiniteSet(UnderWay(i, from, to)) /\ DownSeconds(i, from, to) = Cardinality(UnderWay(i, from, to))
<1> DEFINE end == IF i.resolved # Ongoing /\ i.resolved < to THEN i.resolved ELSE to
           start == IF i.started < from THEN from ELSE i.started
<1>1. end \in Int /\ start \in Int
  OBVIOUS
<1>2. UnderWay(i, from, to) = start..(end - 1)
  BY DEF UnderWay, Ongoing
<1>3. DownSeconds(i, from, to) = IF end > start THEN end - start ELSE 0
  BY DEF DownSeconds
<1> HIDE DEF end, start
<1>4. IsFiniteSet(start..(end - 1)) /\ Cardinality(start..(end - 1)) = IF start > end - 1 THEN 0 ELSE (end - 1) - start + 1
  BY <1>1, FS_Interval
<1>5. DownSeconds(i, from, to) = Cardinality(start..(end - 1))
  BY <1>1, <1>3, <1>4
<1> QED BY <1>2, <1>4, <1>5

\* The incidents of one monitor a report counts, those under way at a time, and the
\* same incidents with their seconds.
CountedOf(incidents, m, from, to) == {i \in incidents : i.monitor = m /\ from <= i.started /\ i.started <= to}
UnderAt(incidents, monitors, from, t) ==
  {i \in incidents : /\ i.monitor \in monitors
                     /\ from <= i.started /\ i.started <= t
                     /\ i.resolved = Ongoing \/ t < i.resolved}
SecondsOf(incidents, from, to) == [i \in incidents |-> UnderWay(i, from, to)]
IncidentsBySecond(incidents, monitors, from, to) ==
  [t \in from..(to - 1) |-> UnderAt(incidents, monitors, from, t)]
SecondsByMonitor(incidents, monitors, from, to) ==
  [m \in monitors |-> Pairs(SecondsOf(incidents, from, to), CountedOf(incidents, m, from, to))]

\* The downtime of one monitor.
DownOf(incidents, filter, m) == SLAReportForMonitor({}, incidents, [filter EXCEPT !.monitors = {m}]).rawDown

LEMMA RawDown ==
  ASSUME NEW incidents, IncidentRows(incidents),
         NEW all, NEW statuses, NEW filter \in FiltersOf(all, statuses), filter.status = AnyStatus, NEW m \in filter.monitors,
         NEW from \in Int, from = filter.after, NEW to \in Int, to = filter.before
  PROVE  /\ IsFiniteSet(Pairs(SecondsOf(incidents, from, to), CountedOf(incidents, m, from, to)))
         /\ DownOf(incidents, filter, m)
              = Cardinality(Pairs(SecondsOf(incidents, from, to), CountedOf(incidents, m, from, to)))
<1> DEFINE one == [filter EXCEPT !.monitors = {m}]
           own == CountedOf(incidents, m, from, to)
           f == [i \in own |-> DownSeconds(i, from, to)]
           h == SecondsOf(incidents, from, to)
<1>2. one.monitors = {m} /\ one.after = from /\ one.before = to /\ one.status = AnyStatus
  BY DEF FiltersOf
<1>3. ExportIncidents(incidents, one) = own
  <2> HIDE DEF one
  <2> QED BY <1>2 DEF ExportIncidents, CountedOf
<1>4. SLAReportForMonitor({}, incidents, one).rawDown = Total(f)
  <2> HIDE DEF one, own
  <2> QED BY <1>2, <1>3 DEF SLAReportForMonitor
<1>5. IsFiniteSet(own) /\ own \subseteq incidents
  BY FS_Subset DEF CountedOf, IncidentRows
<1>6. \A i \in own : IsFiniteSet(h[i]) /\ f[i] = Cardinality(h[i])
  BY <1>5, DownSecondsCount DEF SecondsOf, IncidentRows
<1> HIDE DEF own, h
<1>7. DOMAIN f = own
  OBVIOUS
<1> HIDE DEF f
<1>8. Total(f) = Cardinality(Pairs(h, own)) /\ IsFiniteSet(Pairs(h, own))
  BY <1>5, <1>6, <1>7, TotalCounts
<1> QED BY <1>4, <1>8 DEF own, h, DownOf

\* The members of the one count are the members of the other.
LEMMA SameSeconds ==
  ASSUME NEW incidents, IncidentRows(incidents),
         NEW monitors, NEW from \in Int, NEW to \in Int,
         NEW U, NEW H, NEW h,
         h = SecondsOf(incidents, from, to),
         U = IncidentsBySecond(incidents, monitors, from, to),
         H = SecondsByMonitor(incidents, monitors, from, to),
         IsFiniteSet(Pairs(U, from..(to - 1)))
  PROVE  Cardinality(Pairs(H, monitors)) = Cardinality(Pairs(U, from..(to - 1)))
<1> DEFINE time == from..(to - 1)
           P == Pairs(U, time)
           Q == Pairs(H, monitors)
           f == [p \in P |-> <<p[2].monitor, <<p[2], p[1]>>>>]
<1>a. /\ U = [t \in time |-> UnderAt(incidents, monitors, from, t)]
      /\ H = [m \in monitors |-> Pairs(h, CountedOf(incidents, m, from, to))]
  BY DEF IncidentsBySecond, SecondsByMonitor
<1>1. ASSUME NEW t, NEW i
      PROVE  <<t, i>> \in P <=> t \in time /\ i \in UnderAt(incidents, monitors, from, t)
  <2>1. <<t, i>> \in P <=> t \in time /\ i \in U[t]
    <3> HIDE DEF time
    <3> QED BY PairIn
  <2>2. t \in time => U[t] = UnderAt(incidents, monitors, from, t)
    BY <1>a
  <2> QED BY ONLY <2>1, <2>2
<1>2. ASSUME NEW m, NEW i, NEW t
      PROVE  <<m, <<i, t>>>> \in Q <=> /\ m \in monitors /\ i \in CountedOf(incidents, m, from, to)
                                       /\ t \in UnderWay(i, from, to)
  <2>1. <<m, <<i, t>>>> \in Q <=> m \in monitors /\ <<i, t>> \in H[m]
    BY PairIn
  <2>2. ASSUME m \in monitors
        PROVE  <<i, t>> \in H[m] <=> i \in CountedOf(incidents, m, from, to) /\ t \in h[i]
    <3>1. H[m] = Pairs(h, CountedOf(incidents, m, from, to))
      BY <2>2, <1>a
    <3>2. <<i, t>> \in Pairs(h, CountedOf(incidents, m, from, to)) <=> i \in CountedOf(incidents, m, from, to) /\ t \in h[i]
      BY PairIn
    <3> QED BY <3>1, <3>2
  <2>3. i \in CountedOf(incidents, m, from, to) => h[i] = UnderWay(i, from, to)
    BY DEF CountedOf, SecondsOf
  <2> QED BY <2>1, <2>2, <2>3
<1>3. ASSUME NEW p \in P
      PROVE  p = <<p[1], p[2]>>
  BY PairOf
<1>4. ASSUME NEW q \in Q
      PROVE  q = <<q[1], <<q[2][1], q[2][2]>>>>
  <2>1. q = <<q[1], q[2]>> /\ q[1] \in monitors /\ q[2] \in H[q[1]]
    BY PairOf
  <2>2. q[2] \in Pairs(h, CountedOf(incidents, q[1], from, to))
    BY <2>1, <1>a
  <2>3. q[2] = <<q[2][1], q[2][2]>>
    BY <2>2, PairOf
  <2> QED BY <2>1, <2>3
<1>5. ASSUME NEW t, NEW i
      PROVE  t \in time /\ i \in UnderAt(incidents, monitors, from, t)
               <=> /\ i.monitor \in monitors /\ i \in CountedOf(incidents, i.monitor, from, to)
                   /\ t \in UnderWay(i, from, to)
  <2>1. ASSUME t \in time, i \in UnderAt(incidents, monitors, from, t)
        PROVE  /\ i.monitor \in monitors /\ i \in CountedOf(incidents, i.monitor, from, to)
               /\ t \in UnderWay(i, from, to)
    <3>1. t \in Int /\ t <= to - 1 /\ from <= t
      BY <2>1
    <3>2. /\ i \in incidents /\ i.monitor \in monitors /\ from <= i.started /\ i.started <= t
          /\ i.resolved = Ongoing \/ t < i.resolved
      BY <2>1 DEF UnderAt
    <3>3. i.started <= to
      BY <3>1, <3>2 DEF IncidentRows
    <3> QED BY <2>1, <3>2, <3>3 DEF CountedOf, UnderWay
  <2>2. ASSUME i.monitor \in monitors, i \in CountedOf(incidents, i.monitor, from, to),
               t \in UnderWay(i, from, to)
        PROVE  t \in time /\ i \in UnderAt(incidents, monitors, from, t)
    BY <2>2 DEF CountedOf, UnderWay, UnderAt
  <2> QED BY <2>1, <2>2
<1> HIDE DEF P, Q
<1>6. f \in [P -> Q]
  <2> SUFFICES ASSUME NEW p \in P PROVE <<p[2].monitor, <<p[2], p[1]>>>> \in Q
    OBVIOUS
  <2> DEFINE i == p[2]
             t == p[1]
  <2>1. <<t, i>> \in P
    BY <1>3
  <2> HIDE DEF i, t
  <2>2. <<i.monitor, <<i, t>>>> \in Q
    BY <1>1, <1>2, <1>5, <2>1
  <2> QED BY <2>2 DEF i, t
<1>7. \A p, q \in P : f[p] = f[q] => p = q
  <2> SUFFICES ASSUME NEW p \in P, NEW q \in P, f[p] = f[q] PROVE p = q
    OBVIOUS
  <2> QED BY <1>3
<1>8. \A q \in Q : \E p \in P : f[p] = q
  <2> SUFFICES ASSUME NEW q \in Q PROVE \E p \in P : f[p] = q
    OBVIOUS
  <2> DEFINE i == q[2][1]
             t == q[2][2]
  <2>1. q = <<q[1], <<i, t>>>>
    BY <1>4
  <2> HIDE DEF i, t
  <2>2. q[1] \in monitors /\ i \in CountedOf(incidents, q[1], from, to) /\ t \in UnderWay(i, from, to)
    BY <1>2, <2>1
  <2>3. i.monitor = q[1]
    BY <2>2 DEF CountedOf
  <2>4. <<t, i>> \in P
    BY <1>1, <1>5, <2>2, <2>3
  <2>5. f[<<t, i>>] = <<i.monitor, <<i, t>>>>
    BY <2>4
  <2> QED BY <2>1, <2>3, <2>4, <2>5
<1> HIDE DEF f
<1>9. IsFiniteSet(P)
  BY DEF P
<1>10. Cardinality(Q) = Cardinality(P)
  BY <1>6, <1>7, <1>8, <1>9, Corresponding
<1> QED BY <1>10 DEF P, Q

\* The downtime an SLA report shows is, second by second, the number of the
\* incidents of its monitors that began within the period and are under way
\* (SLAReportForMonitor, SLAReportForOrg).
THEOREM SlaAlways ==
  ASSUME NEW incidents, IncidentRows(incidents),
         NEW all, NEW statuses, NEW filter \in FiltersOf(all, statuses), filter.status = AnyStatus,
         IsFiniteSet(filter.monitors)
  PROVE  SlaAgrees(incidents, filter)
<1>1. PICK from \in Int, to \in Int : from = filter.after /\ to = filter.before
  BY DEF FiltersOf
<1> DEFINE monitors == filter.monitors
           time == from..(to - 1)
           h == SecondsOf(incidents, from, to)
           U == [t \in time |-> UnderAt(incidents, monitors, from, t)]
           H == [m \in monitors |-> Pairs(h, CountedOf(incidents, m, from, to))]
           down == [m \in monitors |-> SLAReportForMonitor({}, incidents, [filter EXCEPT !.monitors = {m}]).rawDown]
           under == [t \in time |-> Cardinality(UnderAt(incidents, monitors, from, t))]
<1>2. IsFiniteSet(time)
  <2> HIDE DEF h, U, H, down, under
  <2>1. to - 1 \in Int
    BY ONLY <1>1
  <2> QED BY <2>1, FS_Interval
<1>3. \A t \in time : IsFiniteSet(U[t]) /\ under[t] = Cardinality(U[t])
  BY FS_Subset DEF UnderAt, IncidentRows
<1>4. \A m \in monitors : IsFiniteSet(H[m]) /\ down[m] = Cardinality(H[m])
  <2> SUFFICES ASSUME NEW m \in monitors
               PROVE  IsFiniteSet(H[m]) /\ down[m] = Cardinality(H[m])
    OBVIOUS
  <2>1. /\ IsFiniteSet(Pairs(h, CountedOf(incidents, m, from, to)))
        /\ DownOf(incidents, filter, m)
             = Cardinality(Pairs(h, CountedOf(incidents, m, from, to)))
    <3>1. m \in filter.monitors /\ from = filter.after /\ to = filter.before
      BY <1>1
    <3> QED BY ONLY IncidentRows(incidents), filter \in FiltersOf(all, statuses), filter.status = AnyStatus,
                    <3>1, from \in Int, to \in Int, RawDown
  <2>2. H[m] = Pairs(h, CountedOf(incidents, m, from, to))
    OBVIOUS
  <2>3. down[m] = DownOf(incidents, filter, m)
    BY DEF DownOf
  <2> QED BY <2>1, <2>2, <2>3
<1>5. DOMAIN down = monitors /\ DOMAIN under = time
  OBVIOUS
<1>6. SlaAgrees(incidents, filter) <=> Total(down) = Total(under)
  BY <1>1 DEF SlaAgrees, SLAReportForOrg, UnderAt
<1> HIDE DEF down, under
<1>7. Total(down) = Cardinality(Pairs(H, monitors))
  <2> HIDE DEF H
  <2> QED BY <1>4, <1>5, TotalCounts
<1>8. Total(under) = Cardinality(Pairs(U, time)) /\ IsFiniteSet(Pairs(U, time))
  <2> HIDE DEF U, time
  <2> QED BY <1>2, <1>3, <1>5, TotalCounts
<1>9. Cardinality(Pairs(H, monitors)) = Cardinality(Pairs(U, time))
  <2> HIDE DEF h
  <2>1. /\ h = SecondsOf(incidents, from, to)
        /\ U = IncidentsBySecond(incidents, monitors, from, to)
        /\ H = SecondsByMonitor(incidents, monitors, from, to)
    BY DEF h, IncidentsBySecond, SecondsByMonitor
  <2>2. IsFiniteSet(Pairs(U, from..(to - 1)))
    BY <1>8
  <2> HIDE DEF U, H, time, monitors
  <2>3. Cardinality(Pairs(H, monitors)) = Cardinality(Pairs(U, from..(to - 1)))
    BY ONLY IncidentRows(incidents), from \in Int, to \in Int, <2>1, <2>2, SameSeconds
  <2> QED BY <2>3 DEF time
<1> QED BY <1>6, <1>7, <1>8, <1>9

------------------------------------------------------------------------------
(* Lists of rows, the newest first, and their pages. *)

\* A list of all the rows, each once, the newest first.
Listing(rows, s) ==
  /\ s \in [1..Cardinality(rows) -> rows]
  /\ \A i, j \in 1..Cardinality(rows) : i < j => s[i] # s[j] /\ s[i].at >= s[j].at

\* Rows can be listed with the newest first,
LEMMA ListingExists ==
  ASSUME NEW rows, IsFiniteSet(rows), \A r \in rows : r.at \in Nat
  PROVE  \E s : Listing(rows, s)
<1> DEFINE Unlisted(R) == \A s : ~Listing(R, s)
           sizes == {n \in Nat : \E R \in SUBSET rows : Cardinality(R) = n /\ Unlisted(R)}
<1> SUFFICES ASSUME Unlisted(rows) PROVE FALSE
  OBVIOUS
<1> HIDE DEF Unlisted
<1>1. Cardinality(rows) \in sizes
  BY FS_CardinalityType
<1>2. PICK n \in sizes : \A k \in sizes : n <= k
  <2>1. sizes \subseteq Nat /\ sizes # {}
    BY <1>1
  <2> HIDE DEF sizes
  <2> QED BY <2>1, LeastNumber
<1>3. PICK R \in SUBSET rows : Cardinality(R) = n /\ Unlisted(R)
  OBVIOUS
<1>4. n \in Nat /\ IsFiniteSet(R)
  BY FS_Subset
<1>5. CASE R = {}
  <2>1. Cardinality(R) = 0
    BY <1>5, FS_EmptySet
  <2>2. Listing(R, [i \in 1..0 |-> i])
    BY <1>5, <2>1 DEF Listing
  <2> QED BY <1>3, <2>2 DEF Unlisted
<1>6. CASE R # {}
  <2> DEFINE times == {x.at : x \in R}
  <2>1. times \subseteq Nat /\ times # {}
    BY <1>6
  <2>2. PICK t \in times : \A k \in times : t <= k
    <3> HIDE DEF times
    <3> QED BY <2>1, LeastNumber
  <2>3. PICK r \in R : r.at = t
    OBVIOUS
  <2>4. \A x \in R : r.at <= x.at
    BY <2>2, <2>3
  <2>5. Cardinality(R \ {r}) = n - 1 /\ n - 1 \in Nat
    <3>1. Cardinality(R \ {r}) = n - 1 /\ IsFiniteSet(R \ {r})
      BY <1>3, <1>4, FS_RemoveElement
    <3> QED BY <3>1, FS_CardinalityType
  <2>6. ~Unlisted(R \ {r})
    <3> SUFFICES ASSUME Unlisted(R \ {r}) PROVE FALSE
      OBVIOUS
    <3>1. n - 1 \in sizes
      BY <2>5
    <3> HIDE DEF sizes
    <3> QED BY <1>2, <1>4, <3>1
  <2>7. PICK s : Listing(R \ {r}, s)
    BY <2>6 DEF Unlisted
  <2> DEFINE longer == [i \in 1..n |-> IF i = n THEN r ELSE s[i]]
  <2>8. s \in [1..(n - 1) -> R \ {r}] /\ \A i, j \in 1..(n - 1) : i < j => s[i] # s[j] /\ s[i].at >= s[j].at
    BY <2>5, <2>7 DEF Listing
  <2>9. ASSUME NEW i \in 1..n, i # n
        PROVE  i \in 1..(n - 1) /\ longer[i] = s[i] /\ s[i] \in R /\ s[i] # r
    BY <1>4, <2>8, <2>9
  <2>10. longer[n] = r /\ n \in 1..n
    BY <1>4, <2>5
  <2>11. longer \in [1..n -> R]
    BY <2>8, <2>9
  <2>12. ASSUME NEW i \in 1..n, NEW j \in 1..n, i < j
         PROVE  longer[i] # longer[j] /\ longer[i].at >= longer[j].at
    <3>1. i # n /\ i \in Int /\ j \in Int
      BY <1>4, <2>12
    <3>2. CASE j = n
      BY <2>4, <2>9, <2>10, <3>1, <3>2
    <3>3. CASE j # n
      BY <2>8, <2>9, <2>12, <3>1, <3>3
    <3> QED BY <3>2, <3>3
  <2>13. Listing(R, longer)
    <3> HIDE DEF longer
    <3> QED BY <1>3, <2>11, <2>12 DEF Listing
  <2> QED BY <1>3, <2>13 DEF Unlisted
<1> QED BY <1>5, <1>6

\* and NewestFirst is such a list.
LEMMA NewestLists ==
  ASSUME NEW rows, IsFiniteSet(rows), \A r \in rows : r.at \in Nat
  PROVE  Listing(rows, NewestFirst(rows))
<1> DEFINE Good(s) == \A i, j \in DOMAIN s : i < j => s[i] # s[j] /\ s[i].at >= s[j].at
<1>1. \A s \in [1..Cardinality(rows) -> rows] : Good(s) <=> Listing(rows, s)
  BY DEF Listing
<1>2. \E s \in [1..Cardinality(rows) -> rows] : Good(s)
  BY <1>1, ListingExists DEF Listing
<1>3. NewestFirst(rows) = CHOOSE s \in [1..Cardinality(rows) -> rows] : Good(s)
  BY DEF NewestFirst
<1> HIDE DEF Good
<1> QED BY <1>1, <1>2, <1>3

\* Every row is listed.
LEMMA ListingOnto ==
  ASSUME NEW rows, IsFiniteSet(rows), NEW s, Listing(rows, s), NEW r \in rows
  PROVE  \E i \in 1..Cardinality(rows) : s[i] = r
<1> DEFINE n == Cardinality(rows)
<1>1. n \in Nat
  BY FS_CardinalityType
<1>2. s \in [1..n -> rows] /\ \A i, j \in 1..n : i < j => s[i] # s[j]
  BY DEF Listing
<1> HIDE DEF n
<1>3. \A i, j \in 1..n : s[i] = s[j] => i = j
  <2> SUFFICES ASSUME NEW i \in 1..n, NEW j \in 1..n, s[i] = s[j], i # j PROVE FALSE
    OBVIOUS
  <2>1. i < j \/ j < i
    BY <1>1
  <2> QED BY <1>2, <2>1
<1>4. s \in Injection(1..n, rows)
  BY <1>2, <1>3 DEF Injection, IsInjective
<1>5. IsFiniteSet(1..n) /\ Cardinality(1..n) = n
  BY <1>1, FS_Interval
<1>6. s \in Surjection(1..n, rows)
  BY <1>4, <1>5, FS_Injection DEF n
<1> QED BY <1>6 DEF Surjection, n

\* A list is as long as there are rows, and a sequence.
LEMMA ListingLength ==
  ASSUME NEW rows, IsFiniteSet(rows), NEW s, Listing(rows, s)
  PROVE  s \in Seq(rows) /\ Len(s) = Cardinality(rows) /\ Cardinality(rows) \in Nat
<1>1. Cardinality(rows) \in Nat
  BY FS_CardinalityType
<1> QED BY <1>1 DEF Listing

\* The smaller of two numbers.
LEMMA LeastOfTwo ==
  ASSUME NEW a \in Int, NEW b \in Int
  PROVE  Min({a, b}) = IF a <= b THEN a ELSE b
<1> DEFINE Least(x) == \A y \in {a, b} : x <= y
<1>1. Min({a, b}) = CHOOSE x \in {a, b} : Least(x)
  BY DEF Min
<1>2. \E x \in {a, b} : Least(x)
  OBVIOUS
<1>3. Least(CHOOSE x \in {a, b} : Least(x)) /\ (CHOOSE x \in {a, b} : Least(x)) \in {a, b}
  <2> HIDE DEF Least
  <2> QED BY <1>2
<1>4. Least(Min({a, b})) /\ Min({a, b}) \in {a, b}
  <2> HIDE DEF Least
  <2> QED BY <1>1, <1>3
<1> QED BY <1>4

\* A page that is large enough is the list.
LEMMA WholePage ==
  ASSUME NEW rows, NEW s \in Seq(rows), NEW limit \in Int, Len(s) <= limit
  PROVE  Page(s, limit, 0) = s
<1>1. Min({0 + limit, Len(s)}) = Len(s)
  <2>1. Len(s) \in Int
    OBVIOUS
  <2> QED BY <2>1, LeastOfTwo
<1>2. SubSeq(s, 1, Len(s)) = s
  OBVIOUS
<1> QED BY <1>1, <1>2 DEF Page

\* Of a page of one there is the row at that place.
LEMMA OnePage ==
  ASSUME NEW rows, NEW s \in Seq(rows), NEW k \in 0..(Len(s) - 1)
  PROVE  Page(s, 1, k) = <<s[k + 1]>>
<1>1. Min({k + 1, Len(s)}) = k + 1
  <2>1. Len(s) \in Int /\ k + 1 \in Int /\ k + 1 <= Len(s)
    OBVIOUS
  <2> QED BY <2>1, LeastOfTwo
<1>2. SubSeq(s, k + 1, k + 1) = <<s[k + 1]>>
  <2> DEFINE x == SubSeq(s, k + 1, k + 1)
  <2>1. x \in Seq(rows) /\ Len(x) = 1 /\ x[1] = s[k + 1]
    BY SubSeqProperties
  <2> HIDE DEF x
  <2>2. x = <<x[1]>>
    BY <2>1
  <2> QED BY <2>1, <2>2 DEF x
<1> QED BY <1>1, <1>2 DEF Page

------------------------------------------------------------------------------
(* What a report reads. *)

\* The check results of a table.
CheckRows(rows) == IsFiniteSet(rows) /\ \A r \in rows : r.at \in 0..LastSecond

\* The rows of the checks that succeeded.
Succeeded(rows) == {r \in rows : r.success}

\* What is read of some rows, when there is room for all.
LEMMA ReadsAll ==
  ASSUME NEW rows, IsFiniteSet(rows), \A r \in rows : r.at \in Nat, NEW limit \in Int, Cardinality(rows) <= limit
  PROVE  /\ Len(Page(NewestFirst(rows), limit, 0)) = Cardinality(rows)
         /\ Successes(Page(NewestFirst(rows), limit, 0)) = Cardinality(Succeeded(rows))
<1> DEFINE s == NewestFirst(rows)
           n == Cardinality(rows)
           at == {i \in 1..n : s[i].success}
           f == [i \in at |-> s[i]]
<1>1. Listing(rows, s)
  BY NewestLists
<1> HIDE DEF s
<1>2. s \in Seq(rows) /\ Len(s) = n /\ n \in Nat
  BY <1>1, ListingLength
<1>3. Page(s, limit, 0) = s
  BY <1>2, WholePage
<1>4. DOMAIN s = 1..n
  BY <1>2
<1>5. s \in [1..n -> rows] /\ \A i, j \in 1..n : i < j => s[i] # s[j]
  BY <1>1 DEF Listing
<1>6. \A r \in rows : \E i \in 1..n : s[i] = r
  BY <1>1, ListingOnto
<1>7. Successes(s) = Cardinality(at)
  BY <1>4 DEF Successes
<1> HIDE DEF n
<1>8. IsFiniteSet(at)
  <2>1. IsFiniteSet(1..n)
    BY <1>2, FS_Interval
  <2> QED BY <2>1, FS_Subset
<1>9. f \in [at -> Succeeded(rows)]
  BY <1>5 DEF Succeeded
<1>10. \A i, j \in at : f[i] = f[j] => i = j
  <2> SUFFICES ASSUME NEW i \in at, NEW j \in at, s[i] = s[j], i # j PROVE FALSE
    OBVIOUS
  <2>1. i < j \/ j < i
    BY <1>2
  <2> QED BY <1>5, <2>1
<1>11. \A r \in Succeeded(rows) : \E i \in at : f[i] = r
  BY <1>6 DEF Succeeded
<1>12. Cardinality(Succeeded(rows)) = Cardinality(at)
  <2> HIDE DEF at, f
  <2> QED BY <1>8, <1>9, <1>10, <1>11, Corresponding
<1> QED BY <1>2, <1>3, <1>7, <1>12 DEF s, n

\* The rows of a report: of a monitor, from a time on.
RowsSince(rows, m, since) == {r \in rows : r.monitor = m /\ since <= r.at}
ReportOf(rows, incidents, m, since) == UptimeReport(rows, incidents, [Unfiltered({m}) EXCEPT !.after = since])
IncidentsSince(incidents, m, since) ==
  {i \in incidents : i.monitor = m /\ since <= i.started /\ i.started <= LastSecond}

\* A report that has room for a monitor's rows counts all of them.
LEMMA ReportCounts ==
  ASSUME NEW rows, CheckRows(rows), Cardinality(rows) <= ReportLimit, NEW incidents, NEW m, NEW since \in Nat
  PROVE  /\ ReportOf(rows, incidents, m, since).summary.checks = Cardinality(RowsSince(rows, m, since))
         /\ ReportOf(rows, incidents, m, since).summary.successful = Cardinality(Succeeded(RowsSince(rows, m, since)))
         /\ ReportOf(rows, incidents, m, since).incidentCount = Cardinality(IncidentsSince(incidents, m, since))
<1> DEFINE q == [[Unfiltered({m}) EXCEPT !.after = since] EXCEPT !.limit = ReportLimit, !.offset = 0, !.status = AnyStatus]
           e == [[Unfiltered({m}) EXCEPT !.after = since] EXCEPT !.status = AnyStatus]
           own == RowsSince(rows, m, since)
<1>1. /\ q.monitors = {m} /\ q.after = since /\ q.before = LastSecond /\ q.status = AnyStatus
      /\ q.excludeMaintenance = FALSE /\ q.limit = ReportLimit /\ q.offset = 0
  BY DEF Unfiltered
<1>2. e.monitors = {m} /\ e.after = since /\ e.before = LastSecond /\ e.status = AnyStatus
  BY DEF Unfiltered
<1>3. /\ ReportOf(rows, incidents, m, since).summary = SummarizeResults(ListCheckResults(rows, q))
      /\ ReportOf(rows, incidents, m, since).incidentCount = Cardinality(ExportIncidents(incidents, e))
  BY DEF ReportOf, UptimeReport
<1> HIDE DEF q, e
<1>4. ExportIncidents(incidents, e) = IncidentsSince(incidents, m, since)
  BY <1>2 DEF ExportIncidents, IncidentsSince
<1>5. Selected(rows, q) = own
  BY <1>1 DEF Selected, RowsSince, CheckRows
<1>6. BoundedLimit(q.limit, 100, ReportLimit) = ReportLimit /\ ReportLimit \in Int
  BY <1>1, ReportsAssumption DEF BoundedLimit
<1>7. ListCheckResults(rows, q) = Page(NewestFirst(own), ReportLimit, 0)
  BY <1>1, <1>5, <1>6 DEF ListCheckResults
<1>8. IsFiniteSet(own) /\ Cardinality(own) <= ReportLimit /\ \A r \in own : r.at \in Nat
  <2>1. own \subseteq rows /\ IsFiniteSet(rows) /\ \A r \in own : r.at \in Nat
    BY ReportsAssumption DEF RowsSince, CheckRows
  <2>2. IsFiniteSet(own) /\ Cardinality(own) \in Nat /\ Cardinality(rows) \in Nat /\ Cardinality(own) <= Cardinality(rows)
    BY <2>1, Smaller
  <2> QED BY <1>6, <2>1, <2>2
<1> HIDE DEF own
<1>9. /\ Len(ListCheckResults(rows, q)) = Cardinality(own)
      /\ Successes(ListCheckResults(rows, q)) = Cardinality(Succeeded(own))
  BY <1>6, <1>7, <1>8, ReadsAll
<1>10. /\ SummarizeResults(ListCheckResults(rows, q)).checks = Len(ListCheckResults(rows, q))
       /\ SummarizeResults(ListCheckResults(rows, q)).successful = Successes(ListCheckResults(rows, q))
  BY DEF SummarizeResults
<1> QED BY <1>3, <1>4, <1>9, <1>10 DEF own

\* The rows of the overview.
RowsOfAll(rows, monitors, since) == {r \in rows : r.monitor \in monitors /\ since <= r.at}

\* The overview counts the rows of the monitors it is about.
LEMMA OverviewCounts ==
  ASSUME NEW rows, CheckRows(rows), Cardinality(rows) <= ReportLimit, NEW incidents, NEW statuses, NEW since \in Nat
  PROVE  /\ OverviewStats(statuses, incidents, rows, since).checks = Cardinality(RowsOfAll(rows, DOMAIN statuses, since))
         /\ OverviewStats(statuses, incidents, rows, since).successful
              = Cardinality(Succeeded(RowsOfAll(rows, DOMAIN statuses, since)))
<1> DEFINE q == [Unfiltered(DOMAIN statuses) EXCEPT !.limit = ReportLimit]
           recent == {r \in rows : r.at >= since}
           all == RowsOfAll(rows, DOMAIN statuses, since)
<1>1. /\ q.monitors = DOMAIN statuses /\ q.after = 0 /\ q.before = LastSecond /\ q.status = AnyStatus
      /\ q.excludeMaintenance = FALSE /\ q.limit = ReportLimit /\ q.offset = 0
  BY DEF Unfiltered
<1>2. /\ OverviewStats(statuses, incidents, rows, since).checks = Len(ListCheckResults(recent, q))
      /\ OverviewStats(statuses, incidents, rows, since).successful = Successes(ListCheckResults(recent, q))
  BY DEF OverviewStats
<1> HIDE DEF q
<1>3. \A r \in rows : r.at \in Int /\ 0 <= r.at /\ r.at <= LastSecond
  BY ReportsAssumption DEF CheckRows
<1>4. Selected(recent, q) = all
  BY <1>1, <1>3 DEF Selected, RowsOfAll
<1>5. BoundedLimit(q.limit, 100, ReportLimit) = ReportLimit /\ ReportLimit \in Int
  BY <1>1, ReportsAssumption DEF BoundedLimit
<1>6. ListCheckResults(recent, q) = Page(NewestFirst(all), ReportLimit, 0)
  BY <1>1, <1>4, <1>5 DEF ListCheckResults
<1>7. IsFiniteSet(all) /\ Cardinality(all) <= ReportLimit /\ \A r \in all : r.at \in Nat
  <2>1. all \subseteq rows /\ IsFiniteSet(rows) /\ \A r \in all : r.at \in Nat
    BY <1>3 DEF RowsOfAll, CheckRows
  <2>2. IsFiniteSet(all) /\ Cardinality(all) \in Nat /\ Cardinality(rows) \in Nat /\ Cardinality(all) <= Cardinality(rows)
    BY <2>1, Smaller
  <2> QED BY <1>5, <2>1, <2>2
<1> HIDE DEF all
<1>8. /\ Len(ListCheckResults(recent, q)) = Cardinality(all)
      /\ Successes(ListCheckResults(recent, q)) = Cardinality(Succeeded(all))
  BY <1>5, <1>6, <1>7, ReadsAll
<1> QED BY <1>2, <1>8 DEF all

\* Rows counted monitor by monitor.
LEMMA CountedByMonitor ==
  ASSUME NEW rows, IsFiniteSet(rows), NEW monitors, IsFiniteSet(monitors), \A r \in rows : r.monitor \in monitors,
         NEW f, DOMAIN f = monitors, \A m \in monitors : f[m] = Cardinality({r \in rows : r.monitor = m})
  PROVE  Total(f) = Cardinality(rows)
<1> DEFINE h == [m \in monitors |-> {r \in rows : r.monitor = m}]
           P == Pairs(h, monitors)
           g == [r \in rows |-> <<r.monitor, r>>]
<1>1. \A m \in monitors : h[m] \subseteq rows /\ IsFiniteSet(h[m]) /\ f[m] = Cardinality(h[m])
  BY FS_Subset
<1>2. \A m, r : <<m, r>> \in P <=> m \in monitors /\ r \in rows /\ r.monitor = m
  <2> SUFFICES ASSUME NEW m, NEW r
               PROVE  <<m, r>> \in P <=> m \in monitors /\ r \in rows /\ r.monitor = m
    OBVIOUS
  <2>1. <<m, r>> \in P <=> m \in monitors /\ r \in h[m]
    <3> HIDE DEF h
    <3> QED BY PairIn
  <2>2. m \in monitors => h[m] = {x \in rows : x.monitor = m}
    OBVIOUS
  <2> QED BY <2>1, <2>2
<1>3. \A p \in P : p = <<p[1], p[2]>>
  BY PairOf
<1> HIDE DEF h
<1>4. Total(f) = Cardinality(P)
  BY <1>1, TotalCounts
<1> HIDE DEF P
<1>5. g \in [rows -> P]
  BY <1>2
<1>6. \A x, y \in rows : g[x] = g[y] => x = y
  OBVIOUS
<1>7. \A p \in P : \E x \in rows : g[x] = p
  <2> SUFFICES ASSUME NEW p \in P PROVE \E x \in rows : g[x] = p
    OBVIOUS
  <2>1. p = <<p[1], p[2]>>
    BY <1>3
  <2>2. p[2] \in rows /\ p[2].monitor = p[1]
    BY <1>2, <2>1
  <2>3. g[p[2]] = p
    BY <2>1, <2>2
  <2> QED BY <2>2, <2>3
<1> HIDE DEF g
<1> QED BY <1>4, <1>5, <1>6, <1>7, Corresponding

------------------------------------------------------------------------------
(* The figures of one moment. *)

\* The reports' figures, monitor by monitor.
ChecksByMonitor(rows, incidents, monitors, since) ==
  [m \in monitors |-> ReportOf(rows, incidents, m, since).summary.checks]
SuccessesByMonitor(rows, incidents, monitors, since) ==
  [m \in monitors |-> ReportOf(rows, incidents, m, since).summary.successful]
IncidentsByMonitor(rows, incidents, monitors, since) ==
  [m \in monitors |-> ReportOf(rows, incidents, m, since).incidentCount]

\* The incidents that started from a time on.
StartedSince(incidents, since) == {i \in incidents : since <= i.started /\ i.started <= LastSecond}

\* What the reports of all monitors add up to.
LEMMA ReportsTotal ==
  ASSUME NEW rows, CheckRows(rows), Cardinality(rows) <= ReportLimit, NEW monitors, IsFiniteSet(monitors),
         NEW incidents, IncidentRows(incidents), \A i \in incidents : i.monitor \in monitors, NEW since \in Nat
  PROVE  /\ Total(ChecksByMonitor(rows, incidents, monitors, since)) = Cardinality(RowsOfAll(rows, monitors, since))
         /\ Total(SuccessesByMonitor(rows, incidents, monitors, since))
              = Cardinality(Succeeded(RowsOfAll(rows, monitors, since)))
         /\ Total(IncidentsByMonitor(rows, incidents, monitors, since))
              = Cardinality(StartedSince(incidents, since))
<1> DEFINE all == RowsOfAll(rows, monitors, since)
           in == StartedSince(incidents, since)
           c == ChecksByMonitor(rows, incidents, monitors, since)
           s == SuccessesByMonitor(rows, incidents, monitors, since)
           n == IncidentsByMonitor(rows, incidents, monitors, since)
<1>1. IsFiniteSet(all) /\ IsFiniteSet(Succeeded(all)) /\ IsFiniteSet(in)
  <2>1. all \subseteq rows /\ Succeeded(all) \subseteq rows /\ in \subseteq incidents
    BY DEF RowsOfAll, Succeeded, StartedSince
  <2> HIDE DEF all, in
  <2> QED BY <2>1, Smaller DEF CheckRows, IncidentRows
<1>2. \A r \in all : r.monitor \in monitors
  BY DEF RowsOfAll
<1>3. \A r \in Succeeded(all) : r.monitor \in monitors
  BY <1>2 DEF Succeeded
<1>4. \A m \in monitors : c[m] = Cardinality({r \in all : r.monitor = m})
  <2> SUFFICES ASSUME NEW m \in monitors PROVE c[m] = Cardinality({r \in all : r.monitor = m})
    OBVIOUS
  <2>1. c[m] = Cardinality(RowsSince(rows, m, since))
    BY ReportCounts DEF ChecksByMonitor
  <2>2. {r \in all : r.monitor = m} = RowsSince(rows, m, since)
    BY DEF RowsOfAll, RowsSince
  <2> QED BY <2>1, <2>2
<1>5. \A m \in monitors : s[m] = Cardinality({r \in Succeeded(all) : r.monitor = m})
  <2> SUFFICES ASSUME NEW m \in monitors PROVE s[m] = Cardinality({r \in Succeeded(all) : r.monitor = m})
    OBVIOUS
  <2>1. s[m] = Cardinality(Succeeded(RowsSince(rows, m, since)))
    BY ReportCounts DEF SuccessesByMonitor
  <2>2. {r \in Succeeded(all) : r.monitor = m} = Succeeded(RowsSince(rows, m, since))
    BY DEF RowsOfAll, RowsSince, Succeeded
  <2> QED BY <2>1, <2>2
<1>6. \A m \in monitors : n[m] = Cardinality({i \in in : i.monitor = m})
  <2> SUFFICES ASSUME NEW m \in monitors PROVE n[m] = Cardinality({i \in in : i.monitor = m})
    OBVIOUS
  <2>1. n[m] = Cardinality(IncidentsSince(incidents, m, since))
    BY ReportCounts DEF IncidentsByMonitor
  <2>2. {i \in in : i.monitor = m} = IncidentsSince(incidents, m, since)
    BY DEF IncidentsSince, StartedSince
  <2> QED BY <2>1, <2>2
<1>7. DOMAIN c = monitors /\ DOMAIN s = monitors /\ DOMAIN n = monitors
  BY DEF ChecksByMonitor, SuccessesByMonitor, IncidentsByMonitor
<1>8. \A i \in in : i.monitor \in monitors
  BY DEF StartedSince
<1> HIDE DEF all, in, c, s, n
<1>9. Total(c) = Cardinality(all)
  BY <1>1, <1>2, <1>4, <1>7, CountedByMonitor
<1>10. Total(s) = Cardinality(Succeeded(all))
  BY <1>1, <1>3, <1>5, <1>7, CountedByMonitor
<1>11. Total(n) = Cardinality(in)
  BY <1>1, <1>6, <1>7, <1>8, CountedByMonitor
<1> QED BY <1>9, <1>10, <1>11 DEF all, in, c, s, n

\* Every monitor is up, down or degraded.
LEMMA StatusesPartition ==
  ASSUME NEW statuses, IsFiniteSet(DOMAIN statuses), \A m \in DOMAIN statuses : statuses[m] \in {"up", "down", "degraded"}
  PROVE  Cardinality({m \in DOMAIN statuses : statuses[m] = "up"})
           + Cardinality({m \in DOMAIN statuses : statuses[m] = "down"})
           + Cardinality({m \in DOMAIN statuses : statuses[m] = "degraded"}) = Cardinality(DOMAIN statuses)
<1> DEFINE A == {m \in DOMAIN statuses : statuses[m] = "up"}
           B == {m \in DOMAIN statuses : statuses[m] = "down"}
           C == {m \in DOMAIN statuses : statuses[m] = "degraded"}
           D == DOMAIN statuses
<1>1. A \intersect B = {} /\ (A \union B) \intersect C = {} /\ (A \union B) \union C = D
  OBVIOUS
<1>2. A \subseteq D /\ B \subseteq D /\ C \subseteq D
  OBVIOUS
<1> HIDE DEF A, B, C, D
<1>3. IsFiniteSet(A) /\ IsFiniteSet(B) /\ IsFiniteSet(C)
  BY <1>2, FS_Subset DEF D
<1>4. IsFiniteSet(A \union B) /\ Cardinality(A \union B) = Cardinality(A) + Cardinality(B) - Cardinality(A \intersect B)
  BY <1>3, FS_Union
<1>5. Cardinality((A \union B) \union C)
        = Cardinality(A \union B) + Cardinality(C) - Cardinality((A \union B) \intersect C)
  BY <1>3, <1>4, FS_Union
<1>6. Cardinality({}) = 0
  BY FS_EmptySet
<1>7. Cardinality(A) \in Nat /\ Cardinality(B) \in Nat /\ Cardinality(C) \in Nat
  BY <1>3, FS_CardinalityType
<1>8. Cardinality(A) + Cardinality(B) + Cardinality(C) = Cardinality(D)
  <2>1. Cardinality(A \union B) = Cardinality(A) + Cardinality(B) - 0
    BY ONLY <1>1, <1>4, <1>6
  <2>2. Cardinality(D) = Cardinality(A \union B) + Cardinality(C) - 0
    BY ONLY <1>1, <1>5, <1>6
  <2> QED BY ONLY <1>7, <2>1, <2>2
<1> QED BY <1>8 DEF A, B, C, D

\* A monitor's page has no fewer checks than its report.
LEMMA PageHasMore ==
  ASSUME NEW rows, CheckRows(rows), Cardinality(rows) <= ReportLimit, Cardinality(rows) <= 500,
         NEW incidents, NEW m, NEW since \in Nat
  PROVE  MonitorStats(rows, m).checks >= ReportOf(rows, incidents, m, since).summary.checks
<1> DEFINE own == {r \in rows : r.monitor = m}
           part == RowsSince(rows, m, since)
           limit == BoundedLimit(500, 100, ReportLimit)
<1>1. limit \in Int /\ limit \in {500, ReportLimit}
  BY ReportsAssumption DEF BoundedLimit
<1> HIDE DEF limit
<1>2. own \subseteq rows /\ part \subseteq own /\ IsFiniteSet(rows) /\ \A r \in own : r.at \in Nat
  BY ReportsAssumption DEF RowsSince, CheckRows
<1>3. MonitorStats(rows, m).checks = Len(Page(NewestFirst(own), limit, 0))
  BY DEF MonitorStats, limit
<1> HIDE DEF own, part
<1>4. IsFiniteSet(own) /\ Cardinality(own) \in Nat /\ Cardinality(rows) \in Nat /\ Cardinality(own) <= Cardinality(rows)
  BY <1>2, Smaller
<1>5. Cardinality(part) \in Nat /\ Cardinality(part) <= Cardinality(own)
  BY <1>2, <1>4, Smaller
<1>6. Cardinality(own) <= limit
  BY <1>1, <1>4, ReportsAssumption
<1>7. MonitorStats(rows, m).checks = Cardinality(own)
  BY <1>1, <1>2, <1>3, <1>4, <1>6, ReadsAll
<1>8. ReportOf(rows, incidents, m, since).summary.checks = Cardinality(part)
  BY ReportCounts DEF part
<1> QED BY <1>4, <1>5, <1>7, <1>8

\* The overview, the uptime reports and the monitors' pages of one moment fit
\* together, as long as the table holds no more results than a report and a
\* monitor's page read (UptimeReport, OverviewStats, monitorStats).
THEOREM FiguresAlways ==
  ASSUME NEW rows, CheckRows(rows), Cardinality(rows) <= ReportLimit, Cardinality(rows) <= 500,
         NEW statuses, IsFiniteSet(DOMAIN statuses),
         \A m \in DOMAIN statuses : statuses[m] \in {"up", "down", "degraded"},
         NEW incidents, IncidentRows(incidents),
         \A i \in incidents : i.monitor \in DOMAIN statuses /\ i.started <= LastSecond,
         NEW since \in Nat
  PROVE  FiguresAgree(rows, incidents, statuses, since)
<1> DEFINE M == DOMAIN statuses
           O == OverviewStats(statuses, incidents, rows, since)
           open == {i \in incidents : i.status = "open"}
<1>1. FiguresAgree(rows, incidents, statuses, since) <=>
        /\ O.checks = Total(ChecksByMonitor(rows, incidents, M, since))
        /\ O.successful = Total(SuccessesByMonitor(rows, incidents, M, since))
        /\ O.up + O.down + O.degraded = O.total
        /\ (\A i \in open : i.started >= since) =>
             O.openIncidents <= Total(IncidentsByMonitor(rows, incidents, M, since))
        /\ \A m \in M : MonitorStats(rows, m).checks >= ReportOf(rows, incidents, m, since).summary.checks
  BY DEF FiguresAgree, ChecksByMonitor, SuccessesByMonitor, IncidentsByMonitor, ReportOf
<1>a. /\ O.checks = Cardinality(RowsOfAll(rows, M, since))
      /\ O.successful = Cardinality(Succeeded(RowsOfAll(rows, M, since)))
  BY OverviewCounts
<1>b. /\ Total(ChecksByMonitor(rows, incidents, M, since)) = Cardinality(RowsOfAll(rows, M, since))
      /\ Total(SuccessesByMonitor(rows, incidents, M, since)) = Cardinality(Succeeded(RowsOfAll(rows, M, since)))
      /\ Total(IncidentsByMonitor(rows, incidents, M, since)) = Cardinality(StartedSince(incidents, since))
  <2>1. IsFiniteSet(M) /\ \A i \in incidents : i.monitor \in M
    OBVIOUS
  <2> HIDE DEF M, O, open
  <2>2. CheckRows(rows) /\ Cardinality(rows) <= ReportLimit /\ IncidentRows(incidents) /\ since \in Nat
    OBVIOUS
  <2> QED BY ONLY <2>1, <2>2, ReportsTotal
<1>2. O.checks = Total(ChecksByMonitor(rows, incidents, M, since))
  BY <1>a, <1>b
<1>3. O.successful = Total(SuccessesByMonitor(rows, incidents, M, since))
  BY <1>a, <1>b
<1>4. O.up + O.down + O.degraded = O.total
  BY StatusesPartition DEF OverviewStats
<1>5. ASSUME \A i \in open : i.started >= since
      PROVE  O.openIncidents <= Total(IncidentsByMonitor(rows, incidents, M, since))
  <2> DEFINE in == StartedSince(incidents, since)
  <2>1. O.openIncidents = Cardinality(open)
    BY DEF OverviewStats
  <2>2. Total(IncidentsByMonitor(rows, incidents, M, since)) = Cardinality(in)
    BY <1>b
  <2>3. open \subseteq in /\ in \subseteq incidents /\ IsFiniteSet(incidents)
    BY <1>5 DEF IncidentRows, StartedSince
  <2> HIDE DEF in, open
  <2>4. IsFiniteSet(in)
    BY <2>3, Smaller
  <2>5. Cardinality(open) <= Cardinality(in)
    BY <2>3, <2>4, Smaller
  <2> QED BY <2>1, <2>2, <2>5
<1>6. \A m \in M : MonitorStats(rows, m).checks >= ReportOf(rows, incidents, m, since).summary.checks
  BY PageHasMore
<1> HIDE DEF O, open, M
<1> QED BY <1>1, <1>2, <1>3, <1>4, <1>5, <1>6

------------------------------------------------------------------------------
(* Sorted values. *)

\* The places of the values that are not greater, and of those that are smaller.
AtMost(values, v) == {i \in DOMAIN values : values[i] <= v}
Below(values, v) == {i \in DOMAIN values : values[i] < v}

\* v is the k-th of the values.
Ranked(values, k, v) ==
  /\ \E i \in DOMAIN values : v = values[i]
  /\ Cardinality(Below(values, v)) < k /\ Cardinality(AtMost(values, v)) >= k

\* Such places are finitely many.
LEMMA PlacesFinite ==
  ASSUME NEW n \in Nat, NEW values \in [1..n -> Nat], NEW v \in Int
  PROVE  /\ IsFiniteSet(1..n) /\ Cardinality(1..n) = n
         /\ AtMost(values, v) \subseteq 1..n /\ Below(values, v) \subseteq AtMost(values, v)
         /\ IsFiniteSet(AtMost(values, v)) /\ IsFiniteSet(Below(values, v))
         /\ Cardinality(AtMost(values, v)) \in Nat /\ Cardinality(Below(values, v)) \in Nat
<1>1. IsFiniteSet(1..n) /\ Cardinality(1..n) = n
  BY FS_Interval
<1>2. AtMost(values, v) \subseteq 1..n /\ Below(values, v) \subseteq AtMost(values, v)
  BY DEF AtMost, Below
<1>3. IsFiniteSet(AtMost(values, v)) /\ Cardinality(AtMost(values, v)) \in Nat
  BY <1>1, <1>2, Smaller
<1>4. IsFiniteSet(Below(values, v)) /\ Cardinality(Below(values, v)) \in Nat
  BY <1>2, <1>3, Smaller
<1> QED BY <1>1, <1>2, <1>3, <1>4

\* Finitely many values have a bound.
LEMMA BoundExists ==
  ASSUME NEW n \in Nat, NEW values \in [1..n -> Nat]
  PROVE  \E b \in Nat : \A i \in 1..n : values[i] <= b
<1> DEFINE Unbounded(k) == \A b \in Nat : \E i \in 1..k : ~(values[i] <= b)
           bad == {k \in 0..n : Unbounded(k)}
<1> SUFFICES ASSUME Unbounded(n) PROVE FALSE
  OBVIOUS
<1>1. bad \subseteq Nat /\ bad # {}
  <2>1. n \in 0..n
    OBVIOUS
  <2> HIDE DEF Unbounded
  <2> QED BY <2>1
<1>2. PICK k \in bad : \A j \in bad : k <= j
  <2> HIDE DEF bad
  <2> QED BY <1>1, LeastNumber
<1>3. k # 0
  <2> SUFFICES ASSUME k = 0 PROVE FALSE
    OBVIOUS
  <2>1. \E i \in 1..0 : ~(values[i] <= 0)
    BY <1>2
  <2> QED BY <2>1
<1>4. k \in 1..n /\ k - 1 \in 0..n
  BY <1>2, <1>3
<1>5. ~Unbounded(k - 1)
  <2> SUFFICES ASSUME Unbounded(k - 1) PROVE FALSE
    OBVIOUS
  <2>1. k - 1 \in bad
    BY <1>4
  <2> HIDE DEF bad, Unbounded
  <2> QED BY <1>2, <1>4, <2>1
<1>6. PICK b \in Nat : \A i \in 1..(k - 1) : values[i] <= b
  BY <1>5
<1>7. values[k] \in Nat
  BY <1>4
<1>8. PICK c \in Nat : c >= b /\ c >= values[k]
  <2> DEFINE w == values[k]
  <2>1. w \in Nat
    BY <1>7
  <2> HIDE DEF w, bad, Unbounded
  <2>2. \E c \in Nat : c >= b /\ c >= w
    <3>1. CASE b <= w
      BY <2>1, <3>1
    <3>2. CASE w <= b
      BY <2>1, <3>2
    <3> QED BY <2>1, <3>1, <3>2
  <2> QED BY <2>2 DEF w
<1>9. \A i \in 1..k : values[i] <= c
  <2> SUFFICES ASSUME NEW i \in 1..k PROVE values[i] <= c
    OBVIOUS
  <2>1. CASE i = k
    BY <1>8, <2>1
  <2>2. CASE i # k
    <3>1. i \in 1..(k - 1) /\ values[i] \in Nat
      <4>1. i \in Int /\ 1 <= i /\ i <= k /\ k \in Int /\ k <= n /\ i # k
        BY <1>4, <2>2
      <4>2. i \in 1..n
        BY ONLY n \in Nat, <4>1
      <4>3. i \in 1..(k - 1)
        BY ONLY <4>1
      <4> QED BY <4>2, <4>3
    <3> QED BY <1>6, <1>8, <3>1
  <2> QED BY <2>1, <2>2
<1>10. ~Unbounded(k)
  BY <1>9
<1> QED BY <1>2, <1>10

\* Every place has a value,
LEMMA RankedExists ==
  ASSUME NEW n \in Nat, NEW values \in [1..n -> Nat], NEW k \in 1..n
  PROVE  \E v : Ranked(values, k, v)
<1> DEFINE enough == {v \in Nat : Cardinality(AtMost(values, v)) >= k}
<1>1. enough \subseteq Nat /\ enough # {}
  <2>1. PICK b \in Nat : \A i \in 1..n : values[i] <= b
    BY BoundExists
  <2>2. AtMost(values, b) = 1..n
    BY <2>1 DEF AtMost
  <2>3. Cardinality(AtMost(values, b)) = n
    BY <2>2, PlacesFinite
  <2> QED BY <2>3
<1>2. PICK v \in enough : \A w \in enough : v <= w
  <2> HIDE DEF enough
  <2> QED BY <1>1, LeastNumber
<1>3. v \in Nat /\ Cardinality(AtMost(values, v)) >= k
  BY <1>2
<1>4. Cardinality(Below(values, v)) < k
  <2>1. CASE v = 0
    <3>1. Below(values, v) = {}
      BY <2>1 DEF Below
    <3> QED BY <3>1, FS_EmptySet
  <2>2. CASE v # 0
    <3>1. v - 1 \in Nat
      BY <1>3, <2>2
    <3>2. Below(values, v) = AtMost(values, v - 1)
      BY <1>3 DEF Below, AtMost
    <3>3. v - 1 \notin enough
      <4> HIDE DEF enough
      <4> QED BY <1>2, <1>3
    <3>4. Cardinality(AtMost(values, v - 1)) \in Nat
      <4> DEFINE u == v - 1
      <4>1. u \in Int
        BY <3>1
      <4> HIDE DEF u
      <4>2. Cardinality(AtMost(values, u)) \in Nat
        BY <4>1, PlacesFinite
      <4> QED BY <4>2 DEF u
    <3> QED BY <3>1, <3>2, <3>3, <3>4
  <2> QED BY <2>1, <2>2
<1>5. \E i \in DOMAIN values : v = values[i]
  <2> SUFFICES ASSUME \A i \in DOMAIN values : v # values[i] PROVE FALSE
    OBVIOUS
  <2>1. AtMost(values, v) = Below(values, v)
    BY <1>3 DEF AtMost, Below
  <2>2. Cardinality(Below(values, v)) \in Nat
    BY <1>3, PlacesFinite
  <2> QED BY <1>3, <1>4, <2>1, <2>2
<1> QED BY <1>3, <1>4, <1>5 DEF Ranked

\* which is the one Sorted has there.
LEMMA SortedRanks ==
  ASSUME NEW n \in Nat, NEW values \in [1..n -> Nat], NEW k \in 1..n
  PROVE  Ranked(values, k, Sorted(values)[k])
<1> DEFINE Good(v) == /\ Cardinality({i \in DOMAIN values : values[i] < v}) < k
                      /\ Cardinality({i \in DOMAIN values : values[i] <= v}) >= k
           S == {values[i] : i \in DOMAIN values}
<1>1. \A v : v \in S /\ Good(v) <=> Ranked(values, k, v)
  BY DEF Ranked, AtMost, Below
<1>2. \E v \in S : Good(v)
  BY <1>1, RankedExists
<1>3. Sorted(values)[k] = CHOOSE v \in S : Good(v)
  BY DEF Sorted
<1> HIDE DEF Good, S
<1> QED BY <1>1, <1>2, <1>3

\* A later place has no smaller value.
LEMMA RankedOrder ==
  ASSUME NEW n \in Nat, NEW values \in [1..n -> Nat], NEW j \in 1..n, NEW k \in 1..n, j <= k,
         NEW v \in Nat, Ranked(values, j, v), NEW w \in Nat, Ranked(values, k, w)
  PROVE  v <= w
<1> SUFFICES ASSUME w < v PROVE FALSE
  OBVIOUS
<1>1. AtMost(values, w) \subseteq Below(values, v)
  BY DEF AtMost, Below
<1>2. /\ IsFiniteSet(Below(values, v)) /\ Cardinality(AtMost(values, w)) \in Nat
      /\ Cardinality(Below(values, v)) \in Nat
  BY PlacesFinite
<1>3. Cardinality(AtMost(values, w)) <= Cardinality(Below(values, v))
  BY <1>1, <1>2, Smaller
<1> QED BY <1>2, <1>3 DEF Ranked

\* Sorted values are the values, in order, from the least to the greatest.
LEMMA SortedInOrder ==
  ASSUME NEW n \in Nat, NEW values \in [1..n -> Nat]
  PROVE  /\ Sorted(values) \in [1..n -> Nat]
         /\ \A k \in 1..n : \E i \in 1..n : Sorted(values)[k] = values[i]
         /\ \A j, k \in 1..n : j <= k => Sorted(values)[j] <= Sorted(values)[k]
         /\ n >= 1 => \A i \in 1..n : Sorted(values)[1] <= values[i] /\ values[i] <= Sorted(values)[n]
<1> DEFINE s == Sorted(values)
<1>0. DOMAIN s = 1..n
  BY DEF Sorted
<1>a. s = [k \in 1..n |-> s[k]]
  <2>1. DOMAIN values = 1..n
    OBVIOUS
  <2>2. s = [k \in DOMAIN values |-> s[k]]
    <3> DEFINE kth(k) == CHOOSE v \in {values[i] : i \in DOMAIN values} :
                           /\ Cardinality({i \in DOMAIN values : values[i] < v}) < k
                           /\ Cardinality({i \in DOMAIN values : values[i] <= v}) >= k
    <3>1. s = [k \in DOMAIN values |-> kth(k)]
      BY DEF Sorted
    <3> HIDE DEF kth, s
    <3> QED BY <3>1
  <2> QED BY <2>1, <2>2
<1>1. \A k \in 1..n : Ranked(values, k, s[k])
  BY SortedRanks
<1> HIDE DEF s
<1>2. \A k \in 1..n : \E i \in 1..n : s[k] = values[i]
  BY <1>1 DEF Ranked
<1>3. s \in [1..n -> Nat]
  BY <1>a, <1>2
<1>4. \A j, k \in 1..n : j <= k => s[j] <= s[k]
  <2> SUFFICES ASSUME NEW j \in 1..n, NEW k \in 1..n, j <= k PROVE s[j] <= s[k]
    OBVIOUS
  <2>1. s[j] \in Nat /\ s[k] \in Nat
    BY <1>3
  <2> QED BY <1>1, <2>1, RankedOrder
<1>5. ASSUME n >= 1, NEW i \in 1..n
      PROVE  s[1] <= values[i] /\ values[i] <= s[n]
  <2>1. 1 \in 1..n /\ n \in 1..n
    BY <1>5
  <2>2. s[1] \in Nat /\ s[n] \in Nat /\ values[i] \in Nat
    BY <1>3, <2>1
  <2>3. s[1] <= values[i]
    <3> SUFFICES ASSUME values[i] < s[1] PROVE FALSE
      BY <2>2
    <3>1. i \in Below(values, s[1])
      BY DEF Below
    <3>2. IsFiniteSet(Below(values, s[1])) /\ Cardinality(Below(values, s[1])) \in Nat
      <4>1. s[1] \in Int
        BY <2>2
      <4> DEFINE u == s[1]
      <4> HIDE DEF u
      <4>2. IsFiniteSet(Below(values, u)) /\ Cardinality(Below(values, u)) \in Nat
        BY <4>1, PlacesFinite DEF u
      <4> QED BY <4>2 DEF u
    <3>3. Cardinality(Below(values, s[1])) < 1
      BY <1>1, <2>1 DEF Ranked
    <3>4. Cardinality(Below(values, s[1])) = 0
      BY <3>2, <3>3
    <3> QED BY <3>1, <3>2, <3>4, FS_EmptySet
  <2>4. values[i] <= s[n]
    <3>1. /\ IsFiniteSet(1..n) /\ Cardinality(1..n) = n /\ AtMost(values, s[n]) \subseteq 1..n
          /\ Cardinality(AtMost(values, s[n])) \in Nat
      <4>1. s[n] \in Int
        BY <2>2
      <4> DEFINE u == s[n]
      <4> HIDE DEF u
      <4>2. /\ IsFiniteSet(1..n) /\ Cardinality(1..n) = n /\ AtMost(values, u) \subseteq 1..n
            /\ Cardinality(AtMost(values, u)) \in Nat
        BY <4>1, PlacesFinite DEF u
      <4> QED BY <4>2 DEF u
    <3>2. Cardinality(AtMost(values, s[n])) >= n
      BY <1>1, <2>1 DEF Ranked
    <3>3. Cardinality(AtMost(values, s[n])) <= n
      BY <3>1, Smaller
    <3>4. AtMost(values, s[n]) \in SUBSET (1..n) /\ Cardinality(1..n) = Cardinality(AtMost(values, s[n]))
      BY <3>1, <3>2, <3>3
    <3>5. AtMost(values, s[n]) = 1..n
      BY <3>1, <3>4, FS_Subset
    <3> QED BY <3>5 DEF AtMost
  <2> QED BY <2>3, <2>4
<1> QED BY <1>2, <1>3, <1>4, <1>5 DEF s

------------------------------------------------------------------------------
(* Percentiles, and the gaps between neighbours. *)

\* The gaps between neighbours add up to the distance of the first and the last.
LEMMA Telescopes ==
  ASSUME NEW n \in Nat, n >= 1, NEW t \in [1..n -> Nat], \A j, k \in 1..n : j <= k => t[j] <= t[k],
         NEW f, DOMAIN f = 2..n, \A i \in 2..n : f[i] = t[i] - t[i - 1]
  PROVE  Total(f) = t[n] - t[1]
<1> DEFINE h == [i \in 2..n |-> t[i - 1]..(t[i] - 1)]
           P == Pairs(h, 2..n)
           T == t[1]..(t[n] - 1)
           g == [p \in P |-> p[2]]
<1>1. \A i \in 2..n : i \in 1..n /\ i - 1 \in 1..n /\ t[i] \in Nat /\ t[i - 1] \in Nat /\ t[i - 1] <= t[i]
  <2> SUFFICES ASSUME NEW i \in 2..n
               PROVE  i \in 1..n /\ i - 1 \in 1..n /\ t[i] \in Nat /\ t[i - 1] \in Nat /\ t[i - 1] <= t[i]
    OBVIOUS
  <2>1. i \in 1..n /\ i - 1 \in 1..n /\ i - 1 <= i
    OBVIOUS
  <2> QED BY <2>1
<1>2. \A i \in 2..n : IsFiniteSet(h[i]) /\ f[i] = Cardinality(h[i])
  <2> SUFFICES ASSUME NEW i \in 2..n PROVE IsFiniteSet(h[i]) /\ f[i] = Cardinality(h[i])
    OBVIOUS
  <2>1. PICK a \in Nat, b \in Nat : a = t[i - 1] /\ b = t[i] /\ a <= b
    BY <1>1
  <2>2. IsFiniteSet(a..(b - 1)) /\ Cardinality(a..(b - 1)) = IF a > b - 1 THEN 0 ELSE (b - 1) - a + 1
    <3>1. a \in Int /\ b - 1 \in Int
      OBVIOUS
    <3> QED BY ONLY <3>1, FS_Interval
  <2>3. Cardinality(a..(b - 1)) = b - a
    BY <2>1, <2>2
  <2>4. h[i] = a..(b - 1) /\ f[i] = b - a
    BY <2>1
  <2> QED BY <2>2, <2>3, <2>4
<1>3. \A i, x : <<i, x>> \in P <=> i \in 2..n /\ x \in t[i - 1]..(t[i] - 1)
  <2> SUFFICES ASSUME NEW i, NEW x PROVE <<i, x>> \in P <=> i \in 2..n /\ x \in t[i - 1]..(t[i] - 1)
    OBVIOUS
  <2>1. <<i, x>> \in P <=> i \in 2..n /\ x \in h[i]
    <3> HIDE DEF h
    <3> QED BY PairIn
  <2>2. i \in 2..n => h[i] = t[i - 1]..(t[i] - 1)
    OBVIOUS
  <2> QED BY ONLY <2>1, <2>2
<1>4. \A p \in P : p = <<p[1], p[2]>>
  BY PairOf
<1>5. IsFiniteSet(2..n)
  BY FS_Interval
<1> HIDE DEF h
<1>6. Total(f) = Cardinality(P) /\ IsFiniteSet(P)
  BY <1>2, <1>5, TotalCounts
<1> HIDE DEF P
<1>7. 1 \in 1..n /\ n \in 1..n /\ t[1] \in Nat /\ t[n] \in Nat /\ t[1] <= t[n]
  OBVIOUS
<1>8. \A i \in 2..n : t[1] <= t[i - 1] /\ t[i] <= t[n]
  <2> SUFFICES ASSUME NEW i \in 2..n PROVE t[1] <= t[i - 1] /\ t[i] <= t[n]
    OBVIOUS
  <2>1. 1 <= i - 1 /\ i <= n
    OBVIOUS
  <2> QED BY <1>1, <1>7, <2>1
<1>9. g \in [P -> T]
  <2> SUFFICES ASSUME NEW p \in P PROVE p[2] \in T
    OBVIOUS
  <2>1. PICK i, x : p = <<i, x>>
    BY <1>4
  <2>2. i \in 2..n /\ x \in t[i - 1]..(t[i] - 1)
    BY <1>3, <2>1
  <2>3. x \in T
    BY <1>1, <1>7, <1>8, <2>2
  <2> QED BY <2>1, <2>3
<1>10. \A p, q \in P : g[p] = g[q] => p = q
  <2> SUFFICES ASSUME NEW p \in P, NEW q \in P, p[2] = q[2] PROVE p = q
    OBVIOUS
  <2> DEFINE i == p[1]
             j == q[1]
             x == p[2]
  <2>1. p = <<i, x>> /\ q = <<j, x>>
    BY <1>4
  <2> HIDE DEF i, j, x
  <2>2. i \in 2..n /\ x \in t[i - 1]..(t[i] - 1) /\ j \in 2..n /\ x \in t[j - 1]..(t[j] - 1)
    BY <1>3, <2>1
  <2>3. ~(i < j)
    <3> SUFFICES ASSUME i < j PROVE FALSE
      OBVIOUS
    <3>1. i <= j - 1 /\ i \in 1..n /\ j - 1 \in 1..n
      BY <1>1, <2>2
    <3>2. t[i] <= t[j - 1] /\ t[i] \in Nat /\ t[j - 1] \in Nat
      BY <3>1
    <3> QED BY <1>1, <2>2, <3>2
  <2>4. ~(j < i)
    <3> SUFFICES ASSUME j < i PROVE FALSE
      OBVIOUS
    <3>1. j <= i - 1 /\ j \in 1..n /\ i - 1 \in 1..n
      BY <1>1, <2>2
    <3>2. t[j] <= t[i - 1] /\ t[j] \in Nat /\ t[i - 1] \in Nat
      BY <3>1
    <3> QED BY <1>1, <2>2, <3>2
  <2>5. i = j
    BY <2>2, <2>3, <2>4
  <2> QED BY <2>1, <2>5
<1>11. \A x \in T : \E p \in P : g[p] = x
  <2> SUFFICES ASSUME NEW x \in T PROVE \E p \in P : g[p] = x
    OBVIOUS
  <2>1. x \in Nat /\ t[1] <= x /\ x < t[n]
    BY <1>7
  <2> DEFINE later == {i \in 1..n : x < t[i]}
  <2>2. later \subseteq Nat /\ later # {}
    <3>1. n \in later
      BY <1>7, <2>1
    <3> QED BY <3>1
  <2>3. PICK i \in later : \A j \in later : i <= j
    <3> HIDE DEF later
    <3> QED BY <2>2, LeastNumber
  <2>4. i \in 1..n /\ x < t[i] /\ i # 1
    BY <1>7, <2>1
  <2>5. i \in 2..n /\ i - 1 \in 1..n
    BY <2>4
  <2>6. i - 1 \notin later
    <3> HIDE DEF later
    <3> QED BY <2>3, <2>5
  <2>7. ~(x < t[i - 1])
    BY <2>5, <2>6
  <2>8. x \in t[i - 1]..(t[i] - 1)
    BY <1>1, <2>1, <2>4, <2>5, <2>7
  <2>9. <<i, x>> \in P
    BY <1>3, <2>5, <2>8
  <2>10. g[<<i, x>>] = x
    BY <2>9
  <2> QED BY <2>9, <2>10
<1> HIDE DEF g
<1>12. Cardinality(T) = Cardinality(P)
  <2> HIDE DEF T
  <2> QED BY <1>6, <1>9, <1>10, <1>11, Corresponding
<1>13. Cardinality(T) = t[n] - t[1]
  <2>1. PICK a \in Nat, b \in Nat : a = t[1] /\ b = t[n] /\ a <= b
    BY <1>7
  <2>2. Cardinality(a..(b - 1)) = IF a > b - 1 THEN 0 ELSE (b - 1) - a + 1
    BY FS_Interval
  <2> QED BY <2>1, <2>2
<1> QED BY <1>6, <1>12, <1>13

\* Products grow with their factors.
LEMMA Products ==
  ASSUME NEW a \in Nat, NEW b \in Nat, a <= b, NEW c \in Nat
  PROVE  a * c <= b * c /\ a * c \in Nat /\ b * c \in Nat
<1>1. (b - a) * c >= 0 /\ a * c \in Nat /\ b * c \in Nat
  OBVIOUS
<1>2. (b - a) * c = b * c - a * c
  OBVIOUS
<1> QED BY <1>1, <1>2

\* Between two values, in hundredths.
Between(a, b, w) == a * (100 - w) + (IF w = 0 THEN 0 ELSE b * w)

\* It lies between the two, and
LEMMA BetweenBounds ==
  ASSUME NEW a \in Nat, NEW b \in Nat, a <= b, NEW w \in 0..99
  PROVE  Between(a, b, w) \in Nat /\ 100 * a <= Between(a, b, w) /\ Between(a, b, w) <= 100 * b
<1>1. a * w <= b * w /\ a * w \in Nat /\ b * w \in Nat
  BY Products
<1>2. a * (100 - w) <= b * (100 - w) /\ a * (100 - w) \in Nat /\ b * (100 - w) \in Nat
  <2>1. 100 - w \in Nat
    OBVIOUS
  <2> QED BY <2>1, Products
<1>3. a * (100 - w) = 100 * a - a * w /\ b * (100 - w) = 100 * b - b * w
  OBVIOUS
<1>4. CASE w = 0
  BY <1>4 DEF Between
<1>5. CASE w # 0
  <2>1. Between(a, b, w) = a * (100 - w) + b * w
    BY <1>5 DEF Between
  <2> HIDE DEF Between
  <2> QED BY <1>1, <1>2, <1>3, <2>1
<1> QED BY <1>4, <1>5

\* is no smaller for more weight.
LEMMA BetweenOrder ==
  ASSUME NEW a \in Nat, NEW b \in Nat, a <= b, NEW v \in 0..99, NEW w \in 0..99, v <= w
  PROVE  Between(a, b, v) <= Between(a, b, w)
<1> DEFINE d == b - a
<1>1. d \in Nat
  OBVIOUS
<1>2. v * d <= w * d /\ v * d \in Nat /\ w * d \in Nat
  BY <1>1, Products
<1>3. \A u \in 0..99 : Between(a, b, u) = 100 * a + u * d
  <2> SUFFICES ASSUME NEW u \in 0..99 PROVE Between(a, b, u) = 100 * a + u * d
    OBVIOUS
  <2>1. CASE u = 0
    BY <2>1 DEF Between
  <2>2. CASE u # 0
    <3>1. Between(a, b, u) = a * (100 - u) + b * u
      BY <2>2 DEF Between
    <3>2. a * (100 - u) + b * u = 100 * a + u * (b - a)
      OBVIOUS
    <3> QED BY <3>1, <3>2
  <2> QED BY <2>1, <2>2
<1> HIDE DEF d
<1>4. Between(a, b, v) = 100 * a + v * d /\ Between(a, b, w) = 100 * a + w * d
  BY <1>3
<1> QED BY <1>2, <1>4

\* The place of a percentile among n values.
LEMMA Place ==
  ASSUME NEW n \in Nat, n >= 1, NEW x \in Nat, x <= 100 * (n - 1)
  PROVE  /\ x \div 100 \in 0..(n - 1) /\ (x % 100) \in 0..99
         /\ (x % 100) # 0 => x \div 100 < n - 1
OBVIOUS

\* Where the percentile of n sorted values lies.
Lower(n, p) == ((p * (n - 1)) \div 100) + 1
Weight(n, p) == (p * (n - 1)) % 100
Upper(n, p) == IF Weight(n, p) = 0 THEN Lower(n, p) ELSE Lower(n, p) + 1

\* A greater percentage lies no further down.
LEMMA PlaceOrder ==
  ASSUME NEW n \in Nat, n >= 1, NEW p \in 0..100, NEW q \in 0..100, p <= q
  PROVE  Lower(n, p) < Lower(n, q) \/ (Lower(n, p) = Lower(n, q) /\ Weight(n, p) <= Weight(n, q))
<1>1. PICK x \in Nat, y \in Nat : x = p * (n - 1) /\ y = q * (n - 1) /\ x <= y
  BY Products
<1> DEFINE a == x \div 100
           b == x % 100
           c == y \div 100
           d == y % 100
<1>2. x = 100 * a + b /\ a \in Int /\ b \in 0..99 /\ y = 100 * c + d /\ c \in Int /\ d \in 0..99
  OBVIOUS
<1>3. Lower(n, p) = a + 1 /\ Weight(n, p) = b /\ Lower(n, q) = c + 1 /\ Weight(n, q) = d
  BY <1>1 DEF Lower, Weight
<1> HIDE DEF a, b, c, d
<1>4. a < c \/ (a = c /\ b <= d)
  BY <1>1, <1>2
<1> QED BY <1>2, <1>3, <1>4

\* Both places are places of the list.
LEMMA Places ==
  ASSUME NEW n \in Nat, n >= 1, NEW p \in 0..100
  PROVE  Lower(n, p) \in 1..n /\ Upper(n, p) \in 1..n /\ Lower(n, p) <= Upper(n, p) /\ Weight(n, p) \in 0..99
<1> DEFINE x == p * (n - 1)
           l == x \div 100
           w == x % 100
<1>1. x \in Nat /\ x <= 100 * (n - 1)
  BY Products
<1> HIDE DEF x
<1>2. l \in 0..(n - 1) /\ w \in 0..99 /\ (w # 0 => l < n - 1)
  BY <1>1, Place
<1>3. Lower(n, p) = l + 1 /\ Weight(n, p) = w
  BY DEF Lower, Weight, x
<1> HIDE DEF l, w
<1> QED BY <1>2, <1>3 DEF Upper

\* A percentile of sorted values.
LEMMA PercentileBetween ==
  ASSUME NEW n \in Nat, n >= 1, NEW s \in [1..n -> Nat], \A j, k \in 1..n : j <= k => s[j] <= s[k],
         NEW p \in 0..100
  PROVE  /\ s[Lower(n, p)] \in Nat /\ s[Upper(n, p)] \in Nat /\ s[Lower(n, p)] <= s[Upper(n, p)]
         /\ Percentile(s, p) = Between(s[Lower(n, p)], s[Upper(n, p)], Weight(n, p))
<1> DEFINE lower == (p * (n - 1)) \div 100
           weight == (p * (n - 1)) % 100
<1>1. Len(s) = n /\ n # 0
  OBVIOUS
<1>2. Percentile(s, p) = s[lower + 1] * (100 - weight) + (IF weight = 0 THEN 0 ELSE s[lower + 2] * weight)
  BY <1>1 DEF Percentile
<1>3. lower + 1 = Lower(n, p) /\ weight = Weight(n, p) /\ lower \in Int
  BY DEF Lower, Weight
<1> HIDE DEF lower, weight
<1>4. weight # 0 => lower + 2 = Upper(n, p)
  BY <1>3 DEF Upper
<1>5. /\ Lower(n, p) \in 1..n /\ Upper(n, p) \in 1..n /\ Lower(n, p) <= Upper(n, p)
  BY Places
<1>6. Percentile(s, p) = Between(s[Lower(n, p)], s[Upper(n, p)], Weight(n, p))
  BY <1>2, <1>3, <1>4 DEF Between
<1> QED BY <1>5, <1>6

\* A percentile lies between the first and the last value.
LEMMA PercentileBounds ==
  ASSUME NEW n \in Nat, n >= 1, NEW s \in [1..n -> Nat], \A j, k \in 1..n : j <= k => s[j] <= s[k],
         NEW p \in 0..100
  PROVE  Percentile(s, p) \in Nat /\ 100 * s[1] <= Percentile(s, p) /\ Percentile(s, p) <= 100 * s[n]
<1> DEFINE i == Lower(n, p)
           upper == Upper(n, p)
           weight == Weight(n, p)
<1>1. /\ weight \in 0..99 /\ i \in 1..n /\ upper \in 1..n
      /\ s[i] \in Nat /\ s[upper] \in Nat /\ s[i] <= s[upper]
      /\ Percentile(s, p) = Between(s[i], s[upper], weight)
  BY PercentileBetween, Places
<1> HIDE DEF i, upper, weight
<1>2. PICK a \in Nat, b \in Nat : a = s[i] /\ b = s[upper] /\ a <= b /\ Percentile(s, p) = Between(a, b, weight)
  BY <1>1
<1>3. Between(a, b, weight) \in Nat /\ 100 * a <= Between(a, b, weight) /\ Between(a, b, weight) <= 100 * b
  BY <1>1, <1>2, BetweenBounds
<1>4. i \in 1..n /\ upper \in 1..n
  BY <1>1
<1>5. s[1] <= a /\ b <= s[n] /\ s[1] \in Nat /\ s[n] \in Nat
  <2>1. 1 \in 1..n /\ n \in 1..n /\ 1 <= i /\ upper <= n
    BY <1>4
  <2> QED BY <1>2, <1>4, <2>1
<1> QED BY <1>2, <1>3, <1>5

\* The percentile of a greater percentage is no smaller.
LEMMA PercentileOrder ==
  ASSUME NEW n \in Nat, n >= 1, NEW s \in [1..n -> Nat], \A j, k \in 1..n : j <= k => s[j] <= s[k],
         NEW p \in 0..100, NEW q \in 0..100, p <= q
  PROVE  Percentile(s, p) <= Percentile(s, q)
<1> DEFINE i == Lower(n, p)
           up == Upper(n, p)
           wp == Weight(n, p)
           j == Lower(n, q)
           uq == Upper(n, q)
           wq == Weight(n, q)
<1>1. /\ wp \in 0..99 /\ i \in 1..n /\ up \in 1..n
      /\ s[i] \in Nat /\ s[up] \in Nat /\ s[i] <= s[up]
      /\ Percentile(s, p) = Between(s[i], s[up], wp)
  BY PercentileBetween, Places
<1>2. /\ wq \in 0..99 /\ j \in 1..n /\ uq \in 1..n
      /\ s[j] \in Nat /\ s[uq] \in Nat /\ s[j] <= s[uq]
      /\ Percentile(s, q) = Between(s[j], s[uq], wq)
  BY PercentileBetween, Places
<1>3. i < j \/ (i = j /\ wp <= wq)
  BY PlaceOrder
<1>4. /\ wp = 0 => up = i
      /\ wp # 0 => up = i + 1
      /\ wq # 0 => uq = j + 1
  BY DEF Upper
<1> HIDE DEF i, up, wp, j, uq, wq
<1>w. wp \in Nat /\ wq \in Nat
  BY <1>1, <1>2
<1>6. PICK a \in Nat, b \in Nat : a = s[i] /\ b = s[up] /\ a <= b /\ Percentile(s, p) = Between(a, b, wp)
  BY <1>1
<1>7. PICK c \in Nat, d \in Nat : c = s[j] /\ d = s[uq] /\ c <= d /\ Percentile(s, q) = Between(c, d, wq)
  BY <1>2
<1>8. /\ Between(a, b, wp) \in Nat /\ Between(a, b, wp) <= 100 * b
      /\ Between(c, d, wq) \in Nat /\ 100 * c <= Between(c, d, wq)
  BY <1>1, <1>2, <1>6, <1>7, BetweenBounds
<1>9. CASE i < j
  <2>1. up <= j /\ up \in 1..n /\ j \in 1..n
    BY <1>1, <1>2, <1>4, <1>9
  <2>2. b <= c
    BY <1>6, <1>7, <2>1
  <2> QED BY <1>6, <1>7, <1>8, <2>2
<1>10. CASE i = j /\ wp <= wq
  <2>1. c = a
    BY <1>6, <1>7, <1>10
  <2>2. CASE wq = 0
    <3>1. wp = 0
      BY ONLY <1>w, <1>10, <2>2
    <3>2. Between(a, b, 0) = Between(c, d, 0)
      BY <1>6, <1>7, <2>1 DEF Between
    <3>3. Between(a, b, 0) \in Nat
      BY <1>8, <3>1
    <3> QED BY <1>6, <1>7, <2>2, <3>1, <3>2, <3>3
  <2>3. CASE wq # 0
    <3>1. uq = j + 1 /\ up <= uq
      BY <1>1, <1>4, <1>10, <2>3
    <3>2. b <= d
      <4> QED BY <1>1, <1>2, <1>6, <1>7, <3>1
    <3>3. CASE wp = 0
      <4>1. up = i
        BY <1>4, <3>3
      <4>2. b = a
        BY <1>6, <4>1
      <4> QED BY <1>6, <1>7, <1>8, <2>1, <4>2
    <3>4. CASE wp # 0
      <4>1. up = uq
        BY <1>1, <1>4, <1>10, <3>1, <3>4
      <4>2. b = d
        BY <1>6, <1>7, <4>1
      <4>3. Between(a, b, wp) <= Between(a, b, wq)
        BY <1>1, <1>2, <1>6, <1>10, BetweenOrder
      <4> QED BY <1>6, <1>7, <2>1, <4>2, <4>3
    <3> QED BY <3>3, <3>4
  <2> QED BY <2>2, <2>3
<1> QED BY <1>3, <1>9, <1>10

------------------------------------------------------------------------------
(* The figures of an uptime report. *)

\* The results a report reads: some rows, in some order.
TimesOf(results) == [i \in DOMAIN results |-> results[i].at]
DurationsOf(results) == [i \in DOMAIN results |-> results[i].ms]

\* The greatest of a set, and the least.
LEMMA MaxIs ==
  ASSUME NEW S, S \subseteq Int, NEW v \in S, \A x \in S : x <= v
  PROVE  Max(S) = v
<1> DEFINE Most(x) == \A y \in S : x >= y
<1>1. Max(S) = CHOOSE x \in S : Most(x)
  BY DEF Max
<1>2. Most(v)
  OBVIOUS
<1>3. \A x \in S : Most(x) => x = v
  OBVIOUS
<1> HIDE DEF Most
<1> QED BY <1>1, <1>2, <1>3

\* The least of a set.
LEMMA MinIs ==
  ASSUME NEW S, S \subseteq Int, NEW v \in S, \A x \in S : v <= x
  PROVE  Min(S) = v
<1> DEFINE Least(x) == \A y \in S : x <= y
<1>1. Min(S) = CHOOSE x \in S : Least(x)
  BY DEF Min
<1>2. Least(v)
  OBVIOUS
<1>3. \A x \in S : Least(x) => x = v
  OBVIOUS
<1> HIDE DEF Least
<1> QED BY <1>1, <1>2, <1>3

\* Values in hundredths, and the places of those that are not slower than a percentile.
Hundredths(values) == {100 * values[i] : i \in DOMAIN values}
NotSlower(values, p) == {i \in DOMAIN values : 100 * values[i] <= p}

\* The percentiles lie between the fastest and the slowest, in order, and half of the
\* results are not slower than the median.
LEMMA PercentilesOf ==
  ASSUME NEW n \in Nat, n >= 1, NEW values \in [1..n -> Nat],
         NEW p, p = Percentile(Sorted(values), 50), NEW q, q = Percentile(Sorted(values), 95),
         NEW r, r = Percentile(Sorted(values), 99)
  PROVE  /\ Min(Hundredths(values)) <= p /\ p <= q /\ q <= r /\ r <= Max(Hundredths(values))
         /\ 2 * Cardinality(NotSlower(values, p)) >= n
<1> DEFINE s == Sorted(values)
           ms == {100 * values[i] : i \in 1..n}
           fast == {i \in 1..n : 100 * values[i] <= p}
<1>1. /\ s \in [1..n -> Nat]
      /\ \A k \in 1..n : \E i \in 1..n : s[k] = values[i]
      /\ \A j, k \in 1..n : j <= k => s[j] <= s[k]
      /\ \A i \in 1..n : s[1] <= values[i] /\ values[i] <= s[n]
  BY SortedInOrder
<1>2. \A k \in 1..n : Ranked(values, k, s[k])
  BY SortedRanks
<1> HIDE DEF s
<1>3. 50 \in 0..100 /\ 95 \in 0..100 /\ 99 \in 0..100 /\ 50 <= 95 /\ 95 <= 99
  OBVIOUS
<1>4. p \in Nat /\ 100 * s[1] <= p
  BY <1>1, <1>3, PercentileBounds DEF s
<1>5. r \in Nat /\ r <= 100 * s[n]
  BY <1>1, <1>3, PercentileBounds DEF s
<1>6. q \in Nat /\ p <= q
  BY <1>1, <1>3, PercentileBounds, PercentileOrder DEF s
<1>7. q <= r
  BY <1>1, <1>3, PercentileOrder DEF s
<1>8. 1 \in 1..n /\ n \in 1..n /\ s[1] \in Nat /\ s[n] \in Nat
  BY <1>1
<1>9. Min(ms) = 100 * s[1]
  <2>1. ms \subseteq Int /\ 100 * s[1] \in ms /\ \A x \in ms : 100 * s[1] <= x
    <3>1. ms \subseteq Int
      OBVIOUS
    <3>2. PICK i \in 1..n : s[1] = values[i]
      BY <1>1, <1>8
    <3>3. 100 * s[1] \in ms
      BY <3>2
    <3>4. ASSUME NEW k \in 1..n PROVE 100 * s[1] <= 100 * values[k]
      <4>1. values[k] \in Nat /\ s[1] <= values[k]
        BY <1>1
      <4> QED BY <1>8, <4>1
    <3> QED BY <3>1, <3>3, <3>4
  <2> HIDE DEF ms
  <2> QED BY <2>1, MinIs
<1>10. Max(ms) = 100 * s[n]
  <2>1. ms \subseteq Int /\ 100 * s[n] \in ms /\ \A x \in ms : x <= 100 * s[n]
    <3>1. ms \subseteq Int
      OBVIOUS
    <3>2. PICK i \in 1..n : s[n] = values[i]
      BY <1>1, <1>8
    <3>3. 100 * s[n] \in ms
      BY <3>2
    <3>4. ASSUME NEW k \in 1..n PROVE 100 * values[k] <= 100 * s[n]
      <4>1. values[k] \in Nat /\ values[k] <= s[n]
        BY <1>1
      <4> QED BY <1>8, <4>1
    <3> QED BY <3>1, <3>3, <3>4
  <2> HIDE DEF ms
  <2> QED BY <2>1, MaxIs
<1>11. 2 * Cardinality(fast) >= n
  <2> DEFINE l == Lower(n, 50)
             a == s[l]
  <2>1. /\ l \in 1..n /\ Upper(n, 50) \in 1..n /\ Weight(n, 50) \in 0..99
        /\ a \in Nat /\ s[Upper(n, 50)] \in Nat /\ a <= s[Upper(n, 50)]
        /\ p = Between(a, s[Upper(n, 50)], Weight(n, 50))
    BY <1>1, <1>3, Places, PercentileBetween DEF s
  <2>2. 2 * l >= n
    BY DEF Lower
  <2> HIDE DEF l
  <2>3. 100 * a <= p
    BY <2>1, BetweenBounds
  <2>4. Cardinality(AtMost(values, a)) >= l
    BY <1>2, <2>1 DEF Ranked
  <2>5. AtMost(values, a) \subseteq fast /\ fast \subseteq 1..n
    <3>1. a \in Nat
      BY <2>1
    <3> HIDE DEF a
    <3>2. ASSUME NEW i \in AtMost(values, a) PROVE i \in fast
      <4>1. i \in 1..n /\ values[i] \in Nat /\ values[i] <= a
        BY DEF AtMost
      <4>2. 100 * values[i] <= p
        BY <1>4, <2>3, <3>1, <4>1
      <4> QED BY <4>1, <4>2
    <3> QED BY <3>2
  <2>6. IsFiniteSet(fast) /\ Cardinality(fast) \in Nat
    <3>1. IsFiniteSet(1..n)
      BY FS_Interval
    <3> HIDE DEF fast
    <3> QED BY <2>5, <3>1, Smaller
  <2>7. Cardinality(AtMost(values, a)) <= Cardinality(fast) /\ Cardinality(AtMost(values, a)) \in Nat
    <3> HIDE DEF fast, a
    <3> QED BY <2>5, <2>6, Smaller
  <2> HIDE DEF fast, a
  <2> QED BY <2>1, <2>2, <2>4, <2>6, <2>7
<1> HIDE DEF ms, fast
<1>12. Min(ms) <= p /\ p <= q /\ q <= r /\ r <= Max(ms)
  BY <1>4, <1>5, <1>6, <1>7, <1>9, <1>10
<1>13. DOMAIN values = 1..n
  OBVIOUS
<1>14. Hundredths(values) = ms /\ NotSlower(values, p) = fast
  BY <1>13 DEF Hundredths, NotSlower, ms, fast
<1> QED BY <1>11, <1>12, <1>14

\* The time between the first and the last result.
Span(results, n) == Max({results[i].at : i \in 1..n}) - Min({results[i].at : i \in 1..n})

\* The gaps between the times of results add up to their span.
LEMMA GapsSpan ==
  ASSUME NEW n \in Nat, n >= 1, NEW results, DOMAIN results = 1..n, \A i \in 1..n : results[i].at \in Nat
  PROVE  GapSum(results) = Span(results, n) /\ GapSum(results) \in Int
<1> DEFINE values == TimesOf(results)
           t == Sorted(values)
           S == {results[i].at : i \in 1..n}
           f == [i \in 2..n |-> t[i] - t[i - 1]]
<1>1. values \in [1..n -> Nat] /\ \A i \in 1..n : values[i] = results[i].at
  BY DEF TimesOf
<1> HIDE DEF values
<1>2. /\ t \in [1..n -> Nat]
      /\ \A k \in 1..n : \E i \in 1..n : t[k] = values[i]
      /\ \A j, k \in 1..n : j <= k => t[j] <= t[k]
      /\ \A i \in 1..n : t[1] <= values[i] /\ values[i] <= t[n]
  BY <1>1, SortedInOrder
<1>3. GapSum(results) = Total(f)
  <2>1. GapSum(results) = Total([i \in 2..Len(t) |-> t[i] - t[i - 1]])
    BY DEF GapSum, values, TimesOf
  <2>2. Len(t) = n
    <3> HIDE DEF t
    <3> QED BY <1>2
  <2> QED BY <2>1, <2>2
<1> HIDE DEF t
<1>4. DOMAIN f = 2..n /\ \A i \in 2..n : f[i] = t[i] - t[i - 1]
  OBVIOUS
<1> HIDE DEF f
<1>5. Total(f) = t[n] - t[1]
  BY <1>2, <1>4, Telescopes
<1>6. 1 \in 1..n /\ n \in 1..n /\ t[1] \in Nat /\ t[n] \in Nat
  BY <1>2
<1>7. Max(S) = t[n]
  <2>1. S \subseteq Int /\ t[n] \in S /\ \A x \in S : x <= t[n]
    <3>1. S \subseteq Int
      OBVIOUS
    <3>2. PICK i \in 1..n : t[n] = values[i]
      BY <1>2, <1>6
    <3>3. t[n] \in S
      BY <1>1, <3>2
    <3>4. ASSUME NEW k \in 1..n PROVE results[k].at <= t[n]
      BY <1>1, <1>2
    <3> QED BY <3>1, <3>3, <3>4
  <2> HIDE DEF S
  <2> QED BY <2>1, MaxIs
<1>8. Min(S) = t[1]
  <2>1. S \subseteq Int /\ t[1] \in S /\ \A x \in S : t[1] <= x
    <3>1. S \subseteq Int
      OBVIOUS
    <3>2. PICK i \in 1..n : t[1] = values[i]
      BY <1>2, <1>6
    <3>3. t[1] \in S
      BY <1>1, <3>2
    <3>4. ASSUME NEW k \in 1..n PROVE t[1] <= results[k].at
      BY <1>1, <1>2
    <3> QED BY <3>1, <3>3, <3>4
  <2> HIDE DEF S
  <2> QED BY <2>1, MinIs
<1> QED BY <1>3, <1>5, <1>6, <1>7, <1>8 DEF Span

\* The downtime of a report is the failed share of its checks times their span.
LEMMA DowntimeOf ==
  ASSUME NEW n \in Nat, n >= 2, NEW results, DOMAIN results = 1..n, Len(results) = n, Successes(results) \in Nat,
         \A i \in 1..n : results[i].at \in Nat, NEW s, s = SummarizeResults(results)
  PROVE  s.downtime.num * (n - 1) = s.downtime.den * (s.checks - s.successful) * Span(results, n)
<1> DEFINE G == GapSum(results)
           F == n - Successes(results)
<1>1. /\ s.checks = n /\ s.successful = Successes(results)
      /\ s.downtime = [num |-> F * G, den |-> n - 1]
  BY DEF SummarizeResults
<1>2. G = Span(results, n) /\ G \in Int
  BY GapsSpan
<1>3. F \in Int
  OBVIOUS
<1> HIDE DEF G, F
<1>4. s.downtime.num = F * G /\ s.downtime.den = n - 1 /\ s.checks - s.successful = F
  BY <1>1 DEF F
<1>5. (F * G) * (n - 1) = (n - 1) * F * G
  BY ONLY <1>2, <1>3, n \in Nat
<1> QED BY <1>2, <1>4, <1>5

------------------------------------------------------------------------------
(* Pages over the API, and the uptime report. *)

\* A page is a list of rows.
LEMMA PageOfRows ==
  ASSUME NEW rows, NEW s \in Seq(rows), NEW limit \in Nat, NEW offset \in Nat
  PROVE  Page(s, limit, offset) \in Seq(rows)
<1> DEFINE m == Min({offset + limit, Len(s)})
<1>1. Len(s) \in Nat /\ offset + limit \in Int
  OBVIOUS
<1>2. m = IF offset + limit <= Len(s) THEN offset + limit ELSE Len(s)
  BY <1>1, LeastOfTwo
<1>3. m \in Int /\ m <= Len(s)
  BY <1>1, <1>2
<1>4. Page(s, limit, offset) = SubSeq(s, offset + 1, m)
  BY DEF Page
<1> HIDE DEF m
<1>5. \A i \in (offset + 1)..m : s[i] \in rows
  BY <1>1, <1>3
<1>6. offset + 1 \in Int
  OBVIOUS
<1>7. SubSeq(s, offset + 1, m) \in Seq(rows)
  BY ONLY <1>3, <1>5, <1>6, SubSeqProperties
<1> QED BY <1>4, <1>7

\* The report's query and the page of one row over the API, for a request.
WholeRequest(filter) == [filter EXCEPT !.limit = ReportLimit]
RowRequest(filter, k) == [filter EXCEPT !.limit = 1, !.offset = k]
OneRow(r) == <<r>>

\* Neither query selects other rows than the request.
LEMMA SelectedAlike ==
  ASSUME NEW rows, NEW all, NEW statuses, NEW filter \in FiltersOf(all, statuses), NEW k,
         NEW q, q = WholeRequest(filter) \/ q = [RowRequest(filter, k) EXCEPT !.limit = RequestLimit(@)]
  PROVE  Selected(rows, q) = Selected(rows, filter)
<1>1. /\ q.monitors = filter.monitors /\ q.status = filter.status /\ q.after = filter.after
      /\ q.before = filter.before /\ q.excludeMaintenance = filter.excludeMaintenance
  BY DEF WholeRequest, RowRequest, FiltersOf
<1> QED BY <1>1 DEF Selected

\* What the report reads,
LEMMA WholeReads ==
  ASSUME NEW rows, NEW all, NEW statuses, NEW filter \in FiltersOf(all, statuses)
  PROVE  ListCheckResults(rows, WholeRequest(filter))
           = Page(NewestFirst(Selected(rows, filter)), ReportLimit, filter.offset)
<1> DEFINE q == WholeRequest(filter)
<1>1. q.limit = ReportLimit /\ q.offset = filter.offset
  BY DEF WholeRequest, FiltersOf
<1>2. Selected(rows, q) = Selected(rows, filter)
  BY SelectedAlike
<1> HIDE DEF q
<1>3. BoundedLimit(q.limit, 100, ReportLimit) = ReportLimit
  BY <1>1, ReportsAssumption DEF BoundedLimit
<1>4. ListCheckResults(rows, q) = Page(NewestFirst(Selected(rows, filter)), ReportLimit, filter.offset)
  BY <1>1, <1>2, <1>3 DEF ListCheckResults
<1> QED BY <1>4 DEF q

\* and what a page of one row shows.
LEMMA RowReads ==
  ASSUME NEW rows, NEW all, NEW statuses, NEW filter \in FiltersOf(all, statuses), NEW k
  PROVE  ListOverAPI(rows, RowRequest(filter, k)) = Page(NewestFirst(Selected(rows, filter)), 1, k)
<1> DEFINE q == [RowRequest(filter, k) EXCEPT !.limit = RequestLimit(@)]
<1>1. q.limit = 1 /\ q.offset = k
  BY DEF RowRequest, FiltersOf, RequestLimit
<1>2. Selected(rows, q) = Selected(rows, filter)
  BY SelectedAlike
<1>3. ListOverAPI(rows, RowRequest(filter, k)) = ListCheckResults(rows, q)
  BY DEF ListOverAPI
<1> HIDE DEF q
<1>4. BoundedLimit(q.limit, 100, ReportLimit) = 1
  BY <1>1, ReportsAssumption DEF BoundedLimit
<1>5. ListCheckResults(rows, q) = Page(NewestFirst(Selected(rows, filter)), 1, k)
  BY <1>1, <1>2, <1>4 DEF ListCheckResults
<1> QED BY <1>3, <1>5

\* Pages of one row show every row.
LEMMA PagesShowAll ==
  ASSUME NEW rows, CheckRows(rows), NEW all, NEW statuses, NEW filter \in FiltersOf(all, statuses)
  PROVE  {ListOverAPI(rows, RowRequest(filter, k)) : k \in 0..(Cardinality(Selected(rows, filter)) - 1)}
           = {<<r>> : r \in Selected(rows, filter)}
<1> DEFINE sel == Selected(rows, filter)
           n == Cardinality(sel)
           s == NewestFirst(sel)
           PageAt(k) == ListOverAPI(rows, RowRequest(filter, k))
<1>1. IsFiniteSet(sel) /\ \A r \in sel : r.at \in Nat
  BY FS_Subset, ReportsAssumption DEF Selected, CheckRows
<1> HIDE DEF sel
<1>2. Listing(sel, s)
  BY <1>1, NewestLists
<1> HIDE DEF s
<1>3. s \in Seq(sel) /\ Len(s) = n /\ n \in Nat
  BY <1>1, <1>2, ListingLength
<1>4. \A k \in 0..(n - 1) : PageAt(k) = OneRow(s[k + 1]) /\ s[k + 1] \in sel
  <2> SUFFICES ASSUME NEW k \in 0..(n - 1) PROVE PageAt(k) = OneRow(s[k + 1]) /\ s[k + 1] \in sel
    OBVIOUS
  <2>1. k \in 0..(Len(s) - 1)
    BY <1>3
  <2>2. PageAt(k) = Page(s, 1, k)
    BY RowReads DEF s, sel
  <2>3. Page(s, 1, k) = <<s[k + 1]>>
    BY <1>3, <2>1, OnePage
  <2>4. s[k + 1] \in sel
    BY <1>3
  <2> HIDE DEF PageAt
  <2> QED BY <2>2, <2>3, <2>4 DEF OneRow
<1>5. \A r \in sel : \E k \in 0..(n - 1) : s[k + 1] = r
  <2> SUFFICES ASSUME NEW r \in sel PROVE \E k \in 0..(n - 1) : s[k + 1] = r
    OBVIOUS
  <2>1. PICK i \in 1..n : s[i] = r
    BY <1>1, <1>2, ListingOnto
  <2>2. i - 1 \in 0..(n - 1) /\ (i - 1) + 1 = i
    BY <1>3
  <2> QED BY <2>1, <2>2
<1> HIDE DEF PageAt, n
<1>6. {PageAt(k) : k \in 0..(n - 1)} = {OneRow(r) : r \in sel}
  BY <1>4, <1>5
<1> QED BY <1>6 DEF PageAt, OneRow, n, sel

\* The figures of an uptime report agree with the results it reads, and paging shows
\* every result once.  The rows come at different times: of rows of one second the
\* database may give another order for each page (summarizeResults, ListCheckResults).
THEOREM UptimeAlways ==
  ASSUME NEW rows, CheckRows(rows), \A r \in rows : r.ms \in Nat,
         NEW all, NEW statuses, NEW filter \in FiltersOf(all, statuses),
         \A a, b \in Selected(rows, filter) : a.at = b.at => a = b
  PROVE  UptimeAgrees(rows, filter)
<1> DEFINE sel == Selected(rows, filter)
           results == ListCheckResults(rows, WholeRequest(filter))
           n == Len(results)
           s == SummarizeResults(results)
           pages == {ListOverAPI(rows, RowRequest(filter, k)) : k \in 0..(Cardinality(sel) - 1)}
           Clause1 == results # <<>> =>
             LET ms == {100 * results[i].ms : i \in DOMAIN results}
             IN  /\ Min(ms) <= s.p50 /\ s.p50 <= s.p95 /\ s.p95 <= s.p99 /\ s.p99 <= Max(ms)
                 /\ 2 * Cardinality({i \in DOMAIN results : 100 * results[i].ms <= s.p50}) >= n
           Clause2 == n >= 2 =>
             s.downtime.num * (n - 1)
               = s.downtime.den * (s.checks - s.successful)
                   * (Max({results[i].at : i \in DOMAIN results}) - Min({results[i].at : i \in DOMAIN results}))
<1>1. UptimeAgrees(rows, filter) <=> Clause1 /\ Clause2 /\ pages = {<<r>> : r \in sel}
  BY DEF UptimeAgrees, WholeRequest, RowRequest
<1>2. IsFiniteSet(sel) /\ \A r \in sel : r.at \in Nat /\ r.ms \in Nat
  BY FS_Subset, ReportsAssumption DEF Selected, CheckRows
<1>3. results \in Seq(sel)
  <2>1. NewestFirst(sel) \in Seq(sel)
    <3> HIDE DEF sel
    <3> QED BY <1>2, NewestLists, ListingLength
  <2>2. ReportLimit \in Nat /\ filter.offset \in Nat
    BY ReportsAssumption DEF FiltersOf
  <2>3. results = Page(NewestFirst(sel), ReportLimit, filter.offset)
    BY WholeReads
  <2> HIDE DEF results, sel
  <2> QED BY <2>1, <2>2, <2>3, PageOfRows
<1> HIDE DEF results, sel
<1>4. n \in Nat /\ DOMAIN results = 1..n /\ \A i \in 1..n : results[i] \in sel
  BY <1>3
<1>5. \A i \in 1..n : results[i].at \in Nat /\ results[i].ms \in Nat
  BY <1>2, <1>4
<1>6. Clause1
  <2> SUFFICES ASSUME results # <<>> PROVE Clause1
    OBVIOUS
  <2>1. n >= 1
    BY <1>3
  <2> DEFINE values == DurationsOf(results)
  <2>2. values \in [1..n -> Nat] /\ \A i \in 1..n : values[i] = results[i].ms
    BY <1>4, <1>5 DEF DurationsOf
  <2>3. /\ s.p50 = Percentile(Sorted(values), 50) /\ s.p95 = Percentile(Sorted(values), 95)
        /\ s.p99 = Percentile(Sorted(values), 99)
    BY DEF SummarizeResults, DurationsOf
  <2> HIDE DEF values, n, s
  <2> DEFINE p == s.p50
             q == s.p95
             r == s.p99
  <2>4. /\ Min(Hundredths(values)) <= p /\ p <= q /\ q <= r /\ r <= Max(Hundredths(values))
        /\ 2 * Cardinality(NotSlower(values, p)) >= n
    BY <1>4, <2>1, <2>2, <2>3, PercentilesOf
  <2>5. DOMAIN values = 1..n
    BY <2>2
  <2>6. Hundredths(values) = {100 * results[i].ms : i \in DOMAIN results}
    BY <1>4, <2>2, <2>5 DEF Hundredths
  <2>7. NotSlower(values, p) = {i \in DOMAIN results : 100 * results[i].ms <= s.p50}
    BY <1>4, <2>2, <2>5 DEF NotSlower
  <2> QED BY <2>4, <2>6, <2>7 DEF n
<1>7. Clause2
  <2> SUFFICES ASSUME n >= 2
               PROVE  s.downtime.num * (n - 1)
                        = s.downtime.den * (s.checks - s.successful)
                            * (Max({results[i].at : i \in DOMAIN results}) - Min({results[i].at : i \in DOMAIN results}))
    OBVIOUS
  <2>1. Successes(results) \in Nat
    <3>1. IsFiniteSet(1..n)
      BY <1>4, FS_Interval
    <3>2. {i \in DOMAIN results : results[i].success} \subseteq 1..n
      BY <1>4
    <3> DEFINE at == {i \in DOMAIN results : results[i].success}
    <3> HIDE DEF at, n
    <3>3. Cardinality(at) \in Nat
      BY <3>1, <3>2, Smaller DEF at
    <3> QED BY <3>3 DEF Successes, at
  <2> HIDE DEF s, n
  <2> QED BY <1>4, <1>5, <2>1, DowntimeOf DEF s, n, Span
<1>8. pages = {<<r>> : r \in sel}
  BY PagesShowAll DEF sel
<1> HIDE DEF Clause1, Clause2, pages
<1> QED BY <1>1, <1>6, <1>7, <1>8
==============================================================================
