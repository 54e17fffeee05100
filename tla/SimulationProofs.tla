---------------------------- MODULE SimulationProofs ----------------------------
(***************************************************************************)
(* Proofs about the simulator, for every network and all parameters, and   *)
(* whatever is typed into the stacks:                                      *)
(*   - the event list and the tables of routes are what they should be, and*)
(*     the type invariant holds until an assertion of the program fails;   *)
(*   - a link with messages to send always has its timeout scheduled, and  *)
(*     its statistics are exact;                                           *)
(*   - the timers of the sender are scheduled as its variables say, and no *)
(*     packet times out unnoticed;                                         *)
(*   - the assertions of the statistics hold, for suitable parameters;     *)
(*   - Dijkstra's algorithm finds shortest paths, and a stack that forwards*)
(*     a packet has routes for the costs the links have by then.           *)
(* The last part says where packets can be (Carried), and what each handler*)
(* does to them (Moves): what DeliveryProofs is built on.                  *)
(***************************************************************************)
EXTENDS Simulation, FiniteSetTheorems, WellFoundedInduction, SequenceTheorems, TLAPS

-------------------------------------------------------------------------------
(* Numbers and finite sets *)

\* Every set of naturals that is not empty has a smallest element.
LEMMA Smallest ==
    ASSUME NEW S, S \subseteq Nat, S # {} PROVE \E m \in S : \A n \in S : m =< n
<1> DEFINE Less == OpToRel(<, Nat)
<1>1. IsWellFoundedOn(Less, Nat)
  BY NatLessThanWellFounded
<1>2. \A x, y \in Nat : <<x, y>> \in Less <=> x < y
  BY DEF OpToRel
<1> HIDE DEF Less
<1>3. PICK m \in S : \A y \in S : ~ (<<y, m>> \in Less)
  BY <1>1, WFMin
<1>4. ASSUME NEW n \in S PROVE m =< n
  <2>1. m \in Nat /\ n \in Nat
    OBVIOUS
  <2>2. ~ (n < m)
    BY <1>2, <1>3, <2>1
  <2> QED  BY <2>1, <2>2
<1> QED  BY <1>4

\* How many elements a set has after one was added or taken out.
LEMMA Counting ==
    /\ IsFiniteSet({}) /\ Cardinality({}) = 0
    /\ \A S, x : IsFiniteSet(S) =>
          /\ Cardinality(S) \in Nat
          /\ IsFiniteSet(S \cup {x}) /\ IsFiniteSet(S \ {x})
          /\ x \notin S => Cardinality(S \cup {x}) = Cardinality(S) + 1
          /\ x \in S => Cardinality(S \ {x}) = Cardinality(S) - 1
<1>1. IsFiniteSet({}) /\ Cardinality({}) = 0
  BY FS_EmptySet
<1>2. ASSUME NEW S, NEW x, IsFiniteSet(S)
      PROVE  /\ Cardinality(S) \in Nat
             /\ IsFiniteSet(S \cup {x}) /\ IsFiniteSet(S \ {x})
             /\ x \notin S => Cardinality(S \cup {x}) = Cardinality(S) + 1
             /\ x \in S => Cardinality(S \ {x}) = Cardinality(S) - 1
  BY <1>2, FS_CardinalityType, FS_AddElement, FS_RemoveElement
<1> QED  BY <1>1, <1>2

----------------------------------------------------------------------------
(***************************************************************************)
(* The event list.  Sorted: no event is after one that follows it.         *)
(***************************************************************************)
Sorted(s) == \A i, j \in DOMAIN s : i < j => NotAfter(s[i], s[j])

\* A list of events, as the kernel keeps it.
IsList(s) ==
    /\ s \in Seq(ToSet(s))
    /\ \A e \in ToSet(s) : e.time \in Int /\ e.prio \in Int
    /\ Sorted(s)

Together(s) ==
    \A i, j \in DOMAIN s : s[i].time = s[j].time /\ s[i].prio = s[j].prio

\* At most one event is for "to".
Once(s, to) == \A i, j \in DOMAIN s : s[i].to = to /\ s[j].to = to => i = j

LEMMA IndexInSet ==
    ASSUME NEW s, NEW i \in DOMAIN s PROVE s[i] \in ToSet(s)
BY DEF ToSet

LEMMA SetIndex ==
    ASSUME NEW s, NEW e \in ToSet(s) PROVE \E i \in DOMAIN s : s[i] = e
BY DEF ToSet

LEMMA Joined ==
    ASSUME NEW S, NEW a \in Seq(S), NEW b \in Seq(S)
    PROVE  LET c == a \o b IN
           /\ c \in Seq(S) /\ Len(c) = Len(a) + Len(b)
           /\ \A i \in 1 .. Len(a) : c[i] = a[i]
           /\ \A i \in 1 .. Len(b) : c[Len(a) + i] = b[i]
<1> DEFINE c == a \o b
<1>1. /\ c \in Seq(S) /\ Len(c) = Len(a) + Len(b) /\ Len(a) \in Nat /\ Len(b) \in Nat
      /\ \A i \in 1 .. Len(a) + Len(b) : c[i] = IF i =< Len(a) THEN a[i] ELSE b[i - Len(a)]
  BY ConcatProperties
<1> HIDE DEF c
<1>2. ASSUME NEW i \in 1 .. Len(a) PROVE c[i] = a[i]
  BY <1>1
<1>3. ASSUME NEW i \in 1 .. Len(b) PROVE c[Len(a) + i] = b[i]
  <2> DEFINE j == Len(a) + i
  <2>1. j \in 1 .. Len(a) + Len(b) /\ ~(j =< Len(a)) /\ j - Len(a) = i
    BY <1>1
  <2> HIDE DEF j
  <2>2. c[j] = b[i]
    BY <1>1, <2>1
  <2> QED
    BY <2>2 DEF j
<1> QED
  BY <1>1, <1>2, <1>3 DEF c

\* The first position at which something does not come before a new event.
LEMMA FirstAfter ==
    ASSUME NEW s, NEW S, s \in Seq(S), NEW e, NEW k, k = firstAfter(s, e)
    PROVE  /\ k \in 0 .. Len(s)
           /\ k = 0 => \A i \in 1 .. Len(s) : NotAfter(s[i], e)
           /\ k # 0 => ~NotAfter(s[k], e) /\ \A i \in 1 .. k - 1 : NotAfter(s[i], e)
<1> DEFINE I == {i \in 1 .. Len(s) : ~NotAfter(s[i], e)}
<1>1. k = IF I # {} THEN Min(I) ELSE 0
  BY DEF firstAfter, SelectInSeq
<1>0. Len(s) \in Nat
  OBVIOUS
<1>2. CASE I = {}
  BY <1>0, <1>1, <1>2
<1>3. CASE I # {}
  <2>1. I \subseteq Nat
    OBVIOUS
  <2>2. PICK m \in I : \A n \in I : m =< n
    BY <1>3, <2>1, Smallest
  <2>3. Min(I) \in I /\ \A n \in I : Min(I) =< n
    BY <2>2 DEF Min
  <2>4. k = Min(I)
    BY <1>1, <1>3
  <2>5. k \in 1 .. Len(s) /\ ~NotAfter(s[k], e)
    BY <2>3, <2>4
  <2>7. \A n \in I : k =< n
    BY <2>3, <2>4
  <2>6. ASSUME NEW i \in 1 .. k - 1 PROVE NotAfter(s[i], e)
    <3>1. i \in 1 .. Len(s) /\ i \in Nat /\ ~(k =< i)
      BY <1>0, <2>5
    <3> QED
      BY <2>7, <3>1
  <2> QED
    BY <1>0, <2>5, <2>6
<1> QED
  BY <1>2, <1>3

(***************************************************************************)
(* Scheduling puts the new events behind the first k of the list, which are*)
(* not after them, and before all others, which are.                       *)
(***************************************************************************)
LEMMA Scheduled ==
    ASSUME NEW s, IsList(s), NEW events, events \in Seq(ToSet(events)), events # <<>>,
           \A e \in ToSet(events) : e.time \in Int /\ e.prio \in Int
    PROVE  \E k \in 0 .. Len(s) :
           LET new == scheduleAll(s, events)  m == Len(events) IN
           /\ new \in Seq(ToSet(s) \cup ToSet(events))
           /\ Len(new) = Len(s) + m
           /\ \A i \in 1 .. k : new[i] = s[i] /\ NotAfter(s[i], events[1])
           /\ \A i \in 1 .. m : new[k + i] = events[i]
           /\ \A i \in k + 1 .. Len(s) : new[m + i] = s[i] /\ ~NotAfter(s[i], events[1])
<1> DEFINE next == firstAfter(s, Head(events))
           new == scheduleAll(s, events)
           m == Len(events)
           n == Len(s)
           T == ToSet(s) \cup ToSet(events)
           Goal(k) == /\ new \in Seq(T)
                      /\ Len(new) = n + m
                      /\ \A i \in 1 .. k : new[i] = s[i] /\ NotAfter(s[i], events[1])
                      /\ \A i \in 1 .. m : new[k + i] = events[i]
                      /\ \A i \in k + 1 .. n : new[m + i] = s[i] /\ ~NotAfter(s[i], events[1])
<1> SUFFICES \E k \in 0 .. n : Goal(k)
  OBVIOUS
<1>1. /\ s \in Seq(T) /\ events \in Seq(T) /\ m \in Nat \ {0} /\ n \in Nat
      /\ DOMAIN s = 1 .. n /\ Head(events) = events[1]
  BY SeqMonotonic DEF IsList
<1>2. /\ next \in 0 .. n
      /\ next = 0 => \A i \in 1 .. n : NotAfter(s[i], events[1])
      /\ next # 0 => ~NotAfter(s[next], events[1]) /\ \A i \in 1 .. next - 1 : NotAfter(s[i], events[1])
  <2> HIDE DEF T
  <2> HIDE DEF new, T
  <2> QED
    BY <1>1, FirstAfter
<1>3. new = IF next = 0 THEN s \o events
            ELSE SubSeq(s, 1, next - 1) \o events \o SubSeq(s, next, n)
  BY DEF scheduleAll
<1> HIDE DEF next, new, T
<1>4. CASE next = 0
  <2>1. new = s \o events
    BY <1>3, <1>4
  <2>2. new \in Seq(T) /\ Len(new) = n + m
    BY <1>1, <2>1
  <2>3. \A i \in 1 .. n : new[i] = s[i]
    BY <1>1, <2>1
  <2>4. \A i \in 1 .. m : new[n + i] = events[i]
    BY <1>1, <2>1
  <2>5. n \in 0 .. n /\ n + 1 .. n = {}
    BY <1>1
  <2>6. Goal(n)
    BY <1>2, <1>4, <2>2, <2>3, <2>4, <2>5
  <2> QED
    BY <2>5, <2>6
<1>5. CASE next # 0
  <2> DEFINE k == next - 1
             before == SubSeq(s, 1, k)
             after == SubSeq(s, next, n)
  <2>1. k \in 0 .. n - 1 /\ next = k + 1 /\ k \in 0 .. n
    BY <1>1, <1>2, <1>5
  <2>2. new = before \o events \o after
    BY <1>3, <1>5
  <2> HIDE DEF k
  <2>3. before \in Seq(T) /\ Len(before) = k /\ \A i \in 1 .. k : before[i] = s[i]
    <3>1. \A i \in 1 .. k : s[i] \in T
      BY <1>1, <2>1
    <3>2. /\ before \in Seq(T) /\ Len(before) = IF 1 =< k THEN k - 1 + 1 ELSE 0
          /\ \A i \in 1 .. k - 1 + 1 : before[i] = s[1 + i - 1]
      BY <2>1, <3>1, SubSeqProperties
    <3> HIDE DEF before
    <3> QED
      BY <2>1, <3>2
  <2>4. after \in Seq(T) /\ Len(after) = n - k /\ \A i \in 1 .. n - k : after[i] = s[k + i]
    <3>1. \A i \in next .. n : s[i] \in T
      BY <1>1, <2>1
    <3>2. /\ after \in Seq(T) /\ Len(after) = IF next =< n THEN n - next + 1 ELSE 0
          /\ \A i \in 1 .. n - next + 1 : after[i] = s[next + i - 1]
      BY <1>1, <2>1, <3>1, SubSeqProperties
    <3> HIDE DEF after
    <3>3. n - next + 1 = n - k /\ next =< n /\ \A i \in 1 .. n - k : next + i - 1 = k + i
      BY <1>1, <2>1
    <3>4. Len(after) = n - k
      BY <3>2, <3>3
    <3>5. ASSUME NEW i \in 1 .. n - k PROVE after[i] = s[k + i]
      <4>1. i \in 1 .. n - next + 1 /\ next + i - 1 = k + i
        BY <3>3
      <4> QED
        BY <3>2, <4>1
    <3>6. after \in Seq(T)
      BY <3>2
    <3> HIDE DEF T
    <3> QED
      BY <3>4, <3>5, <3>6
  <2> HIDE DEF before, after
  <2> DEFINE both == before \o events
  <2>14. k \in Nat /\ n - k \in Nat
    BY <1>1, <2>1
  <2>11. /\ both \in Seq(T) /\ Len(both) = k + m
         /\ \A i \in 1 .. k : both[i] = s[i]
         /\ \A i \in 1 .. m : both[k + i] = events[i]
    <3>1. /\ both \in Seq(T) /\ Len(both) = Len(before) + Len(events)
          /\ \A i \in 1 .. Len(before) : both[i] = before[i]
          /\ \A i \in 1 .. Len(events) : both[Len(before) + i] = events[i]
      <4>1. before \in Seq(T) /\ events \in Seq(T)
        BY <1>1, <2>3
      <4> QED
        BY <4>1, Joined
    <3> HIDE DEF both
    <3> QED
      BY <2>3, <3>1
  <2>12. /\ new \in Seq(T) /\ Len(new) = k + m + (n - k)
         /\ \A i \in 1 .. k + m : new[i] = both[i]
         /\ \A i \in 1 .. n - k : new[k + m + i] = after[i]
    <3>1. new = both \o after
      BY <2>2
    <3> HIDE DEF both
    <3>2. /\ new \in Seq(T) /\ Len(new) = Len(both) + Len(after)
          /\ \A i \in 1 .. Len(both) : new[i] = both[i]
          /\ \A i \in 1 .. Len(after) : new[Len(both) + i] = after[i]
      <4>1. both \in Seq(T) /\ after \in Seq(T)
        BY <2>4, <2>11
      <4> QED
        BY <3>1, <4>1, Joined
    <3> QED
      BY <2>4, <2>11, <3>2
  <2> HIDE DEF both
  <2>5. new \in Seq(T) /\ Len(new) = k + m + (n - k)
    BY <2>12
  <2>6. ASSUME NEW i \in 1 .. k PROVE new[i] = s[i]
    <3>1. i \in 1 .. k + m
      BY <1>1, <2>14
    <3> QED
      BY <2>11, <2>12, <3>1
  <2>7. ASSUME NEW i \in 1 .. m PROVE new[k + i] = events[i]
    <3>1. k + i \in 1 .. k + m
      BY <1>1, <2>14
    <3> QED
      BY <2>11, <2>12, <3>1
  <2>8. ASSUME NEW i \in k + 1 .. n PROVE new[m + i] = s[i] /\ ~NotAfter(s[i], events[1])
    <3>1. new[m + i] = s[i]
      <4>1. i - k \in 1 .. n - k /\ m + i = k + m + (i - k) /\ k + (i - k) = i
        BY <1>1, <2>1
      <4>2. new[k + m + (i - k)] = after[i - k]
        <5> DEFINE j == i - k
        <5>1. j \in 1 .. n - k
          BY <4>1
        <5> HIDE DEF j
        <5>2. new[k + m + j] = after[j]
          BY <2>12, <5>1
        <5> QED
          BY <5>2 DEF j
      <4> QED
        BY <2>4, <4>1, <4>2
    <3>2. ~NotAfter(s[i], events[1])
      <4> DEFINE a == s[next]  b == s[i]  e == events[1]
      <4>1. ~NotAfter(a, e)
        BY <1>2, <1>5
      <4>2. next \in 1 .. n /\ i \in 1 .. n /\ (next = i \/ next < i)
        BY <1>1, <2>1
      <4>3. next < i => NotAfter(a, b)
        BY <1>1, <4>2 DEF IsList, Sorted
      <4>4. a \in ToSet(s) /\ b \in ToSet(s) /\ e \in ToSet(events)
        BY <1>1, <4>2, IndexInSet
      <4>5. /\ a.time \in Int /\ a.prio \in Int /\ b.time \in Int /\ b.prio \in Int
            /\ e.time \in Int /\ e.prio \in Int
        BY <4>4 DEF IsList
      <4>6. next = i => a = b
        OBVIOUS
      <4> HIDE DEF a, b, e
      <4> QED
        BY <4>1, <4>2, <4>3, <4>5, <4>6 DEF NotAfter, b, e
    <3> QED
      BY <3>1, <3>2
  <2>9. \A i \in 1 .. k : NotAfter(s[i], events[1])
    BY <1>2, <1>5 DEF k
  <2>10. k + m + (n - k) = n + m
    BY <1>1, <2>1
  <2> QED
    BY <2>1, <2>5, <2>6, <2>7, <2>8, <2>9, <2>10
<1> QED
  BY <1>4, <1>5

LEMMA ScheduledSet ==
    ASSUME NEW s, NEW to PROVE isScheduled(s, to) <=> \E e \in ToSet(s) : e.to = to
BY DEF isScheduled, ToSet

LEMMA ScheduleAll ==
    ASSUME NEW s, IsList(s), NEW events, events \in Seq(ToSet(events)), Together(events),
           \A e \in ToSet(events) : e.time \in Int /\ e.prio \in Int
    PROVE  LET new == scheduleAll(s, events) IN
           /\ IsList(new)
           /\ ToSet(new) = ToSet(s) \cup ToSet(events)
           /\ \A to : \/ Once(s, to) /\ \A e \in ToSet(events) : e.to # to
                      \/ ~isScheduled(s, to) /\ Len(events) = 1
                      => Once(new, to)
<1> DEFINE new == scheduleAll(s, events)
           m == Len(events)
           n == Len(s)
<1>1. CASE events = <<>>
  <2>1. new = s /\ ToSet(events) = {}
    BY <1>1 DEF scheduleAll, ToSet
  <2>2. Len(events) # 1
    BY <1>1
  <2> QED
    BY <2>1, <2>2
<1>2. CASE events # <<>>
  <2>1. PICK k \in 0 .. n :
          /\ new \in Seq(ToSet(s) \cup ToSet(events))
          /\ Len(new) = n + m
          /\ \A i \in 1 .. k : new[i] = s[i] /\ NotAfter(s[i], events[1])
          /\ \A i \in 1 .. m : new[k + i] = events[i]
          /\ \A i \in k + 1 .. n : new[m + i] = s[i] /\ ~NotAfter(s[i], events[1])
    BY <1>2, Scheduled
  <2>2. /\ n \in Nat /\ m \in Nat \ {0} /\ k \in 0 .. n
        /\ DOMAIN s = 1 .. n /\ DOMAIN events = 1 .. m /\ DOMAIN new = 1 .. n + m
    BY <1>2, <2>1 DEF IsList
  <2> HIDE DEF new
  <2>3. ASSUME NEW i \in 1 .. n + m
        PROVE  \/ i \in 1 .. k /\ new[i] = s[i] /\ NotAfter(s[i], events[1])
               \/ i - k \in 1 .. m /\ new[i] = events[i - k] /\ k < i /\ i =< k + m
               \/ i - m \in k + 1 .. n /\ new[i] = s[i - m] /\ ~NotAfter(s[i - m], events[1]) /\ k + m < i
    <3>1. CASE i =< k
      <4>1. i \in 1 .. k
        BY <2>2, <3>1
      <4> QED
        BY <2>1, <4>1
    <3>2. CASE k < i /\ i =< k + m
      <4> DEFINE j == i - k
      <4>1. j \in 1 .. m /\ k + j = i
        BY <2>2, <3>2
      <4> HIDE DEF j
      <4>2. new[k + j] = events[j]
        BY <2>1, <4>1
      <4> QED
        BY <3>2, <4>1, <4>2 DEF j
    <3>3. CASE k + m < i
      <4> DEFINE j == i - m
      <4>1. j \in k + 1 .. n /\ m + j = i
        BY <2>2, <3>3
      <4> HIDE DEF j
      <4>2. new[m + j] = s[j] /\ ~NotAfter(s[j], events[1])
        BY <2>1, <4>1
      <4> QED
        BY <3>3, <4>1, <4>2 DEF j
    <3> QED
      BY <2>2, <3>1, <3>2, <3>3
  <2>4. ToSet(new) = ToSet(s) \cup ToSet(events)
    <3>1. ASSUME NEW i \in 1 .. n PROVE s[i] \in ToSet(new)
      <4>1. CASE i =< k
        <5>1. i \in 1 .. k /\ i \in 1 .. n + m
          BY <2>2, <4>1
        <5> QED
          BY <2>1, <2>2, <5>1, IndexInSet
      <4>2. CASE k < i
        <5>1. i \in k + 1 .. n /\ m + i \in 1 .. n + m
          BY <2>2, <4>2
        <5> QED
          BY <2>1, <2>2, <5>1, IndexInSet
      <4> QED
        BY <2>2, <4>1, <4>2
    <3>2. ASSUME NEW i \in 1 .. m PROVE events[i] \in ToSet(new)
      <4>1. k + i \in 1 .. n + m
        BY <2>2
      <4> QED
        BY <2>1, <2>2, <4>1, IndexInSet
    <3>3. ToSet(s) \subseteq ToSet(new) /\ ToSet(events) \subseteq ToSet(new)
      BY <2>2, <3>1, <3>2, SetIndex
    <3>4. ToSet(new) \subseteq ToSet(s) \cup ToSet(events)
      BY <2>1, <2>2, SetIndex
    <3> QED
      BY <3>3, <3>4
  <2>5. IsList(new)
    <3>1. \A e \in ToSet(new) : e.time \in Int /\ e.prio \in Int
      BY <2>4 DEF IsList
    <3>2. ASSUME NEW i \in 1 .. n + m, NEW j \in 1 .. n + m, i < j
          PROVE  NotAfter(new[i], new[j])
      <4> DEFINE a == new[i]  b == new[j]  e == events[1]
      <4>1. a \in ToSet(new) /\ b \in ToSet(new) /\ e \in ToSet(events)
        BY <2>2, IndexInSet
      <4>2. /\ a.time \in Int /\ a.prio \in Int /\ b.time \in Int /\ b.prio \in Int
            /\ e.time \in Int /\ e.prio \in Int
        BY <3>1, <4>1
      <4>3. \A x, y \in 1 .. n : x < y => NotAfter(s[x], s[y])
        BY <2>2 DEF IsList, Sorted
      <4>4. \A x \in 1 .. m : events[x].time = e.time /\ events[x].prio = e.prio
        <5> SUFFICES ASSUME NEW x \in 1 .. m
                     PROVE  events[x].time = e.time /\ events[x].prio = e.prio
          OBVIOUS
        <5>1. x \in DOMAIN events /\ 1 \in DOMAIN events /\ Together(events)
          BY <2>2
        <5> QED
          BY <5>1 DEF Together
      <4>5. /\ i \in 1 .. k /\ j \in 1 .. k => NotAfter(a, b)
            /\ i \in 1 .. k /\ j - m \in k + 1 .. n /\ b = s[j - m] => NotAfter(a, b)
            /\ /\ i - m \in k + 1 .. n /\ a = s[i - m]
               /\ j - m \in k + 1 .. n /\ b = s[j - m]
               => NotAfter(a, b)
        <5>1. i \in 1 .. k /\ j \in 1 .. k => NotAfter(a, b)
          <6> SUFFICES ASSUME i \in 1 .. k, j \in 1 .. k PROVE NotAfter(a, b)
            OBVIOUS
          <6>1. a = s[i] /\ b = s[j] /\ i \in 1 .. n /\ j \in 1 .. n
            BY <2>1, <2>2
          <6>2. NotAfter(s[i], s[j])
            BY <3>2, <4>3, <6>1
          <6> HIDE DEF a, b
          <6> QED
            BY <6>1, <6>2
        <5>2. i \in 1 .. k /\ j - m \in k + 1 .. n /\ b = s[j - m] => NotAfter(a, b)
          BY <2>1, <2>2, <3>2, <4>3
        <5>3. /\ i - m \in k + 1 .. n /\ a = s[i - m]
              /\ j - m \in k + 1 .. n /\ b = s[j - m]
              => NotAfter(a, b)
          <6> SUFFICES ASSUME i - m \in k + 1 .. n, a = s[i - m],
                              j - m \in k + 1 .. n, b = s[j - m]
                       PROVE  NotAfter(a, b)
            OBVIOUS
          <6> DEFINE x == i - m  y == j - m
          <6>1. x \in 1 .. n /\ y \in 1 .. n /\ x < y
            BY <2>2, <3>2
          <6>2. a = s[x] /\ b = s[y]
            OBVIOUS
          <6> HIDE DEF x, y, a, b
          <6> QED
            BY <4>3, <6>1, <6>2
        <5> QED
          BY <5>1, <5>2, <5>3
      <4>6. /\ i \in 1 .. k => NotAfter(a, e)
            /\ j - m \in k + 1 .. n /\ b = s[j - m] /\ ~NotAfter(s[j - m], e) => ~NotAfter(b, e)
            /\ i - k \in 1 .. m /\ a = events[i - k] => a.time = e.time /\ a.prio = e.prio
            /\ j - k \in 1 .. m /\ b = events[j - k] => b.time = e.time /\ b.prio = e.prio
        <5>1. i \in 1 .. k => NotAfter(a, e)
          <6> SUFFICES ASSUME i \in 1 .. k PROVE NotAfter(a, e)
            OBVIOUS
          <6>1. a = s[i] /\ NotAfter(s[i], e)
            BY <2>1
          <6> HIDE DEF a, e
          <6> QED
            BY <6>1
        <5>2. i - k \in 1 .. m /\ a = events[i - k] => a.time = e.time /\ a.prio = e.prio
          BY <4>4
        <5>3. j - k \in 1 .. m /\ b = events[j - k] => b.time = e.time /\ b.prio = e.prio
          BY <4>4
        <5> HIDE DEF a, b, e
        <5> QED
          BY <5>1, <5>2, <5>3
      <4>7. \/ i \in 1 .. k
            \/ i - k \in 1 .. m /\ a = events[i - k] /\ k < i
            \/ i - m \in k + 1 .. n /\ a = s[i - m] /\ k + m < i
        BY <2>3
      <4>8. \/ j \in 1 .. k
            \/ j - k \in 1 .. m /\ b = events[j - k] /\ j =< k + m
            \/ j - m \in k + 1 .. n /\ b = s[j - m] /\ ~NotAfter(s[j - m], e)
        BY <2>3
      <4> HIDE DEF a, b, e
      <4>9. \/ NotAfter(a, b)
            \/ NotAfter(a, e) /\ b.time = e.time /\ b.prio = e.prio
            \/ a.time = e.time /\ a.prio = e.prio /\ ~NotAfter(b, e)
            \/ a.time = e.time /\ a.prio = e.prio /\ b.time = e.time /\ b.prio = e.prio
        BY <2>2, <3>2, <4>5, <4>6, <4>7, <4>8
      <4>10. NotAfter(a, b)
        BY <4>2, <4>9 DEF NotAfter
      <4> QED
        BY <4>10 DEF a, b
    <3>3. Sorted(new)
      BY <2>2, <3>2 DEF Sorted
    <3> QED
      BY <2>1, <2>4, <3>1, <3>3 DEF IsList
  <2>6. ASSUME NEW to, Once(s, to), \A e \in ToSet(events) : e.to # to
        PROVE  Once(new, to)
    <3> SUFFICES ASSUME NEW i \in 1 .. n + m, NEW j \in 1 .. n + m,
                        new[i].to = to, new[j].to = to
                 PROVE  i = j
      BY <2>2 DEF Once
    <3>1. \A x \in 1 .. m : events[x].to # to
      BY <2>2, <2>6, IndexInSet
    <3>2. \A x, y \in 1 .. n : s[x].to = to /\ s[y].to = to => x = y
      BY <2>2, <2>6 DEF Once
    <3>3. \/ i \in 1 .. k /\ new[i] = s[i]
          \/ i - m \in k + 1 .. n /\ new[i] = s[i - m]
      BY <2>3, <3>1
    <3>4. \/ j \in 1 .. k /\ new[j] = s[j]
          \/ j - m \in k + 1 .. n /\ new[j] = s[j - m]
      BY <2>3, <3>1
    <3> QED
      BY <2>2, <3>2, <3>3, <3>4
  <2>7. ASSUME NEW to, ~isScheduled(s, to), m = 1 PROVE Once(new, to)
    <3> SUFFICES ASSUME NEW i \in 1 .. n + m, NEW j \in 1 .. n + m,
                        new[i].to = to, new[j].to = to
                 PROVE  i = j
      BY <2>2 DEF Once
    <3>1. \A x \in 1 .. n : s[x].to # to
      BY <2>2, <2>7 DEF isScheduled
    <3>2. i - k \in 1 .. m
      BY <2>2, <2>3, <3>1
    <3>3. j - k \in 1 .. m
      BY <2>2, <2>3, <3>1
    <3> QED
      BY <2>2, <2>7, <3>2, <3>3
  <2> QED
    BY <2>4, <2>5, <2>6, <2>7 DEF new
<1> QED
  BY <1>1, <1>2

LEMMA ScheduleAt ==
    ASSUME NEW s, IsList(s), NEW e, e.time \in Int, e.prio \in Int
    PROVE  LET new == scheduleAt(s, e) IN
           /\ IsList(new)
           /\ ToSet(new) = ToSet(s) \cup {e}
           /\ \A to : \/ Once(s, to) /\ e.to # to
                      \/ ~isScheduled(s, to)
                      => Once(new, to)
<1> DEFINE events == <<e>>
<1>1. ToSet(events) = {e} /\ events \in Seq({e}) /\ Len(events) = 1 /\ Together(events)
  BY DEF ToSet, Together
<1>2. scheduleAt(s, e) = scheduleAll(s, events)
  BY DEF scheduleAt
<1> HIDE DEF events
<1> QED
  BY <1>1, <1>2, ScheduleAll

\* The next event is taken from the list.
LEMMA TakeNext ==
    ASSUME NEW s, IsList(s), s # <<>>
    PROVE  /\ IsList(Tail(s))
           /\ ToSet(s) = {Head(s)} \cup ToSet(Tail(s))
           /\ \A e \in ToSet(s) : NotAfter(Head(s), e)
           /\ \A to : Once(s, to) => Once(Tail(s), to)
           /\ Once(s, Head(s).to) => ~isScheduled(Tail(s), Head(s).to)
<1> DEFINE n == Len(s)  t == Tail(s)
<1>1. n \in Nat \ {0} /\ DOMAIN s = 1 .. n /\ Head(s) = s[1]
  BY DEF IsList
<1>2. /\ t \in Seq(ToSet(s)) /\ Len(t) = n - 1 /\ DOMAIN t = 1 .. n - 1
      /\ \A i \in 1 .. n - 1 : t[i] = s[i + 1]
  BY <1>1, HeadTailProperties DEF IsList
<1> HIDE DEF t
<1>3. ToSet(s) = {Head(s)} \cup ToSet(t)
  <2>1. ToSet(t) \subseteq ToSet(s) /\ Head(s) \in ToSet(s)
    BY <1>1, <1>2, IndexInSet, SetIndex
  <2>2. ASSUME NEW i \in 1 .. n PROVE s[i] = Head(s) \/ s[i] \in ToSet(t)
    <3>1. CASE i = 1
      BY <1>1, <3>1
    <3>2. CASE i # 1
      <4>1. i - 1 \in DOMAIN t /\ i - 1 + 1 = i /\ i - 1 \in 1 .. n - 1
        BY <1>1, <1>2, <3>2
      <4>2. t[i - 1] = s[i - 1 + 1]
        BY <1>2, <4>1
      <4> QED
        BY <4>1, <4>2, IndexInSet
    <3> QED
      BY <3>1, <3>2
  <2>3. ToSet(s) \subseteq {Head(s)} \cup ToSet(t)
    BY <1>1, <2>2, SetIndex
  <2> QED
    BY <2>1, <2>3
<1>4. IsList(t)
  <2>1. Sorted(t)
    <3>1. \A i, j \in 1 .. n : i < j => NotAfter(s[i], s[j])
      BY <1>1 DEF IsList, Sorted
    <3>2. ASSUME NEW i \in 1 .. n - 1, NEW j \in 1 .. n - 1, i < j PROVE NotAfter(t[i], t[j])
      <4>1. t[i] = s[i + 1] /\ t[j] = s[j + 1]
        BY <1>2
      <4>2. i + 1 \in 1 .. n /\ j + 1 \in 1 .. n /\ i + 1 < j + 1
        BY <1>1, <3>2
      <4> QED
        BY <3>1, <4>1, <4>2
    <3> QED
      BY <1>2, <3>2 DEF Sorted
  <2>2. t \in Seq(ToSet(t))
    BY <1>2, IsASeq, IndexInSet
  <2> QED
    BY <1>3, <2>1, <2>2 DEF IsList
<1>5. ASSUME NEW e \in ToSet(s) PROVE NotAfter(Head(s), e)
  <2>1. PICK i \in 1 .. n : s[i] = e
    BY <1>1, SetIndex
  <2>2. i # 1 => NotAfter(s[1], s[i])
    BY <1>1 DEF IsList, Sorted
  <2>3. i = 1 => NotAfter(Head(s), e)
    BY <1>1, <2>1 DEF IsList, NotAfter
  <2> QED
    BY <1>1, <2>1, <2>2, <2>3
<1>6. ASSUME NEW to, Once(s, to) PROVE Once(t, to)
  BY <1>1, <1>2, <1>6 DEF Once
<1>7. ASSUME Once(s, Head(s).to) PROVE ~isScheduled(t, Head(s).to)
  BY <1>1, <1>2, <1>7 DEF Once, isScheduled
<1> QED
  BY <1>3, <1>4, <1>5, <1>6, <1>7 DEF t

\* Cancelling takes the first event for "to" out, if there is one.
LEMMA CancelledAt ==
    ASSUME NEW s, IsList(s), NEW to
    PROVE  LET new == cancelEvent(s, to) IN
           \/ new = s /\ ~isScheduled(s, to)
           \/ \E k \in 1 .. Len(s) :
                 /\ s[k].to = to
                 /\ new \in Seq(ToSet(s)) /\ Len(new) = Len(s) - 1 /\ DOMAIN new = 1 .. Len(s) - 1
                 /\ \A i \in 1 .. k - 1 : new[i] = s[i]
                 /\ \A i \in k .. Len(s) - 1 : new[i] = s[i + 1]
<1> DEFINE new == cancelEvent(s, to)
           n == Len(s)
           I == {i \in 1 .. n : s[i].to = to}
<1>1. n \in Nat /\ DOMAIN s = 1 .. n
  BY DEF IsList
<1>2. CASE I = {}
  <2>1. new = s
    BY <1>1, <1>2 DEF cancelEvent, RemoveFirstMatch
  <2>2. ~isScheduled(s, to)
    BY <1>1, <1>2 DEF isScheduled
  <2> QED
    BY <2>1, <2>2
<1>3. CASE I # {}
  <2> DEFINE k == Min(I)
             before == SubSeq(s, 1, k - 1)
             after == SubSeq(s, k + 1, n)
  <2>1. I \subseteq Nat
    BY <1>1
  <2>2. PICK m \in I : \A i \in I : m =< i
    BY <1>3, <2>1, Smallest
  <2>3. k \in I
    BY <2>2 DEF Min
  <2>4. new = before \o after
    BY <1>1, <1>3 DEF cancelEvent, RemoveFirstMatch, RemoveAt, SelectInSeq
  <2> HIDE DEF k, new
  <2>5. k \in 1 .. n /\ s[k].to = to
    BY <2>3
  <2>6. before \in Seq(ToSet(s)) /\ Len(before) = k - 1 /\ \A i \in 1 .. k - 1 : before[i] = s[i]
    <3>1. \A i \in 1 .. k - 1 : s[i] \in ToSet(s)
      BY <1>1, <2>5, IndexInSet
    <3>2. k - 1 \in Int /\ 1 \in Int
      BY <2>5
    <3>3. /\ before \in Seq(ToSet(s)) /\ Len(before) = IF 1 =< k - 1 THEN k - 1 - 1 + 1 ELSE 0
          /\ \A i \in 1 .. k - 1 - 1 + 1 : before[i] = s[1 + i - 1]
      BY <3>1, <3>2, SubSeqProperties
    <3> HIDE DEF before
    <3> QED
      BY <2>5, <3>3
  <2>7. after \in Seq(ToSet(s)) /\ Len(after) = n - k /\ \A i \in 1 .. n - k : after[i] = s[k + i]
    <3>1. \A i \in k + 1 .. n : s[i] \in ToSet(s)
      BY <1>1, <2>5, IndexInSet
    <3>2. k + 1 \in Int /\ n \in Int
      BY <1>1, <2>5
    <3>3. /\ after \in Seq(ToSet(s)) /\ Len(after) = IF k + 1 =< n THEN n - (k + 1) + 1 ELSE 0
          /\ \A i \in 1 .. n - (k + 1) + 1 : after[i] = s[k + 1 + i - 1]
      BY <3>1, <3>2, SubSeqProperties
    <3> HIDE DEF after
    <3>4. n - (k + 1) + 1 = n - k /\ \A i \in 1 .. n - k : k + 1 + i - 1 = k + i
      BY <1>1, <2>5
    <3>5. Len(after) = n - k
      <4>1. Len(after) = IF k + 1 =< n THEN n - (k + 1) + 1 ELSE 0
        BY <3>3
      <4>2. k \in Nat /\ n \in Nat /\ k =< n
        BY <1>1, <2>5
      <4> HIDE DEF n
      <4> QED
        BY <4>1, <4>2
    <3>6. ASSUME NEW i \in 1 .. n - k PROVE after[i] = s[k + i]
      BY <3>3, <3>4
    <3> QED
      BY <3>3, <3>5, <3>6
  <2> HIDE DEF before, after, I
  <2>8. /\ new \in Seq(ToSet(s)) /\ Len(new) = n - 1 /\ DOMAIN new = 1 .. n - 1
        /\ \A i \in 1 .. k - 1 : new[i] = s[i]
        /\ \A i \in k .. n - 1 : new[i] = s[i + 1]
    <3>1. /\ new \in Seq(ToSet(s)) /\ Len(new) = (k - 1) + (n - k)
          /\ \A i \in 1 .. (k - 1) + (n - k) : new[i] = IF i =< k - 1 THEN before[i] ELSE after[i - (k - 1)]
      <4>1. /\ before \in Seq(ToSet(s)) /\ after \in Seq(ToSet(s)) /\ new = before \o after
            /\ Len(before) = k - 1 /\ Len(after) = n - k
        BY <2>4, <2>6, <2>7
      <4> HIDE DEF new
      <4>2. /\ new \in Seq(ToSet(s)) /\ Len(new) = Len(before) + Len(after)
            /\ \A i \in 1 .. Len(before) + Len(after) :
                  new[i] = IF i =< Len(before) THEN before[i] ELSE after[i - Len(before)]
        BY <4>1, ConcatProperties
      <4> QED
        BY <4>1, <4>2
    <3>2. (k - 1) + (n - k) = n - 1
      BY <1>1, <2>5
    <3>3. DOMAIN new = 1 .. n - 1
      BY <3>1, <3>2
    <3>4. ASSUME NEW i \in 1 .. k - 1 PROVE new[i] = s[i]
      BY <1>1, <2>5, <2>6, <3>1, <3>2
    <3>5. ASSUME NEW i \in k .. n - 1 PROVE new[i] = s[i + 1]
      <4> DEFINE j == i - (k - 1)
      <4>1. j \in 1 .. n - k /\ k + j = i + 1 /\ i \in 1 .. n - 1 /\ ~(i =< k - 1)
        BY <1>1, <2>5
      <4>2. new[i] = after[j]
        BY <3>1, <3>2, <4>1
      <4> HIDE DEF j
      <4>3. after[j] = s[k + j]
        BY <2>7, <4>1
      <4> QED
        BY <4>1, <4>2, <4>3
    <3> QED
      BY <3>1, <3>2, <3>3, <3>4, <3>5
  <2> QED
    BY <2>5, <2>8 DEF new, n
<1> QED
  BY <1>2, <1>3

LEMMA Cancelled ==
    ASSUME NEW s, IsList(s), NEW to
    PROVE  LET new == cancelEvent(s, to) IN
           /\ IsList(new)
           /\ ToSet(new) \subseteq ToSet(s)
           /\ \A e \in ToSet(s) : e.to # to => e \in ToSet(new)
           /\ \A x : Once(s, x) => Once(new, x)
           /\ Once(s, to) => ~isScheduled(new, to)
<1> DEFINE new == cancelEvent(s, to)
           n == Len(s)
<1>1. n \in Nat /\ DOMAIN s = 1 .. n
  BY DEF IsList
<1>2. CASE new = s /\ ~isScheduled(s, to)
  BY <1>2
<1>3. ASSUME NEW k \in 1 .. n, s[k].to = to,
             new \in Seq(ToSet(s)) /\ Len(new) = n - 1 /\ DOMAIN new = 1 .. n - 1,
             \A i \in 1 .. k - 1 : new[i] = s[i],
             \A i \in k .. n - 1 : new[i] = s[i + 1]
      PROVE  /\ IsList(new)
             /\ ToSet(new) \subseteq ToSet(s)
             /\ \A e \in ToSet(s) : e.to # to => e \in ToSet(new)
             /\ \A x : Once(s, x) => Once(new, x)
             /\ Once(s, to) => ~isScheduled(new, to)
  <2> HIDE DEF new
  <2>5. k \in 1 .. n /\ s[k].to = to
    BY <1>3
  <2>8. /\ new \in Seq(ToSet(s)) /\ Len(new) = n - 1 /\ DOMAIN new = 1 .. n - 1
        /\ \A i \in 1 .. k - 1 : new[i] = s[i]
        /\ \A i \in k .. n - 1 : new[i] = s[i + 1]
    BY <1>3
  <2>9. ASSUME NEW i \in 1 .. n - 1
        PROVE  \/ i < k /\ i \in 1 .. n /\ new[i] = s[i]
               \/ k =< i /\ i + 1 \in 1 .. n /\ new[i] = s[i + 1]
    BY <1>1, <2>5, <2>8
  <2>10. ToSet(new) \subseteq ToSet(s)
    BY <1>1, <2>8, <2>9, IndexInSet, SetIndex
  <2>11. IsList(new)
    <3>1. new \in Seq(ToSet(new))
      BY <2>8, IsASeq, IndexInSet
    <3>2. \A e \in ToSet(new) : e.time \in Int /\ e.prio \in Int
      BY <2>10 DEF IsList
    <3>3. \A x, y \in 1 .. n : x < y => NotAfter(s[x], s[y])
      BY <1>1 DEF IsList, Sorted
    <3>4. \A i, j \in 1 .. n - 1 : i < j => NotAfter(new[i], new[j])
      BY <1>1, <2>5, <2>9, <3>3
    <3> QED
      BY <2>8, <3>1, <3>2, <3>4 DEF IsList, Sorted
  <2>12. ASSUME NEW e \in ToSet(s), e.to # to PROVE e \in ToSet(new)
    <3>1. PICK i \in 1 .. n : s[i] = e
      BY <1>1, SetIndex
    <3>2. i # k
      BY <2>5, <2>12, <3>1
    <3>3. CASE i < k
      <4>1. i \in 1 .. k - 1 /\ i \in 1 .. n - 1
        BY <1>1, <2>5, <3>3
      <4> QED
        BY <2>8, <3>1, <4>1, IndexInSet
    <3>4. CASE i > k
      <4>1. i - 1 \in k .. n - 1 /\ i - 1 \in 1 .. n - 1 /\ i - 1 + 1 = i
        BY <1>1, <2>5, <3>4
      <4>2. new[i - 1] = s[i - 1 + 1]
        BY <2>8, <4>1
      <4> QED
        BY <2>8, <3>1, <4>1, <4>2, IndexInSet
    <3> QED
      BY <1>1, <2>5, <3>2, <3>3, <3>4
  <2>13. ASSUME NEW x, Once(s, x) PROVE Once(new, x)
    <3>1. \A i, j \in 1 .. n : s[i].to = x /\ s[j].to = x => i = j
      BY <1>1, <2>13 DEF Once
    <3>2. ASSUME NEW i \in 1 .. n - 1, NEW j \in 1 .. n - 1, new[i].to = x, new[j].to = x
          PROVE  i = j
      <4>1. PICK a \in 1 .. n :
                 new[i] = s[a] /\ ((i < k /\ a = i) \/ (k =< i /\ a = i + 1))
        <5>1. CASE i < k /\ i \in 1 .. n /\ new[i] = s[i]
          BY <5>1
        <5>2. CASE k =< i /\ i + 1 \in 1 .. n /\ new[i] = s[i + 1]
          BY <5>2
        <5> QED
          BY <2>9, <5>1, <5>2
      <4>2. PICK b \in 1 .. n :
                 new[j] = s[b] /\ ((j < k /\ b = j) \/ (k =< j /\ b = j + 1))
        <5>1. CASE j < k /\ j \in 1 .. n /\ new[j] = s[j]
          BY <5>1
        <5>2. CASE k =< j /\ j + 1 \in 1 .. n /\ new[j] = s[j + 1]
          BY <5>2
        <5> QED
          BY <2>9, <5>1, <5>2
      <4>3. a = b
        BY <3>1, <3>2, <4>1, <4>2
      <4> QED
        BY <1>1, <2>5, <4>1, <4>2, <4>3
    <3> QED
      BY <2>8, <3>2 DEF Once
  <2>14. ASSUME Once(s, to) PROVE ~isScheduled(new, to)
    <3>1. \A i \in 1 .. n : s[i].to = to => i = k
      BY <1>1, <2>5, <2>14 DEF Once
    <3>2. \A i \in 1 .. n - 1 : new[i].to # to
      BY <1>1, <2>5, <2>9, <3>1
    <3> QED
      BY <2>8, <3>2 DEF isScheduled
  <2> QED
    BY <2>10, <2>11, <2>12, <2>13, <2>14 DEF new
<1> HIDE DEF new
<1> QED
  BY <1>2, <1>3, CancelledAt DEF new

----------------------------------------------------------------------------
(***************************************************************************)
(* Dijkstra's algorithm: the next hops are neighbours of the node.         *)
(***************************************************************************)
Hops(src) == {n \in Node : <<src, n>> \in Link} \cup {NoRoute}

RoutesOK(table, src) == table \in [Node -> Hops(src)]

\* What the rounds keep.
RoundOK(d, src) ==
    /\ {"N", "D", "P", "closest", "stuck"} \subseteq DOMAIN d
    /\ d.N \subseteq Node
    /\ RoutesOK(d.P, src)

Rounds(c, src, f, K) ==
    f = [k \in 0 .. K |-> IF k = 0 THEN R!DijkstraInit(src) ELSE R!DijkstraRound(c, src, f[k - 1])]

LEMMA RoundsExist ==
    ASSUME NEW c, NEW src, NEW K \in Nat PROVE \E f : Rounds(c, src, f, K)
<1> DEFINE Bad == {k \in Nat : ~ \E f : Rounds(c, src, f, k)}
<1> SUFFICES ASSUME Bad # {} PROVE FALSE
  OBVIOUS
<1>1. PICK m \in Bad : \A k \in Bad : m =< k
  BY Smallest
<1>2. CASE m = 0
  <2> DEFINE f == [k \in 0 .. 0 |-> R!DijkstraInit(src)]
  <2>1. Rounds(c, src, f, 0)
    BY DEF Rounds
  <2> QED
    BY <1>1, <1>2, <2>1
<1>3. CASE m # 0
  <2>1. m \in Nat /\ m - 1 \in Nat /\ m - 1 \notin Bad
    BY <1>1, <1>3
  <2>2. PICK f : Rounds(c, src, f, m - 1)
    BY <2>1
  <2> DEFINE last == R!DijkstraRound(c, src, f[m - 1])
             g == [k \in 0 .. m |-> IF k = m THEN last ELSE f[k]]
  <2>3. \A k \in 0 .. m - 1 :
            f[k] = IF k = 0 THEN R!DijkstraInit(src) ELSE R!DijkstraRound(c, src, f[k - 1])
    BY <2>2 DEF Rounds
  <2>4. ASSUME NEW k \in 0 .. m
        PROVE  g[k] = IF k = 0 THEN R!DijkstraInit(src) ELSE R!DijkstraRound(c, src, g[k - 1])
    <3> HIDE DEF last
    <3>1. CASE k = m
      <4>1. g[k] = last /\ g[k - 1] = f[m - 1] /\ k # 0
        BY <1>3, <2>1, <3>1
      <4> QED
        BY <4>1 DEF last
    <3>2. CASE k # m
      <4>1. k \in 0 .. m - 1 /\ g[k] = f[k] /\ (k # 0 => g[k - 1] = f[k - 1])
        BY <2>1, <3>2
      <4> QED
        BY <2>3, <4>1
    <3> QED
      BY <3>1, <3>2
  <2>5. Rounds(c, src, g, m)
    BY <2>4, Zenon DEF Rounds
  <2> QED
    BY <1>1, <2>5
<1> QED
  BY <1>2, <1>3

LEMMA RoundKeeps ==
    ASSUME NEW c, NEW src \in Node, NEW d, RoundOK(d, src)
    PROVE  RoundOK(R!DijkstraRound(c, src, d), src)
<1> DEFINE N == d.N \ {d.closest}
           D == [n \in Node |-> R!Relax(c, src, d, n).D]
           P == [n \in Node |-> R!Relax(c, src, d, n).P]
           r == R!DijkstraRound(c, src, d)
<1>1. CASE d.closest \notin d.N
  <2>1. r = [d EXCEPT !.stuck = TRUE]
    BY <1>1 DEF R!DijkstraRound
  <2> HIDE DEF r
  <2> QED
    BY <2>1 DEF RoundOK, r
<1>2. CASE d.closest \in d.N
  <2>1. ASSUME NEW n \in Node PROVE P[n] \in Hops(src)
    <3>1. d.P[n] \in Hops(src) /\ d.P[d.closest] \in Hops(src)
      BY <1>2 DEF RoundOK, RoutesOK
    <3>2. <<src, n>> \in Link => n \in Hops(src)
      BY DEF Hops
    <3> QED
      BY <3>1, <3>2 DEF R!Relax
  <2>2. RoutesOK(P, src)
    BY <2>1 DEF RoutesOK
  <2>3. \E z : r = [d EXCEPT !.N = N, !.D = D, !.P = P, !.closest = z]
    BY <1>2 DEF R!DijkstraRound
  <2> HIDE DEF r, P, D
  <2>4. r.N = N /\ r.P = P /\ DOMAIN r = DOMAIN d
    BY <2>3 DEF RoundOK
  <2> QED
    BY <2>2, <2>4 DEF RoundOK, r
<1> QED
  BY <1>1, <1>2

LEMMA DijkstraHops ==
    ASSUME NEW c, NEW src \in Node PROVE RoutesOK(R!doDijkstra(c, src).P, src)
<1> DEFINE K == Cardinality(Node)
           f == CHOOSE g : Rounds(c, src, g, K)
<1>1. K \in Nat
  BY NodesAssumption, FS_CardinalityType
<1>2. Rounds(c, src, f, K)
  BY <1>1, RoundsExist
<1>3. R!doDijkstra(c, src) = f[K]
  <2>1. R!Cardinality(Node) = Cardinality(Node)
    BY Zenon DEF R!Cardinality, Cardinality
  <2> QED
    BY <2>1, Zenon DEF R!doDijkstra, Rounds
<1> HIDE DEF f
<1>4. \A k \in 0 .. K :
          f[k] = IF k = 0 THEN R!DijkstraInit(src) ELSE R!DijkstraRound(c, src, f[k - 1])
  BY <1>2 DEF Rounds
<1> DEFINE Bad == {k \in 0 .. K : ~RoundOK(f[k], src)}
<1>5. CASE Bad = {}
  BY <1>1, <1>3, <1>5 DEF RoundOK
<1>6. CASE Bad # {}
  <2>1. PICK m \in Bad : \A k \in Bad : m =< k
    <3>1. Bad \subseteq Nat
      BY <1>1
    <3> QED
      BY <1>6, <3>1, Smallest
  <2>2. CASE m = 0
    <3>1. f[0] = R!DijkstraInit(src)
      BY <1>1, <1>4
    <3>2. RoundOK(f[0], src)
      BY <3>1 DEF RoundOK, RoutesOK, R!DijkstraInit, Hops
    <3> QED
      BY <2>1, <2>2, <3>2
  <2>3. CASE m # 0
    <3>1. m - 1 \in 0 .. K /\ m - 1 \notin Bad
      BY <1>1, <2>1, <2>3
    <3>2. RoundOK(f[m - 1], src) /\ f[m] = R!DijkstraRound(c, src, f[m - 1])
      BY <1>4, <2>1, <2>3, <3>1
    <3> QED
      BY <2>1, <3>2, RoundKeeps
  <2> QED
    BY <2>2, <2>3
<1> QED
  BY <1>5, <1>6

LEMMA RoutesKept ==
    ASSUME NEW c, NEW src \in Node, NEW table, RoutesOK(table, src)
    PROVE  RoutesOK(R!calculateRoutes(c, src, table), src)
<1> DEFINE P == R!doDijkstra(c, src).P
<1>1. RoutesOK(P, src)
  BY DijkstraHops
<1>2. R!calculateRoutes(c, src, table) = [n \in Node |-> IF P[n] = NoRoute THEN table[n] ELSE P[n]]
  BY DEF R!calculateRoutes
<1> HIDE DEF P
<1> QED
  BY <1>1, <1>2 DEF RoutesOK

----------------------------------------------------------------------------
(***************************************************************************)
(* Messages, and the events they and the timers arrive with.               *)
(***************************************************************************)
Message ==
    [id : {"data", "ack", "ping"}, seqNo : Nat, reply : BOOLEAN, bitError : BOOLEAN,
     srcNode : Int, srcAppl : Int, destNode : Int, destAppl : Int, lastNode : Int, TTL : Int]

Notice == NetworkPacket("linkchange", 0, Nobody, RoutingDaemon)

\* Where a stack sends a message.
Passed(to, msg) ==
    \/ \E l \in Link : to = <<"queue", l[1], l[2]>> /\ msg \in Message
    \/ \E n \in Node, a \in Int :
          to = <<"appl", n, a>> /\ (msg \in Message \/ a = RoutingDaemon)

ToTheStack(to, msg) ==
    \E n \in Node, a \in Int :
        to = <<"stack", n, a>> /\ (msg \in Message \/ (a = Local /\ msg = Notice))

ATimer(to) == to \in {timer0, timer1} \cup {<<"pingtimer", n>> : n \in Node}

EventOK(e) ==
    /\ e.time \in Int /\ e.prio \in Int
    /\ \/ \E l \in Link : e.to = timeout(l) /\ e.prio = INT_MIN
       \/ /\ ATimer(e.to) \/ Passed(e.to, e.msg) \/ ToTheStack(e.to, e.msg)
          /\ e.prio > INT_MIN

\* The module an event is for tells what it is.
LEMMA Kinds ==
    ASSUME NEW e, EventOK(e)
    PROVE  /\ e.to[1] = "timeout" =>
                 \E l \in Link : e.to = timeout(l) /\ l = <<e.to[2], e.to[3]>> /\ e.prio = INT_MIN
           /\ e.to[1] # "timeout" => e.prio > INT_MIN /\ \A l \in Link : e.to # timeout(l)
           /\ e.to[1] = "timer0" => e.to = timer0
           /\ e.to[1] = "timer1" => e.to = timer1
           /\ e.to[1] = "pingtimer" => e.to[2] \in Node /\ e.to = <<"pingtimer", e.to[2]>>
           /\ e.to[1] = "queue" => <<e.to[2], e.to[3]>> \in Link /\ e.msg \in Message
           /\ e.to[1] = "appl" => /\ e.to[2] \in Node
                                  /\ e.msg \in Message \/ e.to[3] = RoutingDaemon
           /\ e.to[1] = "stack" => /\ e.to[2] \in Node
                                   /\ e.msg \in Message \/ (e.to[3] = Local /\ e.msg = Notice)
<1>1. CASE \E l \in Link : e.to = timeout(l) /\ e.prio = INT_MIN
  <2>1. PICK l \in Link : e.to = timeout(l) /\ e.prio = INT_MIN
    BY <1>1
  <2>2. e.to[1] = "timeout" /\ e.to[2] = l[1] /\ e.to[3] = l[2] /\ l = <<l[1], l[2]>>
    BY <2>1 DEF timeout, Link
  <2> QED
    BY <2>1, <2>2
<1>2. CASE ATimer(e.to) /\ e.prio > INT_MIN
  <2>1. \/ e.to = timer0 /\ e.to[1] = "timer0"
        \/ e.to = timer1 /\ e.to[1] = "timer1"
        \/ e.to[1] = "pingtimer" /\ e.to[2] \in Node /\ e.to = <<"pingtimer", e.to[2]>>
    BY <1>2 DEF ATimer, timer0, timer1
  <2>2. \A l \in Link : timeout(l)[1] = "timeout"
    BY DEF timeout
  <2> QED
    BY <1>2, <2>1, <2>2
<1>3. CASE Passed(e.to, e.msg) /\ e.prio > INT_MIN
  <2>1. \/ e.to[1] = "queue" /\ <<e.to[2], e.to[3]>> \in Link /\ e.msg \in Message
        \/ /\ e.to[1] = "appl" /\ e.to[2] \in Node
           /\ e.msg \in Message \/ e.to[3] = RoutingDaemon
    <3>1. \A l \in Link : l = <<l[1], l[2]>>
      BY DEF Link
    <3> QED
      BY <1>3, <3>1 DEF Passed
  <2>2. \A l \in Link : timeout(l)[1] = "timeout"
    BY DEF timeout
  <2> QED
    BY <1>3, <2>1, <2>2
<1>4. CASE ToTheStack(e.to, e.msg) /\ e.prio > INT_MIN
  <2>1. /\ e.to[1] = "stack" /\ e.to[2] \in Node
        /\ e.msg \in Message \/ (e.to[3] = Local /\ e.msg = Notice)
    BY <1>4 DEF ToTheStack
  <2>2. \A l \in Link : timeout(l)[1] = "timeout"
    BY DEF timeout
  <2> QED
    BY <1>4, <2>1, <2>2
<1> QED
  BY <1>1, <1>2, <1>3, <1>4 DEF EventOK

LEMMA PacketType ==
    ASSUME NEW id \in {"data", "ack", "ping"}, NEW s \in Nat, NEW d \in Int, NEW a \in Int
    PROVE  NetworkPacket(id, s, d, a) \in Message
BY DEF NetworkPacket, Message, Nobody

\* Leaving out an element of a sequence.
LEMMA Removed ==
    ASSUME NEW S, NEW s \in Seq(S), NEW x
    PROVE  RemoveFirst(s, x) \in Seq(ToSet(s))
<1> DEFINE n == Len(s)
           I == {i \in 1 .. n : s[i] = x}
<1>1. n \in Nat /\ DOMAIN s = 1 .. n /\ s \in Seq(ToSet(s))
  BY IndexInSet, IsASeq
<1>2. CASE I = {}
  BY <1>1, <1>2 DEF RemoveFirst
<1>3. CASE I # {}
  <2> DEFINE k == Min(I)
  <2> HIDE DEF k
  <2>5. I \subseteq Nat
    BY <1>1
  <2>1. PICK m \in I : \A i \in I : m =< i
    BY <1>3, <2>5, Smallest
  <2>2. k \in I
    BY <2>1 DEF Min, k
  <2>3. RemoveFirst(s, x) = SubSeq(s, 1, k - 1) \o SubSeq(s, k + 1, n)
    BY <1>3 DEF RemoveFirst, RemoveAt, SelectInSeq, k
  <2>4. k \in 1 .. n
    BY <2>2
  <2>6. /\ 1 \in Int /\ k - 1 \in Int /\ \A i \in 1 .. k - 1 : s[i] \in ToSet(s)
        /\ k + 1 \in Int /\ n \in Int /\ \A i \in k + 1 .. n : s[i] \in ToSet(s)
    BY <1>1, <2>4, IndexInSet
  <2>7. SubSeq(s, 1, k - 1) \in Seq(ToSet(s)) /\ SubSeq(s, k + 1, n) \in Seq(ToSet(s))
    BY <2>6, SubSeqProperties
  <2> QED
    BY <2>3, <2>7, ConcatProperties
<1> QED
  BY <1>2, <1>3

\* What modules change in the messages they pass on.
LEMMA MessageKept ==
    ASSUME NEW p \in Message, NEW n \in Int, NEW a \in Int, NEW b \in BOOLEAN
    PROVE  /\ [p EXCEPT !.srcNode = n, !.srcAppl = a, !.TTL = 0] \in Message
           /\ [p EXCEPT !.destNode = Nobody, !.destAppl = Nobody] \in Message
           /\ [p EXCEPT !.lastNode = n, !.TTL = @ + 1] \in Message
           /\ [p EXCEPT !.destNode = p.srcNode, !.destAppl = p.srcAppl, !.reply = TRUE] \in Message
           /\ [p EXCEPT !.bitError = b] \in Message
<1>1. Nobody \in Int /\ 0 \in Int /\ p.TTL + 1 \in Int /\ TRUE \in BOOLEAN
  BY DEF Nobody, Message
<1> HIDE DEF Nobody
<1>2. [p EXCEPT !.srcNode = n, !.srcAppl = a, !.TTL = 0] \in Message
  BY <1>1 DEF Message
<1>3. [p EXCEPT !.destNode = Nobody, !.destAppl = Nobody] \in Message
  BY <1>1 DEF Message
<1>4. [p EXCEPT !.lastNode = n, !.TTL = p.TTL + 1] \in Message
  BY <1>1 DEF Message
<1>5. [p EXCEPT !.destNode = p.srcNode, !.destAppl = p.srcAppl, !.reply = TRUE] \in Message
  BY <1>1 DEF Message
<1>6. [p EXCEPT !.bitError = b] \in Message
  BY <1>1 DEF Message
<1> QED
  BY <1>2, <1>3, <1>4, <1>5, <1>6

(***************************************************************************)
(* A stack passes messages on to its links and applications.               *)
(***************************************************************************)
LEMMA StackPasses ==
    ASSUME NEW n \in Node, NEW from \in Int, NEW p, p \in Message \/ (from = Local /\ p = Notice),
           NEW table, RoutesOK(table, n)
    PROVE  LET out == handleMessage(n, from, p, table).out IN
           out \in Seq(ToSet(out)) /\ \A o \in ToSet(out) : Passed(o.to, o.msg)
<1> DEFINE out == handleMessage(n, from, p, table).out
           q == Originated(n, from, p)
           Good(s) == s \in Seq(ToSet(s)) /\ \A o \in ToSet(s) : Passed(o.to, o.msg)
<1> SUFFICES Good(out)
  OBVIOUS
<1>0. Good(<<>>)
  BY DEF ToSet
<1>6. \A why : Dropped(why).out = <<>>
  BY DEF Dropped
<1>1. ASSUME NEW o, Passed(o.to, o.msg) PROVE Good(<<o>>)
  <2>1. ToSet(<<o>>) = {o}
    BY DEF ToSet
  <2> QED
    BY <1>1, <2>1
<1>2. n \in Nat /\ n \in Int
  BY NodesAssumption
<1>3. q \in Message \/ (from = Local /\ q = Notice)
  BY <1>2, MessageKept DEF Originated
<1>4. CASE from = Local \/ p.destNode = n
  <2>1. out = deliverLocally(n, q).out
    BY <1>4 DEF handleMessage
  <2>2. CASE q.destAppl \notin appls[n]
    BY <1>0, <2>1, <2>2 DEF deliverLocally, Dropped
  <2>3. CASE q.destAppl \in appls[n]
    <3> DEFINE m == IF q.destNode = n THEN [q EXCEPT !.destNode = Nobody, !.destAppl = Nobody] ELSE q
               o == [to |-> <<"appl", n, q.destAppl>>, msg |-> m]
    <3>1. out = <<o>>
      BY <2>1, <2>3 DEF deliverLocally, Sent
    <3>2. q \in Message => m \in Message /\ q.destAppl \in Int
      <4> HIDE DEF q, out
      <4>1. q \in Message => q.destAppl \in Int
        BY DEF Message
      <4> QED
        BY <4>1, MessageKept
    <3>3. q = Notice => q.destAppl = RoutingDaemon
      BY DEF Notice, NetworkPacket
    <3>4. RoutingDaemon \in Int
      BY DEF RoutingDaemon
    <3>5. o.to = <<"appl", n, q.destAppl>> /\ o.msg = m
      OBVIOUS
    <3> HIDE DEF o, m, q, out
    <3>6. Passed(o.to, o.msg)
      BY <1>3, <3>2, <3>3, <3>4, <3>5 DEF Passed
    <3> QED
      BY <1>1, <3>1, <3>6
  <2> QED
    BY <2>2, <2>3
<1>5. CASE ~(from = Local \/ p.destNode = n)
  <2>1. out = sendOut(n, q, table).out /\ q \in Message
    BY <1>3, <1>5 DEF handleMessage
  <2> DEFINE copy == [q EXCEPT !.lastNode = n, !.TTL = @ + 1]
  <2>2. copy \in Message
    <3> HIDE DEF q, out
    <3> QED
      BY <1>2, <2>1, MessageKept
  <2>3. ASSUME NEW m \in Node, <<n, m>> \in Link
        PROVE  Passed(<<"queue", n, m>>, copy)
    <3> DEFINE l == <<n, m>>
    <3>1. l[1] = n /\ l[2] = m /\ l \in Link
      BY <2>3
    <3> HIDE DEF l, copy
    <3> QED
      BY <2>2, <3>1 DEF Passed
  <2>4. CASE sendOut(n, q, table) \in {Dropped("TTL"), Dropped("no destination")}
    <3> HIDE DEF q, out
    <3>1. out = <<>>
      BY <2>1, <2>4, <1>6
    <3> QED
      BY <1>0, <3>1
  <2>5. CASE sendOut(n, q, table) = Forward(n, q, lookup(table, q.destNode))
    <3> DEFINE hop == lookup(table, q.destNode)
               o == [to |-> <<"queue", n, hop>>, msg |-> copy]
    <3>1. hop = NoRoute \/ (hop \in Node /\ <<n, hop>> \in Link)
      BY DEF lookup, RoutesOK, Hops
    <3>2. CASE hop = NoRoute
      <4> HIDE DEF q, out
      <4>1. sendOut(n, q, table) = Dropped("no route")
        BY <2>5, <3>2 DEF Forward
      <4>2. out = <<>>
        BY <2>1, <4>1, <1>6
      <4> QED
        BY <1>0, <4>2
    <3>3. CASE hop # NoRoute
      <4>1. out = <<o>>
        BY <2>1, <2>5, <3>3 DEF Forward, Sent
      <4>2. Passed(o.to, o.msg)
        BY <2>3, <3>1, <3>3
      <4> HIDE DEF o, out
      <4> QED
        BY <1>1, <4>1, <4>2
    <3> QED
      BY <3>2, <3>3
  <2>6. CASE sendOut(n, q, table) = Broadcast(n, q)
    <3> DEFINE targets == IF q.destNode = ToAll THEN netOut[n] ELSE RemoveFirst(netOut[n], q.lastNode)
               outs == [i \in DOMAIN targets |-> [to |-> <<"queue", n, targets[i]>>, msg |-> copy]]
    <3>1. targets \in Seq(ToSet(netOut[n]))
      BY NodesAssumption, Removed DEF ToSet
    <3>2. out = outs
      BY <2>1, <2>6 DEF Broadcast, Sent
    <3>3. ASSUME NEW m \in ToSet(netOut[n]) PROVE m \in Node /\ <<n, m>> \in Link
      <4>1. PICK i \in DOMAIN netOut[n] : netOut[n][i] = m
        BY SetIndex
      <4>2. m \in Node /\ m \in Range(netOut[n])
        BY <4>1, NodesAssumption DEF Range
      <4> QED
        BY <4>2 DEF Link
    <3> HIDE DEF targets
    <3>4. ASSUME NEW i \in DOMAIN outs PROVE Passed(outs[i].to, outs[i].msg)
      <4>1. targets[i] \in ToSet(netOut[n])
        BY <3>1
      <4>2. outs[i].to = <<"queue", n, targets[i]>> /\ outs[i].msg = copy
        OBVIOUS
      <4> HIDE DEF copy
      <4> QED
        BY <2>3, <3>3, <4>1, <4>2
    <3>5. outs \in Seq(ToSet(outs))
      <4>1. DOMAIN outs = 1 .. Len(targets) /\ Len(targets) \in Nat
        BY <3>1
      <4> HIDE DEF outs
      <4>2. \A i \in 1 .. Len(targets) : outs[i] \in ToSet(outs)
        BY <4>1, IndexInSet
      <4>3. outs = [i \in 1 .. Len(targets) |-> outs[i]]
        BY <4>1 DEF outs
      <4> QED
        BY <4>1, <4>2, <4>3, IsASeq
    <3> HIDE DEF outs
    <3>6. \A o \in ToSet(outs) : Passed(o.to, o.msg)
      BY <3>4, SetIndex
    <3> QED
      BY <3>2, <3>5, <3>6
  <2>7. \/ sendOut(n, q, table) \in {Dropped("TTL"), Dropped("no destination")}
        \/ sendOut(n, q, table) = Forward(n, q, lookup(table, q.destNode))
        \/ sendOut(n, q, table) = Broadcast(n, q)
    <3>1. q.TTL \in Int /\ maxTTL \in Int
      BY <2>1, NodesAssumption DEF Message
    <3> HIDE DEF q, out
    <3>2. \/ q.TTL >= maxTTL
          \/ q.TTL < maxTTL /\ q.destNode = Nobody
          \/ q.TTL < maxTTL /\ q.destNode \in {ToAll, ToAllButLast}
          \/ q.TTL < maxTTL /\ q.destNode \notin {Nobody, ToAll, ToAllButLast}
      BY <3>1
    <3>3. CASE q.TTL >= maxTTL
      <4>1. ~(q.TTL < maxTTL)
        BY <3>1, <3>3
      <4>2. sendOut(n, q, table) = Dropped("TTL")
        BY <3>3, <4>1 DEF sendOut
      <4> QED
        BY <4>2
    <3>4. CASE q.TTL < maxTTL /\ q.destNode = Nobody
      BY <3>1, <3>4 DEF sendOut, Nobody, ToAll, ToAllButLast
    <3>5. CASE q.TTL < maxTTL /\ q.destNode \in {ToAll, ToAllButLast}
      <4>1. ~(q.TTL >= maxTTL) /\ q.destNode # Nobody
        BY <3>1, <3>5 DEF Nobody, ToAll, ToAllButLast
      <4>2. sendOut(n, q, table) = Broadcast(n, q)
        BY <3>5, <4>1 DEF sendOut
      <4> QED
        BY <4>2
    <3>6. CASE q.TTL < maxTTL /\ q.destNode \notin {Nobody, ToAll, ToAllButLast}
      BY <3>1, <3>6 DEF sendOut
    <3> QED
      BY <3>2, <3>3, <3>4, <3>5, <3>6
  <2> QED
    BY <2>4, <2>5, <2>6, <2>7
<1> QED
  BY <1>4, <1>5

----------------------------------------------------------------------------
(***************************************************************************)
(* The interface queues: their type, and what their handlers do with the   *)
(* messages that wait.                                                     *)
(***************************************************************************)
Weighted == [sum : Int, weight : Int]

Report == [batch : Nat, linkUtilization : Weighted, queueLength : Weighted, samples : Nat]

QueueType ==
    [queue : Seq(Message), transientOver : BOOLEAN, batchNum : Nat,
     lastUtilChange : Int, lastQueueChange : Int,
     linkUtilization : Weighted, queueLength : Weighted,
     samples : Nat, dropped : Nat, report : Report \cup {Q!NoReport}]

LEMMA WeightedType ==
    ASSUME NEW w \in Weighted, NEW v \in Int, NEW d \in Int
    PROVE  Q!collect2(w, v, d) \in Weighted
<1>1. w.sum \in Int /\ w.weight \in Int /\ v * d \in Int
  BY DEF Weighted
<1> QED
  BY <1>1 DEF Weighted, Q!collect2

LEMMA NewQueueType ==
    ASSUME NEW p, p.transientRemoval \in Int PROVE Q!NewQueue(p) \in QueueType
<1>1. Q!NoWeight \in Weighted /\ (p.transientRemoval =< 0) \in BOOLEAN
  BY DEF Q!NoWeight, Weighted
<1> QED
  BY <1>1 DEF Q!NewQueue, QueueType

LEMMA CollectType ==
    ASSUME NEW q \in QueueType, NEW v \in Int, NEW t \in Int
    PROVE  /\ Q!CollectUtil(q, v, t) \in QueueType /\ Q!CollectUtil(q, v, t).queue = q.queue
           /\ Q!CollectLength(q, t) \in QueueType /\ Q!CollectLength(q, t).queue = q.queue
<1> DEFINE w == Q!collect2(q.linkUtilization, v, t - q.lastUtilChange)
           x == Q!collect2(q.queueLength, Len(q.queue), t - q.lastQueueChange)
<1>1. w \in Weighted /\ x \in Weighted
  BY WeightedType DEF QueueType
<1> HIDE DEF w, x
<1>2. /\ [q EXCEPT !.linkUtilization = w, !.lastUtilChange = t] \in QueueType
      /\ [q EXCEPT !.linkUtilization = w, !.lastUtilChange = t].queue = q.queue
  BY <1>1 DEF QueueType
<1>3. /\ [q EXCEPT !.queueLength = x, !.lastQueueChange = t] \in QueueType
      /\ [q EXCEPT !.queueLength = x, !.lastQueueChange = t].queue = q.queue
  BY <1>1 DEF QueueType
<1> QED
  BY <1>2, <1>3 DEF Q!CollectUtil, Q!CollectLength, w, x

LEMMA ResetType ==
    ASSUME NEW q \in QueueType, NEW t \in Int
    PROVE  Q!resetStatistics(q, t) \in QueueType /\ Q!resetStatistics(q, t).queue = q.queue
<1> DEFINE z == Q!NoWeight
<1>1. z \in Weighted
  BY DEF Q!NoWeight, Weighted
<1> HIDE DEF z
<1>2. LET r == [q EXCEPT !.lastUtilChange = t, !.lastQueueChange = t, !.linkUtilization = z,
                         !.queueLength = z, !.samples = 0, !.dropped = 0]
      IN  r \in QueueType /\ r.queue = q.queue
  BY <1>1 DEF QueueType
<1> QED
  BY <1>2 DEF Q!resetStatistics, z

LEMMA RecordType ==
    ASSUME NEW q \in QueueType, NEW t \in Int, NEW end
    PROVE  Q!recordStatistics(q, t, end) \in QueueType /\ Q!recordStatistics(q, t, end).queue = q.queue
<1> DEFINE v == IF end < t THEN 0 ELSE 1
           u == Q!CollectUtil(q, v, t)
           r == Q!CollectLength(u, t)
           report == [batch |-> q.batchNum, linkUtilization |-> r.linkUtilization,
                      queueLength |-> r.queueLength, samples |-> r.samples]
<1>1. v \in Int
  OBVIOUS
<1> HIDE DEF v
<1>2. u \in QueueType /\ u.queue = q.queue
  BY <1>1, CollectType
<1> HIDE DEF u
<1>3. r \in QueueType /\ r.queue = q.queue
  BY <1>1, <1>2, CollectType
<1> HIDE DEF r
<1>4. report \in Report
  BY <1>3 DEF QueueType, Report
<1> HIDE DEF report
<1>5. [r EXCEPT !.report = report] \in QueueType /\ [r EXCEPT !.report = report].queue = q.queue
  BY <1>3, <1>4 DEF QueueType
<1> QED
  BY <1>5 DEF Q!recordStatistics, u, v, r, report

LEMMA DetectType ==
    ASSUME NEW q \in QueueType, NEW p, NEW t \in Int, NEW end
    PROVE  Q!detect(q, p, t, end) \in QueueType /\ Q!detect(q, p, t, end).queue = q.queue
<1> DEFINE r == Q!detectTransient(q, p, t)
           b == Q!detectBatch(r, p, t, end)
<1>1. r \in QueueType /\ r.queue = q.queue
  <2> DEFINE s == Q!resetStatistics(q, t)
  <2>1. s \in QueueType /\ s.queue = q.queue
    BY ResetType
  <2> HIDE DEF s
  <2>2. [s EXCEPT !.transientOver = TRUE] \in QueueType /\ [s EXCEPT !.transientOver = TRUE].queue = q.queue
    BY <2>1 DEF QueueType
  <2>3. r = [s EXCEPT !.transientOver = TRUE] \/ r = q
    BY DEF Q!detectTransient, s
  <2> HIDE DEF r
  <2> QED
    BY <2>2, <2>3
<1> HIDE DEF r
<1>2. b \in QueueType /\ b.queue = q.queue
  <2> DEFINE w == Q!recordStatistics(r, t, end)
             s == Q!resetStatistics(w, t)
  <2>1. w \in QueueType /\ w.queue = q.queue
    BY <1>1, RecordType
  <2> HIDE DEF w
  <2>2. s \in QueueType /\ s.queue = q.queue
    BY <2>1, ResetType
  <2> HIDE DEF s
  <2>3. [s EXCEPT !.batchNum = @ + 1] \in QueueType /\ [s EXCEPT !.batchNum = @ + 1].queue = q.queue
    <3> DEFINE n == s.batchNum + 1
    <3>1. n \in Nat
      BY <2>2 DEF QueueType
    <3> HIDE DEF n
    <3>2. [s EXCEPT !.batchNum = n] \in QueueType /\ [s EXCEPT !.batchNum = n].queue = q.queue
      BY <2>2, <3>1 DEF QueueType
    <3> QED
      BY <3>2 DEF n
  <2>4. b = [s EXCEPT !.batchNum = @ + 1] \/ b = r
    BY DEF Q!detectBatch, s, w
  <2> HIDE DEF b
  <2> QED
    BY <1>1, <2>3, <2>4
<1> QED
  BY <1>2 DEF Q!detect, r

LEMMA SampleType ==
    ASSUME NEW q \in QueueType PROVE Q!Sample(q) \in QueueType /\ Q!Sample(q).queue = q.queue
BY DEF Q!Sample, QueueType

LEMMA OnMessageDoes ==
    ASSUME NEW q \in QueueType, NEW p, NEW t \in Int, NEW end, NEW msg \in Message
    PROVE  LET r == Q!OnMessage(q, p, t, end, msg) IN
           /\ r.q \in QueueType
           /\ \/ q.queue = <<>> /\ end =< t /\ r.q.queue = <<>> /\ r.send = <<msg>>
              \/ /\ q.queue # <<>> \/ ~(end =< t)
                 /\ r.send = <<>>
                 /\ \/ r.q.queue = q.queue
                    \/ r.q.queue = Append(q.queue, msg) /\ Len(q.queue) < p.maxQueueLength
<1> DEFINE r == Q!OnMessage(q, p, t, end, msg)
<1>1. CASE q.queue = <<>> /\ end =< t
  <2> DEFINE c == Q!CollectUtil(q, 0, t)
             s == Q!Sample(c)
             d == Q!detect(s, p, t, end)
  <2>1. c \in QueueType /\ c.queue = <<>>
    BY <1>1, CollectType
  <2> HIDE DEF c
  <2>2. s \in QueueType /\ s.queue = <<>>
    BY <2>1, SampleType
  <2> HIDE DEF s
  <2>3. d \in QueueType /\ d.queue = <<>>
    BY <2>2, DetectType
  <2> HIDE DEF d
  <2>4. r = [q |-> d, send |-> <<msg>>]
    BY <1>1 DEF Q!OnMessage, Q!SendAtOnce, c, s, d
  <2> HIDE DEF r
  <2>5. r.q = d /\ r.send = <<msg>>
    BY <2>4
  <2> QED
    BY <1>1, <2>3, <2>5 DEF r
<1>2. CASE ~(q.queue = <<>> /\ end =< t) /\ Q!HasRoom(q, p)
  <2> DEFINE c == Q!CollectLength(q, t)
             s == [c EXCEPT !.queue = Append(@, msg)]
  <2>1. c \in QueueType /\ c.queue = q.queue
    BY CollectType
  <2> HIDE DEF c
  <2>2. s \in QueueType /\ s.queue = Append(q.queue, msg)
    <3> DEFINE z == Append(c.queue, msg)
    <3>1. q.queue \in Seq(Message)
      BY DEF QueueType
    <3>2. z \in Seq(Message) /\ z = Append(q.queue, msg)
      BY <2>1, <3>1
    <3> HIDE DEF z
    <3>3. [c EXCEPT !.queue = z] \in QueueType /\ [c EXCEPT !.queue = z].queue = z
      BY <2>1, <3>2 DEF QueueType
    <3> QED
      BY <3>2, <3>3 DEF z
  <2> HIDE DEF s
  <2>3. r = [q |-> s, send |-> <<>>]
    BY <1>2 DEF Q!OnMessage, Q!Insert, c, s
  <2> HIDE DEF r
  <2>4. r.q = s /\ r.send = <<>> /\ Len(q.queue) < p.maxQueueLength
    BY <1>2, <2>3 DEF Q!HasRoom
  <2> QED
    BY <1>2, <2>2, <2>4 DEF r
<1>3. CASE ~(q.queue = <<>> /\ end =< t) /\ ~Q!HasRoom(q, p)
  <2> DEFINE s == [q EXCEPT !.dropped = @ + 1]
  <2>1. s \in QueueType /\ s.queue = q.queue
    BY DEF QueueType
  <2> HIDE DEF s
  <2>2. r = [q |-> s, send |-> <<>>]
    BY <1>3 DEF Q!OnMessage, s
  <2> HIDE DEF r
  <2>3. r.q = s /\ r.send = <<>>
    BY <2>2
  <2> QED
    BY <1>3, <2>1, <2>3 DEF r
<1> QED
  BY <1>1, <1>2, <1>3

LEMMA OnTimeoutDoes ==
    ASSUME NEW q \in QueueType, NEW p, NEW t \in Int, NEW end
    PROVE  LET r == Q!OnTimeout(q, p, t, end) IN
           /\ r.q \in QueueType
           /\ \/ q.queue # <<>> /\ r.q.queue = Tail(q.queue) /\ r.send = <<Head(q.queue)>>
              \/ q.queue = <<>> /\ r.q.queue = <<>> /\ r.send = <<>>
<1> DEFINE r == Q!OnTimeout(q, p, t, end)
<1>1. CASE q.queue # <<>>
  <2> DEFINE c == Q!CollectLength(q, t)
             e == [c EXCEPT !.queue = Tail(@)]
             s == Q!Sample(e)
             d == Q!detect(s, p, t, end)
  <2>1. c \in QueueType /\ c.queue = q.queue
    BY CollectType
  <2> HIDE DEF c
  <2>2. e \in QueueType /\ e.queue = Tail(q.queue)
    <3> DEFINE z == Tail(c.queue)
    <3>1. q.queue \in Seq(Message)
      BY DEF QueueType
    <3>2. z \in Seq(Message) /\ z = Tail(q.queue)
      BY <1>1, <2>1, <3>1
    <3> HIDE DEF z
    <3>3. [c EXCEPT !.queue = z] \in QueueType /\ [c EXCEPT !.queue = z].queue = z
      BY <2>1, <3>2 DEF QueueType
    <3> QED
      BY <3>2, <3>3 DEF z
  <2> HIDE DEF e
  <2>3. s \in QueueType /\ s.queue = Tail(q.queue)
    BY <2>2, SampleType
  <2> HIDE DEF s
  <2>4. d \in QueueType /\ d.queue = Tail(q.queue)
    BY <2>3, DetectType
  <2> HIDE DEF d
  <2>5. r = [q |-> d, send |-> <<Head(q.queue)>>]
    BY <1>1 DEF Q!OnTimeout, Q!SendFirst, c, e, s, d
  <2> HIDE DEF r
  <2>6. r.q = d /\ r.send = <<Head(q.queue)>>
    BY <2>5
  <2> QED
    BY <1>1, <2>4, <2>6 DEF r
<1>2. CASE q.queue = <<>>
  <2> DEFINE c == Q!CollectUtil(q, 1, t)
  <2>1. c \in QueueType /\ c.queue = <<>>
    BY <1>2, CollectType
  <2> HIDE DEF c
  <2>2. r = [q |-> c, send |-> <<>>]
    BY <1>2 DEF Q!OnTimeout, Q!Idle, c
  <2> HIDE DEF r
  <2>3. r.q = c /\ r.send = <<>>
    BY <2>2
  <2> QED
    BY <1>2, <2>1, <2>3 DEF r
<1> QED
  BY <1>1, <1>2

----------------------------------------------------------------------------
(***************************************************************************)
(* The invariant of the simulation.  All events of the list are known, and *)
(* at any time a link's timeout is scheduled once at most, for the end of  *)
(* the transmission, and it is while the link sends or messages wait.      *)
(***************************************************************************)
ListOK(s) == IsList(s) /\ \A e \in ToSet(s) : EventOK(e)

Later(s, t) == \A e \in ToSet(s) : e.time >= t

TimeoutOK(s, l, end, waiting, t) ==
    /\ Once(s, timeout(l))
    /\ \A e \in ToSet(s) : e.to = timeout(l) => e.time = end
    /\ end > t \/ waiting # <<>> => isScheduled(s, timeout(l))

Buffer == UNION {[D -> Int] : D \in SUBSET Nat}
SenderType == [lastAckSeqNo : Nat, nextSendSeqNo : Nat, nextSendTime : Int,
               timerExpiration : Int, packetBuffer : Buffer]
PingType == [lastSentSeqNo : Nat \cup {-1}, sent : Int, received : Int, nextSend : Int]

LinksOK ==
    /\ queue \in [Link -> QueueType]
    /\ finishes \in [Link -> Int]
    /\ \A l \in Link : /\ Len(queue[l].queue) =< par.maxQueueLength
                       /\ TimeoutOK(fes, l, finishes[l], queue[l].queue, now)

TimeOK ==
    /\ par \in Parameters
    /\ now \in 0 .. par.limit
    /\ ListOK(fes)
    /\ ~aborted => Later(fes, now)

NodesOK ==
    /\ faults \in 0 .. par.faults /\ changes \in 0 .. par.changes
    /\ \A n \in Node : RoutesOK(routes[n], n)
    /\ snd \in SenderType
    /\ rcv \in [lastReceivedSeqNo : Nat \cup {-1}]
    /\ ping \in [Node -> PingType]
    /\ \A n \in Node \ Pingers : ping[n].nextSend = Never

SimInv == TimeOK /\ LinksOK /\ NodesOK

LEMMA ParametersType ==
    ASSUME NEW p \in Parameters
    PROVE  /\ p.limit \in Nat /\ p.window \in Nat /\ p.timeout \in Nat /\ p.interval \in Nat
           /\ p.maxQueueLength \in Nat /\ p.faults \in Nat /\ p.changes \in Nat
           /\ p.pingStart \in Nat /\ p.pingInterval \in Nat
           /\ p.limit + p.timeout < Never /\ p.limit + p.interval < Never /\ p.limit < Never
           /\ p.transientRemoval \in Int /\ p.batchLength \in Int
<1>1. /\ p.limit \in Nat /\ p.window \in Nat /\ p.timeout \in Nat /\ p.interval \in Nat
      /\ p.maxQueueLength \in Nat /\ p.faults \in Nat /\ p.changes \in Nat
      /\ p.pingStart \in Nat /\ p.pingInterval \in Nat
      /\ p.transientRemoval \in Int /\ p.batchLength \in Int
  BY ParametersAssumption
<1>2. p.limit + p.timeout < Never /\ p.limit + p.interval < Never
  BY ParametersAssumption
<1>3. p.limit < Never
  BY <1>1, <1>2 DEF Never
<1> QED
  BY <1>1, <1>2, <1>3

\* The event that is handled next, and the others.
LEMMA NextEvent ==
    ASSUME TimeOK, ~aborted, fes # <<>>
    PROVE  /\ EventOK(Head(fes)) /\ Head(fes).time \in Int /\ Head(fes).time >= now
           /\ ListOK(Tail(fes)) /\ Later(Tail(fes), Head(fes).time)
           /\ ToSet(fes) = {Head(fes)} \cup ToSet(Tail(fes))
           /\ \A f \in ToSet(Tail(fes)) : NotAfter(Head(fes), f)
           /\ \A to : Once(fes, to) => Once(Tail(fes), to)
           /\ Once(fes, Head(fes).to) => ~isScheduled(Tail(fes), Head(fes).to)
<1> DEFINE h == Head(fes)  s == Tail(fes)
<1>1. /\ IsList(s) /\ ToSet(fes) = {h} \cup ToSet(s)
      /\ \A e \in ToSet(fes) : NotAfter(h, e)
      /\ \A to : Once(fes, to) => Once(s, to)
      /\ Once(fes, h.to) => ~isScheduled(s, h.to)
  BY TakeNext DEF TimeOK, ListOK
<1> HIDE DEF h, s
<1>2. EventOK(h) /\ h.time >= now /\ h.time \in Int
  BY <1>1 DEF TimeOK, ListOK, Later, EventOK
<1>3. ListOK(s)
  BY <1>1 DEF TimeOK, ListOK
<1>4. Later(s, h.time)
  <2> SUFFICES ASSUME NEW e \in ToSet(s) PROVE e.time >= h.time
    BY DEF Later
  <2>1. NotAfter(h, e) /\ e.time \in Int
    BY <1>1, <1>3 DEF ListOK, EventOK
  <2> QED
    BY <1>2, <2>1 DEF NotAfter
<1> QED
  BY <1>1, <1>2, <1>3, <1>4 DEF h, s

(***************************************************************************)
(* Changes of the list that have nothing to do with the links' timeouts.   *)
(***************************************************************************)
SameTimeouts(new, s) ==
    /\ ListOK(new)
    /\ \A l \in Link : /\ Once(s, timeout(l)) => Once(new, timeout(l))
                       /\ \A e : e.to = timeout(l) => (e \in ToSet(new) <=> e \in ToSet(s))

\* The same for the timers of the sender.
Untimed(to) == to[1] \notin {"timer0", "timer1"}

SameTimers(new, s) ==
    \A to \in {timer0, timer1} :
        /\ Once(s, to) => Once(new, to)
        /\ \A e : e.to = to => (e \in ToSet(new) <=> e \in ToSet(s))

LEMMA TimersTransitive ==
    ASSUME NEW r, NEW s, NEW u, SameTimers(u, s), SameTimers(s, r) PROVE SameTimers(u, r)
BY DEF SameTimers

LEMMA NotATimer ==
    ASSUME NEW to, Untimed(to) PROVE to # timer0 /\ to # timer1
BY DEF Untimed, timer0, timer1

LEMMA SameTransitive ==
    ASSUME NEW r, NEW s, NEW u, SameTimeouts(u, s), SameTimeouts(s, r) PROVE SameTimeouts(u, r)
BY DEF SameTimeouts

LEMMA NotATimeout ==
    ASSUME NEW to, to[1] # "timeout", NEW l \in Link PROVE to # timeout(l)
BY DEF timeout

LEMMA ScheduleOther ==
    ASSUME NEW s, ListOK(s), NEW e, EventOK(e), e.to[1] # "timeout"
    PROVE  /\ SameTimeouts(scheduleAt(s, e), s)
           /\ ToSet(scheduleAt(s, e)) = ToSet(s) \cup {e}
           /\ Untimed(e.to) => SameTimers(scheduleAt(s, e), s)
<1> DEFINE new == scheduleAt(s, e)
<1>1. /\ IsList(new) /\ ToSet(new) = ToSet(s) \cup {e}
      /\ \A to : Once(s, to) /\ e.to # to => Once(new, to)
  BY ScheduleAt DEF ListOK, EventOK
<1> HIDE DEF new
<1>2. \A l \in Link : e.to # timeout(l)
  BY NotATimeout
<1>3. ListOK(new)
  BY <1>1 DEF ListOK
<1>4. Untimed(e.to) => SameTimers(new, s)
  BY <1>1, NotATimer DEF SameTimers
<1> QED
  BY <1>1, <1>2, <1>3, <1>4 DEF SameTimeouts, new

LEMMA CancelOther ==
    ASSUME NEW s, ListOK(s), NEW to, to[1] # "timeout"
    PROVE  /\ SameTimeouts(cancelEvent(s, to), s)
           /\ ToSet(cancelEvent(s, to)) \subseteq ToSet(s)
           /\ Untimed(to) => SameTimers(cancelEvent(s, to), s)
<1> DEFINE new == cancelEvent(s, to)
<1>1. /\ IsList(new)
      /\ ToSet(new) \subseteq ToSet(s)
      /\ \A e \in ToSet(s) : e.to # to => e \in ToSet(new)
      /\ \A x : Once(s, x) => Once(new, x)
  BY Cancelled DEF ListOK
<1> HIDE DEF new
<1>2. \A l \in Link : to # timeout(l)
  BY NotATimeout
<1>3. ListOK(new)
  BY <1>1 DEF ListOK
<1>4. Untimed(to) => SameTimers(new, s)
  BY <1>1, NotATimer DEF SameTimers
<1> QED
  BY <1>1, <1>2, <1>3, <1>4 DEF SameTimeouts, new

LEMMA TailSame ==
    ASSUME TimeOK, ~aborted, fes # <<>>, Head(fes).to[1] # "timeout"
    PROVE  SameTimeouts(Tail(fes), fes)
<1>1. /\ ListOK(Tail(fes)) /\ ToSet(fes) = {Head(fes)} \cup ToSet(Tail(fes))
      /\ \A to : Once(fes, to) => Once(Tail(fes), to)
  BY NextEvent
<1>2. \A l \in Link : Head(fes).to # timeout(l)
  BY NotATimeout
<1> QED
  BY <1>1, <1>2 DEF SameTimeouts

LEMMA TimeoutKept ==
    ASSUME NEW s, NEW new, SameTimeouts(new, s), NEW l \in Link, NEW end \in Int, NEW waiting,
           NEW t \in Int, NEW u \in Int, u >= t, TimeoutOK(s, l, end, waiting, t)
    PROVE  TimeoutOK(new, l, end, waiting, u)
<1>1. \A e : e.to = timeout(l) => (e \in ToSet(new) <=> e \in ToSet(s))
  BY DEF SameTimeouts
<1>2. isScheduled(new, timeout(l)) <=> isScheduled(s, timeout(l))
  BY <1>1, ScheduledSet
<1>3. end > u => end > t
  OBVIOUS
<1>4. Once(new, timeout(l))
  BY DEF SameTimeouts, TimeoutOK
<1> QED
  BY <1>1, <1>2, <1>3, <1>4 DEF TimeoutOK

\* Before it is the turn of anything else, no timeout of that time is left.
LEMMA TimeoutsAfter ==
    ASSUME TimeOK, ~aborted, fes # <<>>, Head(fes).to[1] # "timeout",
           NEW l \in Link, NEW e \in ToSet(fes), e.to = timeout(l)
    PROVE  e.time > Head(fes).time
<1> DEFINE h == Head(fes)
<1>1. /\ EventOK(h) /\ ListOK(Tail(fes))
      /\ ToSet(fes) = {h} \cup ToSet(Tail(fes))
      /\ \A f \in ToSet(Tail(fes)) : NotAfter(h, f)
  BY NextEvent
<1>2. h.to # timeout(l)
  BY NotATimeout
<1>3. e \in ToSet(Tail(fes)) /\ NotAfter(h, e)
  BY <1>1, <1>2
<1>4. EventOK(e)
  BY <1>1, <1>3 DEF ListOK
<1>5. h.prio > INT_MIN /\ h.prio \in Int /\ h.time \in Int
  BY <1>1, Kinds DEF EventOK
<1>6. e.prio = INT_MIN /\ e.time \in Int
  <2>1. timeout(l)[1] = "timeout"
    BY DEF timeout
  <2> QED
    BY <1>4, <2>1, Kinds DEF EventOK
<1> HIDE DEF h
<1>7. INT_MIN \in Int
  BY DEF INT_MIN
<1>8. e.time > h.time
  BY <1>3, <1>5, <1>6, <1>7 DEF NotAfter
<1> QED
  BY <1>8 DEF h

(***************************************************************************)
(* The events of the handlers.                                             *)
(***************************************************************************)
LEMMA StackEvent ==
    ASSUME NEW t \in Int, NEW n \in Node, NEW a \in Int, NEW p \in Message
    PROVE  LET e == ToStack(t, n, a, p) IN
           EventOK(e) /\ e.to[1] = "stack" /\ e.time = t
<1> DEFINE e == ToStack(t, n, a, p)
<1>1. e.time = t /\ e.prio = 0 /\ e.to = <<"stack", n, a>> /\ e.msg = p
  BY DEF ToStack, Event
<1> HIDE DEF e
<1>2. ToTheStack(e.to, e.msg)
  BY <1>1 DEF ToTheStack
<1>3. 0 > INT_MIN
  BY DEF INT_MIN
<1> QED
  BY <1>1, <1>2, <1>3 DEF EventOK, e

LEMMA TimerEvent ==
    ASSUME NEW t \in Int, NEW to, ATimer(to)
    PROVE  LET e == Event(t, 0, to, <<>>) IN
           EventOK(e) /\ e.to = to /\ to[1] \in {"timer0", "timer1", "pingtimer"} /\ e.time = t
<1> DEFINE e == Event(t, 0, to, <<>>)
<1>1. e.time = t /\ e.prio = 0 /\ e.to = to
  BY DEF Event
<1> HIDE DEF e
<1>2. 0 > INT_MIN
  BY DEF INT_MIN
<1>3. to[1] \in {"timer0", "timer1", "pingtimer"}
  BY DEF ATimer, timer0, timer1
<1> QED
  BY <1>1, <1>2, <1>3 DEF EventOK, e

LEMMA NoticeEvent ==
    ASSUME NEW t \in Int, NEW n \in Node
    PROVE  LET e == LinkChanged(t, n) IN
           EventOK(e) /\ e.to[1] = "stack" /\ e.time = t
<1> DEFINE e == LinkChanged(t, n)
<1>1. e.time = t /\ e.prio = -1 /\ e.to = <<"stack", n, Local>> /\ e.msg = Notice
  BY DEF LinkChanged, Event, Notice
<1> HIDE DEF e
<1>2. -1 > INT_MIN /\ Local \in Int
  BY DEF INT_MIN, Local
<1>3. ToTheStack(e.to, e.msg)
  BY <1>1, <1>2 DEF ToTheStack
<1> QED
  BY <1>1, <1>2, <1>3 DEF EventOK, e

LEMMA ArrivalEvent ==
    ASSUME NEW t \in Int, NEW l \in Link, NEW p \in Message
    PROVE  LET e == Event(t, 0, <<"stack", l[2], FromNet>>, p) IN
           EventOK(e) /\ e.to[1] = "stack" /\ e.time = t
<1>1. l[2] \in Node /\ FromNet \in Int
  BY DEF Link, FromNet
<1>2. Event(t, 0, <<"stack", l[2], FromNet>>, p) = ToStack(t, l[2], FromNet, p)
  BY DEF ToStack
<1> QED
  BY <1>1, <1>2, StackEvent

LEMMA LinkTimeoutEvent ==
    ASSUME NEW t \in Int, NEW l \in Link
    PROVE  LET e == TimeoutEvent(t, l) IN
           EventOK(e) /\ e.to = timeout(l) /\ e.time = t
<1> DEFINE e == TimeoutEvent(t, l)
<1>1. e.time = t /\ e.prio = INT_MIN /\ e.to = timeout(l)
  BY DEF TimeoutEvent, Event, timeout
<1> HIDE DEF e
<1>2. INT_MIN \in Int
  BY DEF INT_MIN
<1> QED
  BY <1>1, <1>2 DEF EventOK, e

LEMMA DifferentTimeouts ==
    ASSUME NEW k \in Link, NEW l \in Link, timeout(k) = timeout(l) PROVE k = l
BY DEF timeout, Link

LEMMA OtherStep ==
    ASSUME SimInv, now' \in Int, now' >= now, SameTimeouts(fes', fes),
           UNCHANGED <<par, queue, finishes>>
    PROVE  LinksOK'
<1>1. queue' \in [Link -> QueueType] /\ finishes' \in [Link -> Int]
  BY DEF SimInv, LinksOK
<1>2. now \in Int
  BY ParametersType DEF SimInv, TimeOK
<1>3. ASSUME NEW l \in Link
      PROVE  /\ Len(queue'[l].queue) =< par'.maxQueueLength
             /\ TimeoutOK(fes', l, finishes'[l], queue'[l].queue, now')
  <2>1. /\ Len(queue[l].queue) =< par.maxQueueLength
        /\ TimeoutOK(fes, l, finishes[l], queue[l].queue, now)
        /\ finishes[l] \in Int
    BY DEF SimInv, LinksOK
  <2> QED
    BY <1>2, <2>1, TimeoutKept
<1> QED
  BY <1>1, <1>3 DEF LinksOK

\* The handler of anything but a link's queue.
LEMMA NodeStep ==
    ASSUME SimInv, NEW kind, Arrives(kind), kind # "timeout", now' = Head(fes).time,
           UNCHANGED <<par, queue, finishes>>,
           SameTimeouts(fes', Tail(fes)), ~aborted' => Later(fes', Head(fes).time)
    PROVE  TimeOK' /\ LinksOK'
<1>1. ~aborted /\ fes # <<>> /\ Head(fes).time =< par.limit /\ Head(fes).to[1] # "timeout"
  BY DEF Arrives
<1>2. Head(fes).time \in Int /\ Head(fes).time >= now
  BY <1>1, NextEvent DEF SimInv
<1>3. SameTimeouts(Tail(fes), fes)
  BY <1>1, TailSame DEF SimInv
<1>4. SameTimeouts(fes', fes)
  BY <1>3, SameTransitive
<1>5. par \in Parameters /\ now \in 0 .. par.limit /\ par.limit \in Nat
  BY ParametersType DEF SimInv, TimeOK
<1>6. now' \in 0 .. par'.limit
  BY <1>1, <1>2, <1>5
<1>7. TimeOK'
  BY <1>4, <1>5, <1>6 DEF TimeOK, SameTimeouts
<1> QED
  BY <1>2, <1>4, <1>7, OtherStep

LEMMA AddLater ==
    ASSUME NEW s, NEW new, NEW e, NEW t, Later(s, t), e.time >= t, ToSet(new) = ToSet(s) \cup {e}
    PROVE  Later(new, t)
BY DEF Later

LEMMA LessLater ==
    ASSUME NEW s, NEW new, NEW t, Later(s, t), ToSet(new) \subseteq ToSet(s)
    PROVE  Later(new, t)
BY DEF Later

\* What a stack passes on has the time and the priority of the event it handles.
LEMMA StackSends ==
    ASSUME SimInv, StackHandles
    PROVE  LET h == Head(fes)
               s == Tail(fes)
               out == handleMessage(h.to[2], h.to[3], h.msg, routes[h.to[2]]).out
               sent == {Event(h.time, h.prio, o.to, o.msg) : o \in ToSet(out)}
           IN  /\ h.to[2] \in Node
               /\ h.msg \in Message \/ (h.to[3] = Local /\ h.msg = Notice)
               /\ IsList(fes') /\ ToSet(fes') = ToSet(s) \cup sent
               /\ \A to : Once(s, to) /\ (\A e \in sent : e.to # to) => Once(fes', to)
               /\ \A e \in sent :
                     /\ e.time = h.time /\ e.prio = h.prio /\ EventOK(e)
                     /\ e.to[1] # "timeout" /\ Untimed(e.to)
<1> DEFINE h == Head(fes)
           s == Tail(fes)
           out == handleMessage(h.to[2], h.to[3], h.msg, routes[h.to[2]]).out
           events == [i \in DOMAIN out |-> Event(h.time, h.prio, out[i].to, out[i].msg)]
           sent == {Event(h.time, h.prio, o.to, o.msg) : o \in ToSet(out)}
<1>1. Arrives("stack") /\ ~aborted /\ fes # <<>> /\ fes' = scheduleAll(s, events)
  BY DEF StackHandles, Arrives
<1>3. EventOK(h) /\ h.time \in Int /\ ListOK(s) /\ h.to[1] = "stack"
  BY <1>1, NextEvent DEF SimInv, Arrives
<1>4. /\ h.to[2] \in Node /\ h.prio > INT_MIN /\ h.prio \in Int /\ h.to[3] \in Int
      /\ h.msg \in Message \/ (h.to[3] = Local /\ h.msg = Notice)
  <2> HIDE DEF h
  <2>1. h.to[2] \in Node /\ h.prio > INT_MIN /\ (h.msg \in Message \/ (h.to[3] = Local /\ h.msg = Notice))
    BY <1>3, Kinds
  <2>2. ToTheStack(h.to, h.msg)
    <3>1. \A l \in Link : timeout(l)[1] = "timeout"
      BY DEF timeout
    <3>2. ~ATimer(h.to)
      BY <1>3 DEF ATimer, timer0, timer1
    <3>3. ~Passed(h.to, h.msg)
      BY <1>3 DEF Passed
    <3> QED
      BY <1>3, <3>1, <3>2, <3>3 DEF EventOK
  <2>3. h.to[3] \in Int
    BY <2>2 DEF ToTheStack
  <2> QED
    BY <1>3, <2>1, <2>3 DEF EventOK
<1>5. out \in Seq(ToSet(out)) /\ \A o \in ToSet(out) : Passed(o.to, o.msg)
  <2>1. RoutesOK(routes[h.to[2]], h.to[2])
    BY <1>4 DEF SimInv, NodesOK
  <2> HIDE DEF h
  <2> QED
    BY <1>4, <2>1, StackPasses
<1> HIDE DEF out
<1>6. ASSUME NEW i \in DOMAIN events
      PROVE  /\ events[i].time = h.time /\ events[i].prio = h.prio
             /\ EventOK(events[i]) /\ events[i].to[1] # "timeout" /\ Untimed(events[i].to)
  <2>1. /\ events[i].time = h.time /\ events[i].prio = h.prio
        /\ events[i].to = out[i].to /\ events[i].msg = out[i].msg
    BY DEF Event
  <2>2. Passed(out[i].to, out[i].msg)
    BY <1>5, IndexInSet
  <2>3. out[i].to[1] # "timeout" /\ Untimed(out[i].to)
    BY <2>2 DEF Passed, Untimed
  <2> HIDE DEF events, h
  <2> QED
    BY <1>3, <1>4, <2>1, <2>2, <2>3 DEF EventOK
<1>7. events \in Seq(ToSet(events))
  <2>1. DOMAIN events = 1 .. Len(out) /\ Len(out) \in Nat
    BY <1>5
  <2>2. events = [i \in 1 .. Len(out) |-> events[i]]
    BY <2>1
  <2> HIDE DEF events
  <2>3. \A i \in 1 .. Len(out) : events[i] \in ToSet(events)
    BY <2>1, IndexInSet
  <2> QED
    BY <2>1, <2>2, <2>3, IsASeq
<1>11. ToSet(events) = sent
  <2>1. ASSUME NEW i \in DOMAIN events PROVE events[i] \in sent
    <3>1. out[i] \in ToSet(out) /\ events[i] = Event(h.time, h.prio, out[i].to, out[i].msg)
      BY IndexInSet
    <3> HIDE DEF events, h
    <3> QED
      BY <3>1
  <2>2. ASSUME NEW o \in ToSet(out) PROVE Event(h.time, h.prio, o.to, o.msg) \in ToSet(events)
    <3>1. PICK i \in DOMAIN out : out[i] = o
      BY SetIndex
    <3>2. i \in DOMAIN events /\ events[i] = Event(h.time, h.prio, o.to, o.msg)
      BY <3>1
    <3> HIDE DEF events, h
    <3> QED
      BY <3>2, IndexInSet
  <2> HIDE DEF events, h
  <2> QED
    BY <2>1, <2>2, SetIndex
<1> HIDE DEF events, h, s, sent
<1>8. \A e \in ToSet(events) :
         /\ e.time = h.time /\ e.prio = h.prio /\ EventOK(e)
         /\ e.to[1] # "timeout" /\ Untimed(e.to)
  BY <1>6, SetIndex
<1>9. Together(events)
  BY <1>6 DEF Together
<1> DEFINE new == scheduleAll(s, events)
<1>10. /\ IsList(new) /\ ToSet(new) = ToSet(s) \cup ToSet(events)
       /\ \A to : Once(s, to) /\ (\A e \in ToSet(events) : e.to # to) => Once(new, to)
  <2>1. \A e \in ToSet(events) : e.time \in Int /\ e.prio \in Int
    BY <1>8 DEF EventOK
  <2> QED
    BY <1>3, <1>7, <1>9, <2>1, ScheduleAll DEF ListOK
<1>12. /\ IsList(fes') /\ ToSet(fes') = ToSet(s) \cup sent
       /\ \A to : Once(s, to) /\ (\A e \in sent : e.to # to) => Once(fes', to)
  BY <1>1, <1>10, <1>11
<1>13. \A e \in sent :
         /\ e.time = h.time /\ e.prio = h.prio /\ EventOK(e)
         /\ e.to[1] # "timeout" /\ Untimed(e.to)
  BY <1>8, <1>11
<1> HIDE DEF new
<1> QED
  BY <1>4, <1>12, <1>13 DEF h, s, sent, out

LEMMA StackStep ==
    ASSUME SimInv, StackHandles
    PROVE  /\ SimInv' /\ SameTimers(fes', Tail(fes))
           /\ SameTimeouts(fes', Tail(fes))
<1> DEFINE h == Head(fes)
           s == Tail(fes)
           out == handleMessage(h.to[2], h.to[3], h.msg, routes[h.to[2]]).out
           sent == {Event(h.time, h.prio, o.to, o.msg) : o \in ToSet(out)}
<1>1. Arrives("stack") /\ ~aborted /\ fes # <<>> /\ now' = h.time
  BY DEF StackHandles, Arrives, Pass
<1>2. UNCHANGED <<par, faults, changes, routes, queue, finishes, snd, rcv, ping, aborted>>
  BY DEF StackHandles, Network
<1>3. h.time \in Int /\ ListOK(s) /\ Later(s, h.time)
  BY <1>1, NextEvent DEF SimInv
<1>4. /\ IsList(fes') /\ ToSet(fes') = ToSet(s) \cup sent
      /\ \A to : Once(s, to) /\ (\A e \in sent : e.to # to) => Once(fes', to)
      /\ \A e \in sent : /\ e.time = h.time /\ EventOK(e)
                         /\ e.to[1] # "timeout" /\ Untimed(e.to)
  BY StackSends
<1> HIDE DEF h, s, sent
<1>5. \A l \in Link : \A e \in sent : e.to # timeout(l)
  BY <1>4, NotATimeout
<1>6. SameTimeouts(fes', s)
  <2>1. ListOK(fes')
    BY <1>3, <1>4 DEF ListOK
  <2> QED
    BY <1>4, <1>5, <2>1 DEF SameTimeouts
<1>7. Later(fes', h.time)
  BY <1>3, <1>4 DEF Later
<1>8. TimeOK' /\ LinksOK'
  BY <1>1, <1>2, <1>6, <1>7, NodeStep DEF h, s
<1>9. NodesOK'
  BY <1>2 DEF SimInv, NodesOK, Pingers
<1>10. SameTimers(fes', s)
  BY <1>4, NotATimer DEF SameTimers
<1> QED
  BY <1>6, <1>8, <1>9, <1>10 DEF SimInv, s

LEMMA ConParStep ==
    ASSUME SimInv, NEW c \in Commands, ConPar(c[1], c[2])
    PROVE  SimInv' /\ SameTimers(fes', fes) /\ SameTimeouts(fes', fes)
<1> DEFINE e == LinkChanged(now, c[1][1])
<1>1. /\ ~aborted /\ fes' = scheduleAt(fes, e)
      /\ changes < par.changes /\ changes' = changes + 1
      /\ UNCHANGED <<now, par, faults, routes, queue, finishes, snd, rcv, ping, aborted>>
  BY DEF ConPar
<1>2. c[1][1] \in Node
  BY SimulationAssumption DEF Link
<1>3. par \in Parameters /\ now \in Int /\ ListOK(fes) /\ Later(fes, now)
  BY <1>1, ParametersType DEF SimInv, TimeOK
<1>4. EventOK(e) /\ e.to[1] = "stack" /\ e.time = now
  BY <1>2, <1>3, NoticeEvent
<1> HIDE DEF e
<1>5. /\ SameTimeouts(fes', fes) /\ ToSet(fes') = ToSet(fes) \cup {e}
      /\ SameTimers(fes', fes)
  BY <1>1, <1>3, <1>4, ScheduleOther DEF Untimed
<1>6. now' \in Int /\ now' >= now /\ UNCHANGED <<par, queue, finishes>>
  BY <1>1, <1>3
<1>7. LinksOK'
  BY <1>5, <1>6, OtherStep
<1>8. Later(fes', now)
  BY <1>3, <1>4, <1>5, <1>6, AddLater
<1>9. TimeOK'
  BY <1>1, <1>5, <1>8 DEF SimInv, TimeOK, SameTimeouts
<1>10. changes' \in 0 .. par'.changes
  BY <1>1, <1>3, ParametersType DEF SimInv, NodesOK
<1>11. NodesOK'
  BY <1>1, <1>10 DEF SimInv, NodesOK, Pingers
<1> QED
  BY <1>5, <1>7, <1>9, <1>11 DEF SimInv

LEMMA DaemonStep ==
    ASSUME SimInv, DaemonHandles
    PROVE  /\ SimInv' /\ SameTimers(fes', Tail(fes))
           /\ SameTimeouts(fes', Tail(fes))
<1>1. Arrives("appl") /\ ~aborted /\ fes # <<>> /\ now' = Head(fes).time /\ fes' = Tail(fes)
  BY DEF DaemonHandles, Arrives, Pass
<1>2. UNCHANGED <<par, faults, changes, queue, finishes, snd, rcv, ping>>
  BY DEF DaemonHandles
<1>3. ListOK(Tail(fes)) /\ Later(Tail(fes), Head(fes).time)
  BY <1>1, NextEvent DEF SimInv
<1>4. SameTimeouts(Tail(fes), Tail(fes))
  BY <1>3 DEF SameTimeouts
<1>5. TimeOK' /\ LinksOK'
  BY <1>1, <1>2, <1>3, <1>4, NodeStep
<1>6. routes' = [n \in Node |-> R!calculateRoutes(cost, n, routes[n])]
  BY DEF DaemonHandles
<1>7. \A n \in Node : RoutesOK(routes'[n], n)
  <2> TAKE n \in Node
  <2>1. RoutesOK(routes[n], n)
    BY DEF SimInv, NodesOK
  <2>2. routes'[n] = R!calculateRoutes(cost, n, routes[n])
    BY <1>6
  <2> QED
    BY <2>1, <2>2, RoutesKept
<1>8. NodesOK'
  BY <1>2, <1>7 DEF SimInv, NodesOK, Pingers
<1> QED
  BY <1>1, <1>4, <1>5, <1>8 DEF SimInv, SameTimers

\* Steps of the sender.
LEMMA SenderKeeps ==
    ASSUME SimInv, NEW kind, Arrives(kind), kind # "timeout",
           NEW s \in SenderType, NEW events, NEW asserted, SenderStep(s, events, asserted),
           SameTimeouts(events, Tail(fes)), asserted = TRUE => Later(events, Head(fes).time)
    PROVE  SimInv' /\ SameTimeouts(fes', Tail(fes))
<1>1. /\ snd' = s /\ fes' = events /\ now' = Head(fes).time
      /\ UNCHANGED <<par, faults, changes, routes, queue, finishes, rcv, ping>>
      /\ ~aborted' => asserted = TRUE
  BY DEF SenderStep, Pass, Network
<1>2. TimeOK' /\ LinksOK'
  BY <1>1, NodeStep
<1>3. NodesOK'
  BY <1>1 DEF SimInv, NodesOK, Pingers
<1> QED
  BY <1>1, <1>2, <1>3 DEF SimInv

LEMMA SenderKept ==
    ASSUME NEW s \in SenderType, NEW n \in Nat, NEW m \in Nat, NEW t \in Int, NEW u \in Int,
           NEW b \in Buffer
    PROVE  /\ [s EXCEPT !.packetBuffer = b, !.nextSendSeqNo = n, !.nextSendTime = t,
                        !.timerExpiration = u] \in SenderType
           /\ [s EXCEPT !.nextSendTime = t, !.nextSendSeqNo = n, !.timerExpiration = u,
                        !.packetBuffer = b] \in SenderType
           /\ [s EXCEPT !.nextSendTime = t, !.nextSendSeqNo = n] \in SenderType
           /\ [s EXCEPT !.packetBuffer = b, !.lastAckSeqNo = m, !.nextSendSeqNo = n,
                        !.timerExpiration = u, !.nextSendTime = t] \in SenderType
BY DEF SenderType

LEMMA BufferType ==
    ASSUME NEW b \in Buffer
    PROVE  /\ DOMAIN b \subseteq Nat /\ \A i \in DOMAIN b : b[i] \in Int
           /\ \A k \in Nat, v \in Int : 
                 [i \in DOMAIN b \cup {k} |-> IF i = k THEN v ELSE b[i]] \in Buffer
           /\ \A v \in Int : [i \in DOMAIN b |-> v] \in Buffer
           /\ \A S : [i \in DOMAIN b \ S |-> b[i]] \in Buffer
<1>1. PICK D \in SUBSET Nat : b \in [D -> Int]
  BY DEF Buffer
<1>2. D = DOMAIN b
  BY <1>1
<1>3. ASSUME NEW k \in Nat, NEW v \in Int
      PROVE  [i \in D \cup {k} |-> IF i = k THEN v ELSE b[i]] \in Buffer
  <2>1. D \cup {k} \in SUBSET Nat
    OBVIOUS
  <2>2. [i \in D \cup {k} |-> IF i = k THEN v ELSE b[i]] \in [D \cup {k} -> Int]
    BY <1>1
  <2> QED
    BY <2>1, <2>2 DEF Buffer
<1>4. ASSUME NEW v \in Int PROVE [i \in D |-> v] \in Buffer
  <2>1. [i \in D |-> v] \in [D -> Int]
    OBVIOUS
  <2> QED
    BY <2>1 DEF Buffer
<1>5. ASSUME NEW S PROVE [i \in D \ S |-> b[i]] \in Buffer
  <2>1. [i \in D \ S |-> b[i]] \in [D \ S -> Int] /\ D \ S \in SUBSET Nat
    BY <1>1
  <2> QED
    BY <2>1 DEF Buffer
<1> QED
  BY <1>1, <1>2, <1>3, <1>4, <1>5

LEMMA SourceFacts ==
    /\ Source \in Node /\ Sink \in Node /\ Source \in Int /\ Sink \in Int
    /\ GoBackNSender \in Int /\ GoBackNReceiver \in Int /\ PingPongAppl \in Int
    /\ ATimer(timer0) /\ ATimer(timer1) /\ Never \in Int
    /\ timer0[1] = "timer0" /\ timer1[1] = "timer1"
<1>1. Source \in Node /\ Sink \in Node /\ Source \in Int /\ Sink \in Int
  BY SimulationAssumption, NodesAssumption
<1> QED
  BY <1>1 DEF ATimer, timer0, timer1, GoBackNSender, GoBackNReceiver, PingPongAppl, Never

LEMMA SameSelf ==
    ASSUME NEW s, ListOK(s) PROVE SameTimeouts(s, s) /\ SameTimers(s, s)
BY DEF SameTimeouts, SameTimers

\* A timer is scheduled, or an event for a stack.
LEMMA ScheduleTimer ==
    ASSUME NEW r, NEW s, SameTimeouts(s, r), NEW t \in Int, NEW to, ATimer(to)
    PROVE  LET e == Event(t, 0, to, <<>>) IN
           /\ SameTimeouts(scheduleAt(s, e), r)
           /\ ToSet(scheduleAt(s, e)) = ToSet(s) \cup {e}
           /\ e.time = t /\ e.to = to
           /\ \A u : u =< t /\ Later(s, u) => Later(scheduleAt(s, e), u)
           /\ Untimed(to) /\ SameTimers(s, r) => SameTimers(scheduleAt(s, e), r)
<1> DEFINE e == Event(t, 0, to, <<>>)
<1>1. EventOK(e) /\ e.to = to /\ to[1] \in {"timer0", "timer1", "pingtimer"} /\ e.time = t
  BY TimerEvent
<1> HIDE DEF e
<1>2. /\ SameTimeouts(scheduleAt(s, e), s)
      /\ ToSet(scheduleAt(s, e)) = ToSet(s) \cup {e}
      /\ Untimed(to) => SameTimers(scheduleAt(s, e), s)
  BY <1>1, ScheduleOther DEF SameTimeouts
<1>3. /\ SameTimeouts(scheduleAt(s, e), r)
      /\ Untimed(to) /\ SameTimers(s, r) => SameTimers(scheduleAt(s, e), r)
  BY <1>2, SameTransitive, TimersTransitive
<1>4. \A u : u =< t /\ Later(s, u) => Later(scheduleAt(s, e), u)
  BY <1>1, <1>2, AddLater
<1> QED
  BY <1>1, <1>2, <1>3, <1>4 DEF e

LEMMA ScheduleSend ==
    ASSUME NEW r, NEW s, SameTimeouts(s, r), NEW t \in Int, NEW n \in Node, NEW a \in Int,
           NEW p \in Message
    PROVE  LET e == ToStack(t, n, a, p) IN
           /\ SameTimeouts(scheduleAt(s, e), r)
           /\ ToSet(scheduleAt(s, e)) = ToSet(s) \cup {e}
           /\ e.time = t /\ e.to[1] = "stack"
           /\ \A u : u =< t /\ Later(s, u) => Later(scheduleAt(s, e), u)
           /\ SameTimers(s, r) => SameTimers(scheduleAt(s, e), r)
<1> DEFINE e == ToStack(t, n, a, p)
<1>1. EventOK(e) /\ e.to[1] = "stack" /\ e.time = t
  BY StackEvent
<1> HIDE DEF e
<1>2. /\ SameTimeouts(scheduleAt(s, e), s)
      /\ ToSet(scheduleAt(s, e)) = ToSet(s) \cup {e}
      /\ SameTimers(scheduleAt(s, e), s)
  BY <1>1, ScheduleOther DEF SameTimeouts, Untimed
<1>3. /\ SameTimeouts(scheduleAt(s, e), r)
      /\ SameTimers(s, r) => SameTimers(scheduleAt(s, e), r)
  BY <1>2, SameTransitive, TimersTransitive
<1>4. \A u : u =< t /\ Later(s, u) => Later(scheduleAt(s, e), u)
  BY <1>1, <1>2, AddLater
<1> QED
  BY <1>1, <1>2, <1>3, <1>4 DEF e

LEMMA CancelTimer ==
    ASSUME NEW r, NEW s, SameTimeouts(s, r), NEW to, ATimer(to)
    PROVE  /\ SameTimeouts(cancelEvent(s, to), r)
           /\ ToSet(cancelEvent(s, to)) \subseteq ToSet(s)
           /\ \A u : Later(s, u) => Later(cancelEvent(s, to), u)
           /\ Untimed(to) /\ SameTimers(s, r) => SameTimers(cancelEvent(s, to), r)
<1>1. to[1] # "timeout"
  BY DEF ATimer, timer0, timer1
<1>2. /\ SameTimeouts(cancelEvent(s, to), s)
      /\ ToSet(cancelEvent(s, to)) \subseteq ToSet(s)
      /\ Untimed(to) => SameTimers(cancelEvent(s, to), s)
  BY <1>1, CancelOther DEF SameTimeouts
<1>3. /\ SameTimeouts(cancelEvent(s, to), r)
      /\ Untimed(to) /\ SameTimers(s, r) => SameTimers(cancelEvent(s, to), r)
  BY <1>2, SameTransitive, TimersTransitive
<1> QED
  BY <1>2, <1>3, LessLater

LEMMA WokenSame ==
    ASSUME NEW r, NEW s, SameTimeouts(s, r), NEW t \in Int, snd \in SenderType
    PROVE  /\ SameTimeouts(Woken(s, t), r)
           /\ \A u : u =< t /\ Later(s, u) => Later(Woken(s, t), u)
           /\ WokenAt(t) \in Int
<1>1. CASE snd.nextSendTime = Never
  BY <1>1, SourceFacts, ScheduleTimer DEF Woken, WokenAt
<1>2. CASE snd.nextSendTime # Never
  BY <1>2 DEF Woken, WokenAt, SenderType
<1> QED
  BY <1>1, <1>2

\* What a handler of an event can rely on.
LEMMA Handled ==
    ASSUME SimInv, NEW kind, Arrives(kind)
    PROVE  /\ ~aborted /\ fes # <<>> /\ Head(fes).time =< par.limit /\ Head(fes).to[1] = kind
           /\ EventOK(Head(fes)) /\ Head(fes).time \in Int
           /\ SameTimeouts(Tail(fes), Tail(fes)) /\ Later(Tail(fes), Head(fes).time)
           /\ SameTimers(Tail(fes), Tail(fes))
           /\ par \in Parameters
<1>1. ~aborted /\ fes # <<>> /\ Head(fes).time =< par.limit /\ Head(fes).to[1] = kind
  BY DEF Arrives
<1>2. /\ EventOK(Head(fes)) /\ Head(fes).time \in Int
      /\ ListOK(Tail(fes)) /\ Later(Tail(fes), Head(fes).time)
  BY <1>1, NextEvent DEF SimInv
<1> QED
  BY <1>1, <1>2, SameSelf DEF SimInv, TimeOK

LEMMA SendNextStep ==
    ASSUME SimInv, SendNext PROVE SimInv' /\ SameTimeouts(fes', Tail(fes))
<1> DEFINE t == Head(fes).time
           s == Tail(fes)
           seqNo == snd.nextSendSeqNo
           buffer == [i \in DOMAIN snd.packetBuffer \cup {seqNo} |->
                        IF i = seqNo THEN t + par.timeout ELSE snd.packetBuffer[i]]
           first == t + par.timeout < snd.timerExpiration
           again == IF seqNo + 1 >= snd.lastAckSeqNo + par.window
                       THEN Never ELSE t + par.interval
           sent == scheduleAt(s, ToStack(t, Source, GoBackNSender, Data(seqNo)))
           cancelled == cancelEvent(sent, timer1)
           timed == IF first THEN scheduleAt(cancelled, Event(t + par.timeout, 0, timer1, <<>>))
                    ELSE sent
           events == IF again = Never THEN timed
                     ELSE scheduleAt(timed, Event(again, 0, timer0, <<>>))
           expiration == IF first THEN t + par.timeout ELSE snd.timerExpiration
           new == [snd EXCEPT !.packetBuffer = buffer, !.nextSendSeqNo = seqNo + 1,
                              !.nextSendTime = again, !.timerExpiration = expiration]
           asserted == /\ t = snd.nextSendTime
                       /\ seqNo < snd.lastAckSeqNo + par.window
                       /\ \A i \in DOMAIN snd.packetBuffer : seqNo >= Min(DOMAIN snd.packetBuffer)
                       /\ Cardinality(DOMAIN buffer) =< par.window
<1>1. Arrives("timer0") /\ SenderStep(new, events, asserted)
  BY DEF SendNext
<1> HIDE DEF asserted
<1>2. /\ t \in Int /\ par \in Parameters
      /\ SameTimeouts(s, s) /\ Later(s, t)
  BY <1>1, Handled
<1>3. /\ snd \in SenderType /\ seqNo \in Nat /\ snd.packetBuffer \in Buffer
      /\ snd.timerExpiration \in Int
  BY DEF SimInv, NodesOK, SenderType
<1>4. /\ par.timeout \in Nat /\ par.interval \in Nat
  BY <1>2, ParametersType
<1> HIDE DEF t, s, seqNo
<1>5. buffer \in Buffer
  <2> DEFINE v == t + par.timeout
  <2>1. v \in Int
    BY <1>2, <1>4
  <2> HIDE DEF v
  <2>2. [i \in DOMAIN snd.packetBuffer \cup {seqNo} |->
           IF i = seqNo THEN v ELSE snd.packetBuffer[i]] \in Buffer
    BY <1>3, <2>1, BufferType
  <2> QED
    BY <2>2 DEF v
<1>6. again \in Int /\ expiration \in Int /\ (again # Never => again >= t)
  BY <1>2, <1>3, <1>4, SourceFacts
<1> HIDE DEF buffer, again, expiration, first
<1>7. new \in SenderType
  <2> DEFINE n == seqNo + 1
  <2>1. n \in Nat
    BY <1>3
  <2> HIDE DEF n
  <2>2. [snd EXCEPT !.packetBuffer = buffer, !.nextSendSeqNo = n, !.nextSendTime = again,
                    !.timerExpiration = expiration] \in SenderType
    BY <1>3, <1>5, <1>6, <2>1, SenderKept
  <2> QED
    BY <2>2 DEF n
<1> HIDE DEF new
<1>8. Data(seqNo) \in Message
  BY <1>3, SourceFacts, PacketType DEF Data
<1>9. SameTimeouts(sent, s) /\ Later(sent, t)
  BY <1>2, <1>8, SourceFacts, ScheduleSend
<1> HIDE DEF sent
<1>10. SameTimeouts(cancelled, s) /\ Later(cancelled, t)
  BY <1>9, SourceFacts, CancelTimer
<1> HIDE DEF cancelled
<1>11. SameTimeouts(timed, s) /\ Later(timed, t)
  <2>1. t + par.timeout \in Int /\ t =< t + par.timeout
    BY <1>2, <1>4
  <2> QED
    BY <1>9, <1>10, <2>1, SourceFacts, ScheduleTimer
<1> HIDE DEF timed
<1>12. SameTimeouts(events, s) /\ Later(events, t)
  <2>1. again # Never => t =< again
    BY <1>2, <1>6
  <2> QED
    BY <1>6, <1>11, <2>1, SourceFacts, ScheduleTimer
<1> HIDE DEF events
<1> QED
  BY <1>1, <1>7, <1>12, SenderKeeps DEF t, s

LEMMA ExpireStep ==
    ASSUME SimInv, Expire PROVE SimInv' /\ SameTimeouts(fes', Tail(fes))
<1> DEFINE t == Head(fes).time
           s == Tail(fes)
           b == [i \in DOMAIN snd.packetBuffer |-> Never]
           new == [snd EXCEPT !.nextSendTime = WokenAt(t), !.nextSendSeqNo = snd.lastAckSeqNo,
                              !.timerExpiration = Never, !.packetBuffer = b]
           events == cancelEvent(Woken(s, t), timer1)
           asserted == t = snd.timerExpiration
<1>1. Arrives("timer1") /\ SenderStep(new, events, asserted)
  BY DEF Expire
<1> HIDE DEF asserted
<1>2. /\ t \in Int /\ SameTimeouts(s, s) /\ Later(s, t)
  BY <1>1, Handled
<1>3. snd \in SenderType /\ snd.lastAckSeqNo \in Nat /\ snd.packetBuffer \in Buffer
  BY DEF SimInv, NodesOK, SenderType
<1> HIDE DEF t, s
<1>4. /\ SameTimeouts(Woken(s, t), s) /\ Later(Woken(s, t), t) /\ WokenAt(t) \in Int
  BY <1>2, <1>3, WokenSame
<1>5. b \in Buffer
  BY <1>3, SourceFacts, BufferType
<1> HIDE DEF b
<1>6. new \in SenderType
  BY <1>3, <1>4, <1>5, SourceFacts, SenderKept
<1> HIDE DEF new
<1>7. SameTimeouts(events, s) /\ Later(events, t)
  BY <1>4, SourceFacts, CancelTimer
<1> HIDE DEF events
<1> QED
  BY <1>1, <1>6, <1>7, SenderKeeps DEF t, s

LEMMA AckStep ==
    ASSUME SimInv, ReceiveAck PROVE SimInv' /\ SameTimeouts(fes', Tail(fes))
<1> DEFINE t == Head(fes).time
           s == Tail(fes)
           p == Head(fes).msg
           e == p.seqNo
<1>1. Arrives("appl") /\ Head(fes).to = <<"appl", Source, GoBackNSender>>
  BY DEF ReceiveAck
<1>2. /\ t \in Int /\ SameTimeouts(s, s) /\ Later(s, t) /\ par \in Parameters
  BY <1>1, Handled
<1>3. /\ snd \in SenderType /\ snd.lastAckSeqNo \in Nat /\ snd.nextSendSeqNo \in Nat
      /\ snd.packetBuffer \in Buffer
  BY DEF SimInv, NodesOK, SenderType
<1>4. e \in Nat
  <2> DEFINE h == Head(fes)
  <2>1. EventOK(h)
    BY <1>1, Handled
  <2>2. h.to[1] = "appl" /\ h.to[3] = GoBackNSender
    BY <1>1
  <2> HIDE DEF h
  <2>3. h.msg \in Message \/ h.to[3] = RoutingDaemon
    BY <2>1, <2>2, Kinds
  <2>4. h.msg \in Message
    BY <2>2, <2>3 DEF GoBackNSender, RoutingDaemon
  <2> QED
    BY <2>4 DEF Message, h
<1>5. CASE SenderStep(snd, s, p.id = "ack")
  BY <1>1, <1>2, <1>3, <1>5, SenderKeeps
<1>6. CASE Rejected(t)
  <2> DEFINE new == [snd EXCEPT !.nextSendTime = WokenAt(t), !.nextSendSeqNo = snd.lastAckSeqNo]
  <2>1. SenderStep(new, Woken(s, t), TRUE)
    BY <1>6 DEF Rejected
  <2>2. /\ SameTimeouts(Woken(s, t), s) /\ Later(Woken(s, t), t) /\ WokenAt(t) \in Int
    <3> HIDE DEF s, t
    <3>1. t =< t
      BY <1>2
    <3> QED
      BY <1>2, <1>3, <3>1, WokenSame
  <2>3. new \in SenderType
    <3> HIDE DEF t
    <3> QED
      BY <1>3, <2>2, SourceFacts, SenderKept
  <2> HIDE DEF new
  <2> QED
    BY <1>1, <2>1, <2>2, <2>3, SenderKeeps
<1>7. CASE Acknowledged(t, e)
  <2> DEFINE buffer == [i \in DOMAIN snd.packetBuffer \ (snd.lastAckSeqNo .. e - 1) |->
                           snd.packetBuffer[i]]
             waiting == snd.nextSendSeqNo > e
             expiration == IF ~waiting THEN Never ELSE IF e \in DOMAIN buffer THEN buffer[e] ELSE -1
             idle == cancelEvent(s, timer1)
             timed == IF waiting THEN scheduleAt(idle, Event(expiration, 0, timer1, <<>>)) ELSE idle
             last == Max({snd.nextSendSeqNo, e})
             new == [snd EXCEPT !.packetBuffer = buffer, !.lastAckSeqNo = e,
                                !.nextSendSeqNo = last,
                                !.timerExpiration = expiration,
                                !.nextSendTime = WokenAt(t)]
             events == Woken(timed, t)
             asserted == /\ e > snd.lastAckSeqNo
                         /\ snd.lastAckSeqNo .. e - 1 \subseteq DOMAIN snd.packetBuffer
                         /\ waiting => expiration > t /\ expiration > 0
  <2>1. SenderStep(new, events, asserted)
    BY <1>7 DEF Acknowledged
  <2>2. buffer \in Buffer
    BY <1>3, BufferType
  <2> HIDE DEF buffer
  <2>3. expiration \in Int
    <3>1. \A i \in DOMAIN buffer : buffer[i] \in Int
      BY <2>2, BufferType
    <3> QED
      BY <3>1, SourceFacts
  <2>4. last \in Nat
    BY <1>3, <1>4 DEF Max
  <2>5. waiting /\ asserted = TRUE => t =< expiration
    BY <1>2, <2>3
  <2> HIDE DEF expiration, last, waiting, asserted
  <2>6. SameTimeouts(idle, s) /\ Later(idle, t)
    BY <1>2, SourceFacts, CancelTimer
  <2> HIDE DEF idle
  <2>7. SameTimeouts(timed, s) /\ (asserted = TRUE => Later(timed, t))
    BY <2>3, <2>5, <2>6, SourceFacts, ScheduleTimer
  <2> HIDE DEF timed
  <2>8. /\ SameTimeouts(events, s) /\ WokenAt(t) \in Int
        /\ asserted = TRUE => Later(events, t)
    <3>1. t \in Int /\ t =< t
      BY <1>2
    <3>2. /\ SameTimeouts(Woken(timed, t), s) /\ WokenAt(t) \in Int
          /\ \A u : u =< t /\ Later(timed, u) => Later(Woken(timed, t), u)
      BY <1>3, <2>7, <3>1, WokenSame
    <3> QED
      BY <2>7, <3>1, <3>2
  <2> HIDE DEF events
  <2>9. new \in SenderType
    <3> HIDE DEF t, e
    <3> QED
      BY <1>3, <1>4, <2>2, <2>3, <2>4, <2>8, SenderKept
  <2> HIDE DEF new
  <2> QED
    BY <1>1, <2>1, <2>8, <2>9, SenderKeeps
<1> QED
  BY <1>5, <1>6, <1>7 DEF ReceiveAck

LEMMA DataStep ==
    ASSUME SimInv, ReceiveData
    PROVE  /\ SimInv' /\ SameTimers(fes', Tail(fes))
           /\ SameTimeouts(fes', Tail(fes))
<1> DEFINE h == Head(fes)
           t == h.time
           s == Tail(fes)
           p == h.msg
           last == rcv.lastReceivedSeqNo
           next == ~p.bitError /\ p.seqNo = last + 1
           gap == ~p.bitError /\ par.sendNack /\ p.seqNo = last + 2
           expected == IF next THEN last + 2 ELSE last + 1
           e == ToStack(t, Sink, GoBackNReceiver, Ack(p, expected))
<1>1. /\ Arrives("appl") /\ h.to = <<"appl", Sink, GoBackNReceiver>> /\ now' = t
      /\ rcv' = [lastReceivedSeqNo |-> IF next THEN last + 1 ELSE last]
      /\ fes' = IF next \/ gap THEN scheduleAt(s, e) ELSE s
      /\ UNCHANGED <<par, faults, changes, routes, queue, finishes, snd, ping>>
  BY DEF ReceiveData, Network, Pass
<1>2. /\ t \in Int /\ SameTimeouts(s, s) /\ SameTimers(s, s) /\ Later(s, t) /\ EventOK(h)
  BY <1>1, Handled
<1>3. p \in Message
  <2>1. h.to[1] = "appl" /\ h.to[3] = GoBackNReceiver
    BY <1>1
  <2> HIDE DEF h
  <2>2. h.msg \in Message \/ h.to[3] = RoutingDaemon
    BY <1>2, <2>1, Kinds
  <2> QED
    BY <2>1, <2>2 DEF GoBackNReceiver, RoutingDaemon
<1>4. last \in Nat \cup {-1}
  BY DEF SimInv, NodesOK
<1>5. expected \in Nat /\ last + 1 \in Nat
  BY <1>4
<1> HIDE DEF p, last, next, gap, expected
<1>6. Ack(p, expected) \in Message
  <2>1. p.srcNode \in Int /\ p.srcAppl \in Int
    BY <1>3 DEF Message
  <2> QED
    BY <1>5, <2>1, PacketType DEF Ack
<1>7. /\ SameTimeouts(scheduleAt(s, e), s) /\ Later(scheduleAt(s, e), t)
      /\ SameTimers(scheduleAt(s, e), s)
  BY <1>2, <1>6, SourceFacts, ScheduleSend
<1> HIDE DEF e
<1>8. SameTimeouts(fes', s) /\ Later(fes', t) /\ SameTimers(fes', s)
  BY <1>1, <1>2, <1>7
<1>9. TimeOK' /\ LinksOK'
  BY <1>1, <1>8, NodeStep
<1>10. rcv' \in [lastReceivedSeqNo : Nat \cup {-1}]
  BY <1>1, <1>4, <1>5
<1>11. NodesOK'
  BY <1>1, <1>10 DEF SimInv, NodesOK, Pingers
<1> QED
  BY <1>8, <1>9, <1>11 DEF SimInv

LEMMA WaitKeeps ==
    ASSUME SimInv, NEW n \in Node, NEW a \in PingType, n \notin Pingers => a.nextSend = Never,
           NEW t \in Int, t =< par.limit, NEW r, NEW events, SameTimeouts(events, r),
           SameTimers(events, r), Later(events, t), Wait(n, a, t, events)
    PROVE  /\ SameTimeouts(fes', r) /\ SameTimers(fes', r) /\ Later(fes', t)
           /\ ping' \in [Node -> PingType]
           /\ \A m \in Node \ Pingers : ping'[m].nextSend = Never
<1> DEFINE due == a.nextSend =< t
           next == IF due THEN t + par.pingInterval ELSE a.nextSend
           p == Ping(n, a.lastSentSeqNo + 1)
           idle == cancelEvent(events, <<"pingtimer", n>>)
           pinged == IF due THEN scheduleAt(idle, ToStack(t, n, PingPongAppl, p)) ELSE idle
           b == [a EXCEPT !.lastSentSeqNo = @ + 1, !.sent = @ + 1, !.nextSend = next]
<1>1. /\ ping' = [ping EXCEPT ![n] = IF due THEN b ELSE a]
      /\ fes' = IF next = Never THEN pinged
                ELSE scheduleAt(pinged, Event(next, 0, <<"pingtimer", n>>, <<>>))
  BY DEF Wait
<1>2. /\ a.nextSend \in Int /\ a.lastSentSeqNo + 1 \in Nat /\ a.sent + 1 \in Int
  BY DEF PingType
<1>3. par \in Parameters /\ par.pingInterval \in Nat /\ par.limit < Never /\ par.limit \in Nat
  BY ParametersType DEF SimInv, TimeOK
<1>4. next \in Int /\ t =< next
  BY <1>2, <1>3
<1>5. due => n \in Pingers
  BY <1>2, <1>3, SourceFacts
<1>6. due => p \in Message
  <2>1. due => par.pingDest[n] \in Int
    BY <1>3, <1>5, ParametersAssumption DEF Pingers
  <2> QED
    BY <1>2, <2>1, SourceFacts, PacketType DEF Ping
<1>7. ATimer(<<"pingtimer", n>>) /\ Untimed(<<"pingtimer", n>>)
  BY DEF ATimer, Untimed
<1>8. b \in PingType
  <2> DEFINE x == a.lastSentSeqNo + 1
             y == a.sent + 1
  <2>1. x \in Nat /\ y \in Int
    BY <1>2
  <2> HIDE DEF x, y, next
  <2>2. [a EXCEPT !.lastSentSeqNo = x, !.sent = y, !.nextSend = next] \in PingType
    BY <1>4, <2>1 DEF PingType
  <2> QED
    BY <2>2 DEF x, y
<1> HIDE DEF due, next, p, b
<1>9. SameTimeouts(idle, r) /\ SameTimers(idle, r) /\ Later(idle, t)
  BY <1>7, CancelTimer
<1> HIDE DEF idle
<1>10. SameTimeouts(pinged, r) /\ SameTimers(pinged, r) /\ Later(pinged, t)
  BY <1>6, <1>9, SourceFacts, ScheduleSend
<1> HIDE DEF pinged
<1>11. SameTimeouts(fes', r) /\ SameTimers(fes', r) /\ Later(fes', t)
  BY <1>1, <1>4, <1>7, <1>10, ScheduleTimer
<1>12. ping \in [Node -> PingType] /\ \A m \in Node \ Pingers : ping[m].nextSend = Never
  BY DEF SimInv, NodesOK
<1>13. ping' \in [Node -> PingType]
  BY <1>1, <1>8, <1>12
<1>14. \A m \in Node \ Pingers : ping'[m].nextSend = Never
  BY <1>1, <1>5, <1>12
<1> QED
  BY <1>11, <1>13, <1>14

LEMMA PingTimerStep ==
    ASSUME SimInv, PingTimer
    PROVE  /\ SimInv' /\ SameTimers(fes', Tail(fes))
           /\ SameTimeouts(fes', Tail(fes))
<1> DEFINE h == Head(fes)
           t == h.time
           s == Tail(fes)
           n == h.to[2]
<1>1. /\ Arrives("pingtimer") /\ now' = t
      /\ Wait(n, ping[n], t, s)
      /\ UNCHANGED <<par, faults, changes, routes, queue, finishes, snd, rcv>>
  BY DEF PingTimer, Network, Pass
<1>2. /\ t \in Int /\ t =< par.limit /\ SameTimeouts(s, s) /\ Later(s, t) /\ EventOK(h)
      /\ h.to[1] = "pingtimer" /\ SameTimers(s, s)
  BY <1>1, Handled
<1>3. n \in Node
  <2> HIDE DEF h
  <2> QED
    BY <1>2, Kinds
<1> HIDE DEF h
<1>4. ping[n] \in PingType /\ (n \notin Pingers => ping[n].nextSend = Never)
  BY <1>3 DEF SimInv, NodesOK
<1>5. /\ SameTimeouts(fes', s) /\ SameTimers(fes', s) /\ Later(fes', t)
      /\ ping' \in [Node -> PingType]
      /\ \A m \in Node \ Pingers : ping'[m].nextSend = Never
  BY <1>1, <1>2, <1>3, <1>4, WaitKeeps
<1>6. TimeOK' /\ LinksOK'
  BY <1>1, <1>5, NodeStep DEF h
<1>7. NodesOK'
  BY <1>1, <1>5 DEF SimInv, NodesOK, Pingers
<1> QED
  BY <1>5, <1>6, <1>7 DEF SimInv

LEMMA PingStep ==
    ASSUME SimInv, ReceivePing
    PROVE  /\ SimInv' /\ SameTimers(fes', Tail(fes))
           /\ SameTimeouts(fes', Tail(fes))
<1> DEFINE h == Head(fes)
           t == h.time
           s == Tail(fes)
           n == h.to[2]
           p == h.msg
           a == IF p.reply THEN [ping[n] EXCEPT !.received = @ + 1] ELSE ping[n]
           e == ToStack(t, n, PingPongAppl, Pong(p))
           events == IF p.reply THEN s ELSE scheduleAt(s, e)
<1>1. /\ Arrives("appl") /\ h.to[3] = PingPongAppl /\ now' = t
      /\ Wait(n, a, t, events)
      /\ UNCHANGED <<par, faults, changes, routes, queue, finishes, snd, rcv>>
  <2>1. Arrives("appl") /\ h.to[3] = PingPongAppl /\ Pass /\ UNCHANGED <<Network, snd, rcv>>
    BY DEF ReceivePing
  <2>2. Wait(n, a, t, events)
    BY DEF ReceivePing
  <2> QED
    BY <2>1, <2>2 DEF Network, Pass
<1>2. /\ t \in Int /\ t =< par.limit /\ SameTimeouts(s, s) /\ Later(s, t) /\ EventOK(h)
      /\ h.to[1] = "appl" /\ SameTimers(s, s)
  BY <1>1, Handled
<1>3. n \in Node /\ p \in Message
  <2> HIDE DEF h
  <2>1. h.to[2] \in Node /\ (h.msg \in Message \/ h.to[3] = RoutingDaemon)
    BY <1>2, Kinds
  <2> QED
    BY <1>1, <2>1 DEF PingPongAppl, RoutingDaemon
<1> HIDE DEF h
<1>4. ping[n] \in PingType /\ (n \notin Pingers => ping[n].nextSend = Never)
  BY <1>3 DEF SimInv, NodesOK
<1> HIDE DEF n, p
<1>5. a \in PingType /\ (n \notin Pingers => a.nextSend = Never)
  <2> DEFINE x == ping[n].received + 1
  <2>1. x \in Int
    BY <1>4 DEF PingType
  <2> HIDE DEF x
  <2>2. LET b == [ping[n] EXCEPT !.received = x] IN b \in PingType /\ b.nextSend = ping[n].nextSend
    BY <1>4, <2>1 DEF PingType
  <2>3. a = ping[n] \/ a = [ping[n] EXCEPT !.received = x]
    BY DEF x
  <2> QED
    BY <1>4, <2>2, <2>3
<1> HIDE DEF a
<1>6. Pong(p) \in Message
  BY <1>3, MessageKept DEF Pong, Message
<1>7. /\ SameTimeouts(scheduleAt(s, e), s) /\ Later(scheduleAt(s, e), t)
      /\ SameTimers(scheduleAt(s, e), s)
  <2> DEFINE msg == Pong(p)
  <2>1. msg \in Message /\ PingPongAppl \in Int /\ t \in Int /\ t =< t
    BY <1>2, <1>6, SourceFacts
  <2>2. SameTimeouts(s, s) /\ Later(s, t) /\ SameTimers(s, s)
    BY <1>2
  <2> HIDE DEF msg, s, t
  <2>3. LET f == ToStack(t, n, PingPongAppl, msg) IN
        /\ SameTimeouts(scheduleAt(s, f), s) /\ Later(scheduleAt(s, f), t)
        /\ SameTimers(scheduleAt(s, f), s)
    BY <1>3, <2>1, <2>2, ScheduleSend
  <2> QED
    BY <2>3 DEF msg
<1> HIDE DEF e
<1>8. SameTimeouts(events, s) /\ SameTimers(events, s) /\ Later(events, t)
  BY <1>2, <1>7
<1> HIDE DEF events
<1>9. /\ SameTimeouts(fes', s) /\ SameTimers(fes', s) /\ Later(fes', t)
      /\ ping' \in [Node -> PingType]
      /\ \A m \in Node \ Pingers : ping'[m].nextSend = Never
  BY <1>1, <1>2, <1>3, <1>5, <1>8, WaitKeeps
<1>10. TimeOK' /\ LinksOK'
  BY <1>1, <1>9, NodeStep DEF h
<1>11. NodesOK'
  BY <1>1, <1>9 DEF SimInv, NodesOK, Pingers
<1> QED
  BY <1>9, <1>10, <1>11 DEF SimInv

\* What a link does not hear of.
LEMMA OtherLinks ==
    ASSUME SimInv, NEW kind, Arrives(kind), NEW l \in Link,
           kind = "timeout" => Head(fes).to = timeout(l),
           NEW k \in Link, k # l \/ kind # "timeout"
    PROVE  /\ TimeoutOK(Tail(fes), k, finishes[k], queue[k].queue, Head(fes).time)
           /\ isScheduled(Tail(fes), timeout(k)) <=> isScheduled(fes, timeout(k))
<1> DEFINE h == Head(fes)  s == Tail(fes)
<1>1. /\ ~aborted /\ fes # <<>> /\ h.time \in Int /\ h.to[1] = kind
  BY Handled
<1>2. /\ ToSet(fes) = {h} \cup ToSet(s) /\ \A to : Once(fes, to) => Once(s, to)
      /\ ListOK(s) /\ h.time >= now
  BY <1>1, NextEvent DEF SimInv
<1>3. h.to # timeout(k)
  BY <1>1, DifferentTimeouts, NotATimeout
<1>4. TimeoutOK(fes, k, finishes[k], queue[k].queue, now) /\ finishes[k] \in Int /\ now \in Int
  BY ParametersType DEF SimInv, LinksOK, TimeOK
<1> HIDE DEF h, s
<1>5. \A e : e.to = timeout(k) => (e \in ToSet(s) <=> e \in ToSet(fes))
  BY <1>2, <1>3
<1>6. isScheduled(s, timeout(k)) <=> isScheduled(fes, timeout(k))
  BY <1>5, ScheduledSet
<1>7. finishes[k] > h.time => finishes[k] > now
  BY <1>1, <1>2, <1>4
<1>8. TimeoutOK(s, k, finishes[k], queue[k].queue, h.time)
  BY <1>2, <1>4, <1>5, <1>6, <1>7 DEF TimeoutOK
<1> QED
  BY <1>6, <1>8 DEF s, h

\* What a queue that sends does to the list.
LEMMA Transmits ==
    ASSUME SimInv, NEW kind, Arrives(kind), NEW l \in Link, NEW r, r.send # <<>>,
           NEW m \in Message, r.send = <<m>>, Transmit(l, r),
           ~isScheduled(Tail(fes), timeout(l))
    PROVE  /\ finishes' = [finishes EXCEPT ![l] = Head(fes).time + duration[l][m.id]]
           /\ finishes'[l] \in Int /\ finishes'[l] > Head(fes).time
           /\ ListOK(fes') /\ Later(fes', Head(fes).time)
           /\ \A w : TimeoutOK(fes', l, finishes'[l], w, Head(fes).time)
           /\ isScheduled(fes', timeout(l))
           /\ \A k \in Link : \A end, w :
                 k # l /\ TimeoutOK(Tail(fes), k, end, w, Head(fes).time)
                 => TimeoutOK(fes', k, end, w, Head(fes).time)
           /\ \A k \in Link :
                 k # l => (isScheduled(fes', timeout(k)) <=> isScheduled(Tail(fes), timeout(k)))
           /\ faults' \in 0 .. par.faults
           /\ SameTimers(fes', Tail(fes))
<1> DEFINE t == Head(fes).time
           s == Tail(fes)
           D == IF l \in errorLinks /\ faults < par.faults THEN BOOLEAN ELSE {FALSE}
           msg(b) == [Head(r.send) EXCEPT !.bitError = @ \/ b]
           end(b) == t + duration[l][msg(b).id]
           arrival(b) == Event(end(b) + delay[l], 0, <<"stack", l[2], FromNet>>, msg(b))
<1>1. PICK b \in D :
         /\ finishes' = [finishes EXCEPT ![l] = end(b)]
         /\ fes' = scheduleAt(scheduleAt(s, arrival(b)), TimeoutEvent(end(b), l))
         /\ faults' = faults + (IF b THEN 1 ELSE 0)
  BY DEF Transmit
<1>2. /\ t \in Int /\ par \in Parameters /\ SameTimeouts(s, s) /\ Later(s, t)
      /\ SameTimers(s, s)
  BY Handled
<1> DEFINE g == [m EXCEPT !.bitError = @ \/ b]
           u == t + duration[l][m.id]
           e == Event(u + delay[l], 0, <<"stack", l[2], FromNet>>, g)
           f == TimeoutEvent(u, l)
           mid == scheduleAt(s, e)
<1>3. g \in Message /\ g.id = m.id
  <2> DEFINE c == m.bitError \/ b
  <2>1. c \in BOOLEAN
    BY DEF Message
  <2> HIDE DEF c
  <2>2. [m EXCEPT !.bitError = c] \in Message /\ [m EXCEPT !.bitError = c].id = m.id
    BY <2>1 DEF Message
  <2> QED
    BY <2>2 DEF c
<1>4. u \in Int /\ u > t /\ u + delay[l] \in Int /\ u + delay[l] >= t
  <2>1. m.id \in {"data", "ack", "ping"}
    BY DEF Message
  <2>2. duration[l][m.id] \in Nat \ {0} /\ delay[l] \in Nat
    BY <2>1, SimulationAssumption
  <2> QED
    BY <1>2, <2>2
<1>5. finishes' = [finishes EXCEPT ![l] = u] /\ fes' = scheduleAt(mid, f)
  <2>1. Head(r.send) = m
    OBVIOUS
  <2>2. msg(b) = g
    BY <2>1
  <2>3. msg(b).id = m.id
    BY <1>3, <2>2
  <2> HIDE DEF msg, g
  <2> QED
    BY <1>1, <2>2, <2>3
<1> HIDE DEF t, s, g
<1>6. SameTimeouts(mid, s) /\ SameTimers(mid, s) /\ Later(mid, t)
  <2> DEFINE z == u + delay[l]
  <2>1. z \in Int /\ z >= t
    BY <1>4
  <2> HIDE DEF z, u
  <2>2. LET a == Event(z, 0, <<"stack", l[2], FromNet>>, g) IN
        EventOK(a) /\ a.to[1] = "stack" /\ a.time = z
    BY <1>3, <2>1, ArrivalEvent
  <2>3. EventOK(e) /\ e.to[1] = "stack" /\ e.time = z
    BY <2>2 DEF z
  <2> HIDE DEF e
  <2>4. SameTimeouts(mid, s) /\ SameTimers(mid, s) /\ ToSet(mid) = ToSet(s) \cup {e}
    BY <1>2, <2>3, ScheduleOther DEF SameTimeouts, Untimed
  <2>5. Later(mid, t)
    BY <1>2, <2>1, <2>3, <2>4, AddLater
  <2> QED
    BY <2>4, <2>5
<1> HIDE DEF u
<1>7. EventOK(f) /\ f.to = timeout(l) /\ f.time = u
  BY <1>4, LinkTimeoutEvent
<1> HIDE DEF f, mid, e
<1>8. ~isScheduled(mid, timeout(l))
  <2>1. \A d : d.to = timeout(l) => (d \in ToSet(mid) <=> d \in ToSet(s))
    BY <1>6 DEF SameTimeouts
  <2> QED
    BY <2>1, ScheduledSet DEF s
<1>9. /\ IsList(fes') /\ ToSet(fes') = ToSet(mid) \cup {f}
      /\ \A to : \/ Once(mid, to) /\ f.to # to
                 \/ ~isScheduled(mid, to)
                 => Once(fes', to)
  <2>1. IsList(mid)
    BY <1>6 DEF SameTimeouts, ListOK
  <2>2. f.time \in Int /\ f.prio \in Int
    BY <1>7 DEF EventOK
  <2> QED
    BY <1>5, <2>1, <2>2, ScheduleAt
<1>10. ListOK(fes') /\ Later(fes', t)
  <2>1. ListOK(fes')
    BY <1>6, <1>7, <1>9 DEF SameTimeouts, ListOK
  <2>2. Later(fes', t)
    BY <1>2, <1>4, <1>6, <1>7, <1>9 DEF Later
  <2> QED
    BY <2>1, <2>2
<1>11. finishes'[l] = u
  <2>1. finishes \in [Link -> Int]
    BY DEF SimInv, LinksOK
  <2> QED
    BY <1>5, <2>1
<1>12. isScheduled(fes', timeout(l))
  BY <1>7, <1>9, ScheduledSet
<1>13. ASSUME NEW w PROVE TimeoutOK(fes', l, u, w, t)
  <2>1. Once(fes', timeout(l))
    BY <1>8, <1>9
  <2>2. ASSUME NEW d \in ToSet(fes'), d.to = timeout(l) PROVE d.time = u
    BY <1>7, <1>8, <1>9, <2>2, ScheduledSet
  <2> QED
    BY <1>12, <2>1, <2>2 DEF TimeoutOK
<1>14. ASSUME NEW k \in Link, k # l
       PROVE  /\ isScheduled(fes', timeout(k)) <=> isScheduled(s, timeout(k))
              /\ \A x, w : TimeoutOK(s, k, x, w, t) => TimeoutOK(fes', k, x, w, t)
  <2>1. f.to # timeout(k)
    BY <1>7, <1>14, DifferentTimeouts
  <2>2. \A d : d.to = timeout(k) => (d \in ToSet(fes') <=> d \in ToSet(s))
    BY <1>6, <1>9, <2>1 DEF SameTimeouts
  <2>3. isScheduled(fes', timeout(k)) <=> isScheduled(s, timeout(k))
    BY <2>2, ScheduledSet
  <2>4. Once(s, timeout(k)) => Once(fes', timeout(k))
    BY <1>6, <1>9, <2>1 DEF SameTimeouts
  <2> QED
    BY <2>2, <2>3, <2>4 DEF TimeoutOK
<1>15. faults' \in 0 .. par.faults
  <2>1. faults \in 0 .. par.faults /\ par.faults \in Nat
    BY <1>2, ParametersType DEF SimInv, NodesOK
  <2>2. b = TRUE => faults < par.faults
    OBVIOUS
  <2> QED
    BY <1>1, <2>1, <2>2
<1>16. SameTimers(fes', s)
  <2>1. f.to # timer0 /\ f.to # timer1
    BY <1>7 DEF timeout, timer0, timer1
  <2> QED
    BY <1>6, <1>9, <2>1 DEF SameTimers
<1> QED
  BY <1>4, <1>5, <1>10, <1>11, <1>12, <1>13, <1>14, <1>15, <1>16 DEF u, t, s

\* The step of a queue, in one of two cases: it sends, or it does not.
LEMMA QueueKeeps ==
    ASSUME SimInv, NEW kind, Arrives(kind), NEW l \in Link,
           kind = "timeout" => Head(fes).to = timeout(l),
           NEW r, QueueStep(l, r), r.q \in QueueType, Len(r.q.queue) =< par.maxQueueLength,
           \/ r.send = <<>> /\ TimeoutOK(Tail(fes), l, finishes[l], r.q.queue, Head(fes).time)
           \/ /\ \E m \in Message : r.send = <<m>>
              /\ ~isScheduled(Tail(fes), timeout(l))
    PROVE  SimInv' /\ SameTimers(fes', Tail(fes))
<1> DEFINE t == Head(fes).time
           s == Tail(fes)
<1>1. /\ now' = t /\ queue' = [queue EXCEPT ![l] = r.q] /\ Transmit(l, r)
      /\ UNCHANGED <<par, changes, routes, snd, rcv, ping>>
  BY DEF QueueStep
<1>2. /\ t \in Int /\ t =< par.limit /\ par \in Parameters /\ ~aborted /\ fes # <<>>
      /\ ListOK(s) /\ Later(s, t) /\ SameTimers(s, s)
  BY Handled DEF SameTimeouts
<1>3. now' \in 0 .. par'.limit
  <2>1. t >= now
    BY <1>2, NextEvent DEF SimInv
  <2>2. now \in 0 .. par.limit /\ par.limit \in Nat
    BY <1>2, ParametersType DEF SimInv, TimeOK
  <2> QED
    BY <1>1, <1>2, <2>1, <2>2
<1>4. /\ queue \in [Link -> QueueType] /\ finishes \in [Link -> Int]
      /\ faults \in 0 .. par.faults
      /\ \A k \in Link : Len(queue[k].queue) =< par.maxQueueLength
  BY DEF SimInv, LinksOK, NodesOK
<1>5. /\ queue' \in [Link -> QueueType]
      /\ queue'[l] = r.q
      /\ \A k \in Link : k # l => queue'[k] = queue[k]
  BY <1>1, <1>4
<1>6. \A k \in Link : k # l => TimeoutOK(s, k, finishes[k], queue[k].queue, t)
  BY OtherLinks
<1>7. /\ ListOK(fes') /\ Later(fes', t) /\ faults' \in 0 .. par.faults
      /\ finishes' \in [Link -> Int] /\ SameTimers(fes', s)
      /\ TimeoutOK(fes', l, finishes'[l], r.q.queue, t)
      /\ \A k \in Link : k # l => TimeoutOK(fes', k, finishes'[k], queue[k].queue, t)
  <2>1. CASE r.send = <<>> /\ TimeoutOK(s, l, finishes[l], r.q.queue, t)
    <3>1. fes' = s /\ finishes' = finishes /\ faults' = faults
      BY <1>1, <2>1 DEF Transmit
    <3> QED
      BY <1>2, <1>4, <1>6, <2>1, <3>1
  <2>2. CASE (\E m \in Message : r.send = <<m>>) /\ ~isScheduled(s, timeout(l))
    <3>1. PICK m \in Message : r.send = <<m>>
      BY <2>2
    <3>2. r.send # <<>>
      BY <3>1
    <3>3. /\ finishes' = [finishes EXCEPT ![l] = Head(fes).time + duration[l][m.id]]
          /\ finishes'[l] \in Int
          /\ ListOK(fes') /\ Later(fes', t) /\ faults' \in 0 .. par.faults
          /\ \A w : TimeoutOK(fes', l, finishes'[l], w, t)
          /\ SameTimers(fes', s)
          /\ \A k \in Link : \A end, w :
                k # l /\ TimeoutOK(s, k, end, w, t) => TimeoutOK(fes', k, end, w, t)
      BY <1>1, <2>2, <3>1, <3>2, Transmits
    <3>4. finishes' \in [Link -> Int] /\ \A k \in Link : k # l => finishes'[k] = finishes[k]
      <4> DEFINE z == Head(fes).time + duration[l][m.id]
      <4>1. finishes' = [finishes EXCEPT ![l] = z]
        BY <3>3
      <4> HIDE DEF z
      <4>2. z \in Int
        BY <1>4, <3>3, <4>1
      <4> QED
        BY <1>4, <4>1, <4>2
    <3> QED
      BY <1>6, <3>3, <3>4
  <2> QED
    BY <2>1, <2>2
<1>8. TimeOK'
  BY <1>1, <1>2, <1>3, <1>7 DEF TimeOK
<1>9. LinksOK'
  <2>1. ASSUME NEW k \in Link
        PROVE  /\ Len(queue'[k].queue) =< par'.maxQueueLength
               /\ TimeoutOK(fes', k, finishes'[k], queue'[k].queue, now')
    BY <1>1, <1>4, <1>5, <1>7
  <2> QED
    BY <1>5, <1>7, <2>1 DEF LinksOK
<1>10. NodesOK'
  BY <1>1, <1>7 DEF SimInv, NodesOK, Pingers
<1> QED
  BY <1>7, <1>8, <1>9, <1>10 DEF SimInv

(***************************************************************************)
(* The two handlers of a queue: what they send, and how the link's timeout *)
(* stands then.                                                            *)
(***************************************************************************)
LEMMA MessageHandler ==
    ASSUME SimInv, QueueMessage
    PROVE  \E l \in Link :
           LET h == Head(fes)
               q == queue[l]
               r == Q!OnMessage(q, par, h.time, finishes[l], h.msg)
           IN  /\ Arrives("queue") /\ QueueStep(l, r) /\ h.msg \in Message
               /\ r.q \in QueueType /\ Len(r.q.queue) =< par.maxQueueLength
               /\ \/ /\ r.send = <<>> /\ isScheduled(fes, timeout(l))
                     /\ TimeoutOK(Tail(fes), l, finishes[l], r.q.queue, h.time)
                     /\ ~(q.queue = <<>> /\ finishes[l] =< h.time)
                  \/ /\ r.send = <<h.msg>> /\ ~isScheduled(fes, timeout(l))
                     /\ ~isScheduled(Tail(fes), timeout(l))
                     /\ q.queue = <<>> /\ finishes[l] =< h.time
<1> DEFINE h == Head(fes)
           s == Tail(fes)
           l == <<h.to[2], h.to[3]>>
           q == queue[l]
           r == Q!OnMessage(q, par, h.time, finishes[l], h.msg)
<1>1. Arrives("queue") /\ QueueStep(l, r)
  BY DEF QueueMessage
<1>2. /\ EventOK(h) /\ h.time \in Int /\ h.to[1] = "queue" /\ par \in Parameters
      /\ ~aborted /\ fes # <<>>
  BY <1>1, Handled
<1>3. l \in Link /\ h.msg \in Message
  <2> HIDE DEF h
  <2> QED
    BY <1>2, Kinds
<1> HIDE DEF h, l
<1>4. /\ q \in QueueType /\ finishes[l] \in Int /\ now \in Int /\ h.time >= now
      /\ Len(q.queue) =< par.maxQueueLength /\ par.maxQueueLength \in Nat
      /\ TimeoutOK(fes, l, finishes[l], q.queue, now)
      /\ q.queue \in Seq(Message)
  <2>1. h.time >= now
    BY <1>2, NextEvent DEF SimInv, h
  <2>2. now \in Int /\ par.maxQueueLength \in Nat
    BY ParametersType DEF SimInv, TimeOK
  <2>3. /\ q \in QueueType /\ finishes[l] \in Int /\ Len(q.queue) =< par.maxQueueLength
        /\ TimeoutOK(fes, l, finishes[l], q.queue, now)
    BY <1>3 DEF SimInv, LinksOK
  <2> QED
    BY <2>1, <2>2, <2>3 DEF QueueType
<1>5. /\ r.q \in QueueType
      /\ \/ q.queue = <<>> /\ finishes[l] =< h.time /\ r.q.queue = <<>> /\ r.send = <<h.msg>>
         \/ /\ q.queue # <<>> \/ ~(finishes[l] =< h.time)
            /\ r.send = <<>>
            /\ \/ r.q.queue = q.queue
               \/ r.q.queue = Append(q.queue, h.msg) /\ Len(q.queue) < par.maxQueueLength
  <2> DEFINE u == h.time  end == finishes[l]  m == h.msg
  <2>1. q \in QueueType /\ u \in Int /\ m \in Message
    BY <1>2, <1>3, <1>4
  <2> HIDE DEF q, u, end, m
  <2>2. LET o == Q!OnMessage(q, par, u, end, m) IN
        /\ o.q \in QueueType
        /\ \/ q.queue = <<>> /\ end =< u /\ o.q.queue = <<>> /\ o.send = <<m>>
           \/ /\ q.queue # <<>> \/ ~(end =< u)
              /\ o.send = <<>>
              /\ \/ o.q.queue = q.queue
                 \/ o.q.queue = Append(q.queue, m) /\ Len(q.queue) < par.maxQueueLength
    BY <2>1, OnMessageDoes
  <2> QED
    BY <2>2 DEF u, end, m
<1> HIDE DEF r
<1>6. Len(r.q.queue) =< par.maxQueueLength
  BY <1>4, <1>5
<1>7. /\ TimeoutOK(s, l, finishes[l], q.queue, h.time)
      /\ isScheduled(s, timeout(l)) <=> isScheduled(fes, timeout(l))
  BY <1>1, <1>3, OtherLinks DEF h
<1>8. CASE q.queue = <<>> /\ finishes[l] =< h.time /\ r.send = <<h.msg>>
  <2>1. ~isScheduled(fes, timeout(l))
    <3> SUFFICES ASSUME isScheduled(fes, timeout(l)) PROVE FALSE
      OBVIOUS
    <3>1. PICK e \in ToSet(fes) : e.to = timeout(l)
      BY ScheduledSet
    <3>2. e.time = finishes[l]
      BY <1>4, <3>1 DEF TimeoutOK
    <3>3. e.time > h.time
      BY <1>2, <1>3, <3>1, TimeoutsAfter DEF SimInv, h
    <3> QED
      BY <1>2, <1>4, <1>8, <3>2, <3>3
  <2> QED
    BY <1>1, <1>3, <1>5, <1>6, <1>7, <1>8, <2>1 DEF h, r
<1>9. CASE (q.queue # <<>> \/ ~(finishes[l] =< h.time)) /\ r.send = <<>>
  <2>1. isScheduled(s, timeout(l))
    BY <1>2, <1>4, <1>7, <1>9 DEF TimeoutOK
  <2>2. TimeoutOK(s, l, finishes[l], r.q.queue, h.time)
    BY <1>7, <2>1 DEF TimeoutOK
  <2>3. ~(q.queue = <<>> /\ finishes[l] =< h.time)
    BY <1>9
  <2> QED
    BY <1>1, <1>3, <1>5, <1>6, <1>7, <1>9, <2>1, <2>2, <2>3 DEF h, r
<1> QED
  BY <1>5, <1>8, <1>9

LEMMA TimeoutHandler ==
    ASSUME SimInv, QueueTimeout
    PROVE  \E l \in Link :
           LET h == Head(fes)
               q == queue[l]
               r == Q!OnTimeout(q, par, h.time, finishes[l])
           IN  /\ Arrives("timeout") /\ QueueStep(l, r) /\ h.to = timeout(l)
               /\ h.time = finishes[l] /\ isScheduled(fes, timeout(l))
               /\ ~isScheduled(Tail(fes), timeout(l))
               /\ r.q \in QueueType /\ Len(r.q.queue) =< par.maxQueueLength
               /\ \/ /\ r.send = <<>> /\ q.queue = <<>>
                     /\ TimeoutOK(Tail(fes), l, finishes[l], r.q.queue, h.time)
                  \/ /\ q.queue # <<>> /\ r.send = <<Head(q.queue)>>
                     /\ Head(q.queue) \in Message
<1> DEFINE h == Head(fes)
           s == Tail(fes)
           l == <<h.to[2], h.to[3]>>
           q == queue[l]
           r == Q!OnTimeout(q, par, h.time, finishes[l])
<1>1. Arrives("timeout") /\ QueueStep(l, r)
  BY DEF QueueTimeout
<1>2. /\ EventOK(h) /\ h.time \in Int /\ h.to[1] = "timeout" /\ par \in Parameters
      /\ ~aborted /\ fes # <<>>
  BY <1>1, Handled
<1>3. l \in Link /\ h.to = timeout(l)
  <2> HIDE DEF h
  <2>1. \E k \in Link : h.to = timeout(k) /\ k = <<h.to[2], h.to[3]>>
    BY <1>2, Kinds
  <2> QED
    BY <2>1
<1> HIDE DEF h, l
<1>4. /\ q \in QueueType /\ finishes[l] \in Int
      /\ Len(q.queue) =< par.maxQueueLength /\ par.maxQueueLength \in Nat
      /\ TimeoutOK(fes, l, finishes[l], q.queue, now)
      /\ q.queue \in Seq(Message)
  <2>2. par.maxQueueLength \in Nat
    BY <1>2, ParametersType
  <2>3. /\ q \in QueueType /\ finishes[l] \in Int /\ Len(q.queue) =< par.maxQueueLength
        /\ TimeoutOK(fes, l, finishes[l], q.queue, now)
    BY <1>3 DEF SimInv, LinksOK
  <2> QED
    BY <2>2, <2>3 DEF QueueType
<1>5. /\ ToSet(fes) = {h} \cup ToSet(s) /\ (Once(fes, h.to) => ~isScheduled(s, h.to))
  BY <1>2, NextEvent DEF SimInv, h, s
<1> HIDE DEF s
<1>6. /\ h.time = finishes[l] /\ isScheduled(fes, timeout(l)) /\ ~isScheduled(s, timeout(l))
  BY <1>3, <1>4, <1>5, ScheduledSet DEF TimeoutOK
<1>7. /\ r.q \in QueueType
      /\ \/ q.queue # <<>> /\ r.q.queue = Tail(q.queue) /\ r.send = <<Head(q.queue)>>
         \/ q.queue = <<>> /\ r.q.queue = <<>> /\ r.send = <<>>
  <2> DEFINE u == h.time  end == finishes[l]
  <2>1. q \in QueueType /\ u \in Int
    BY <1>2, <1>4
  <2> HIDE DEF q, u, end
  <2>2. LET o == Q!OnTimeout(q, par, u, end) IN
        /\ o.q \in QueueType
        /\ \/ q.queue # <<>> /\ o.q.queue = Tail(q.queue) /\ o.send = <<Head(q.queue)>>
           \/ q.queue = <<>> /\ o.q.queue = <<>> /\ o.send = <<>>
    BY <2>1, OnTimeoutDoes
  <2> QED
    BY <2>2 DEF u, end
<1> HIDE DEF r
<1>8. Len(r.q.queue) =< par.maxQueueLength
  <2>1. CASE q.queue # <<>> /\ r.q.queue = Tail(q.queue)
    <3> DEFINE w == q.queue
    <3>1. w \in Seq(Message) /\ w # <<>> /\ Len(w) =< par.maxQueueLength
      BY <1>4, <2>1
    <3> HIDE DEF w
    <3>2. Len(Tail(w)) = Len(w) - 1 /\ Len(w) \in Nat
      BY <3>1, HeadTailProperties
    <3> QED
      BY <1>4, <2>1, <3>1, <3>2 DEF w
  <2>2. CASE r.q.queue = <<>>
    BY <1>4, <2>2
  <2> QED
    BY <1>7, <2>1, <2>2
<1>9. CASE q.queue # <<>> /\ r.send = <<Head(q.queue)>>
  <2>1. Head(q.queue) \in Message
    BY <1>4, <1>9
  <2> QED
    BY <1>1, <1>3, <1>6, <1>7, <1>8, <1>9, <2>1 DEF h, s, r
<1>10. CASE q.queue = <<>> /\ r.q.queue = <<>> /\ r.send = <<>>
  <2>1. ~(finishes[l] > h.time)
    BY <1>2, <1>6
  <2>2. Once(s, timeout(l))
    <3>1. \A i \in DOMAIN s : s[i].to # timeout(l)
      BY <1>6 DEF isScheduled
    <3> QED
      BY <3>1 DEF Once
  <2>3. TimeoutOK(s, l, finishes[l], r.q.queue, h.time)
    BY <1>6, <1>10, <2>1, <2>2, ScheduledSet DEF TimeoutOK
  <2> QED
    BY <1>1, <1>3, <1>6, <1>7, <1>8, <1>10, <2>3 DEF h, s, r
<1> QED
  BY <1>7, <1>9, <1>10

LEMMA PingersListed ==
    ASSUME par \in Parameters
    PROVE  /\ Pingers \subseteq Node /\ Cardinality(Pingers) \in Nat
           /\ SetToSeq(Pingers) \in [1 .. Cardinality(Pingers) -> Pingers]
<1>1. Pingers \subseteq Node /\ IsFiniteSet(Pingers)
  <2>1. Pingers \subseteq Node
    BY ParametersAssumption DEF Pingers
  <2> QED
    BY <2>1, NodesAssumption, FS_Subset
<1>2. PICK n \in Nat : ExistsBijection(1 .. n, Pingers)
  BY <1>1, FS_NatBijection
<1>3. Cardinality(Pingers) = n
  BY <1>2, FS_CountingElements
<1>4. \E f \in [1 .. n -> Pingers] : IsInjective(f)
  BY <1>2 DEF ExistsBijection, Bijection, Injection, IsInjective
<1> QED
  BY <1>1, <1>3, <1>4 DEF SetToSeq

\* What is scheduled at first.
LEMMA FirstEvents ==
    ASSUME par \in Parameters
    PROVE  LET s == InitialEvents
               k == IF par.send THEN 1 ELSE 0
           IN  /\ IsList(s) /\ Len(s) >= k
               /\ \A i \in DOMAIN s :
                     /\ EventOK(s[i]) /\ s[i].time >= 0 /\ s[i].to[1] # "timeout"
                     /\ i =< k => s[i].to = timer0 /\ s[i].time = 0
                     /\ i > k => s[i].to[1] = "pingtimer"
                     /\ s[i].prio = 0
<1> DEFINE k == IF par.send THEN 1 ELSE 0
           n == Cardinality(Pingers)
           e == Event(0, 0, timer0, <<>>)
           f(i) == Event(par.pingStart, 0, <<"pingtimer", SetToSeq(Pingers)[i]>>, <<>>)
           a == IF par.send THEN <<e>> ELSE <<>>
           b == [i \in 1 .. n |-> f(i)]
           s == a \o b
           T == {e} \cup {f(i) : i \in 1 .. n}
<1>1. InitialEvents = s
  BY DEF InitialEvents, timer0
<1>2. n \in Nat /\ \A i \in 1 .. n : SetToSeq(Pingers)[i] \in Node
  BY PingersListed
<1>3. par.pingStart \in Nat
  BY ParametersType
<1>4. EventOK(e) /\ e.to = timer0 /\ e.time = 0 /\ e.prio = 0 /\ e.to[1] = "timer0"
  <2>1. e.to = timer0 /\ e.time = 0 /\ e.prio = 0
    BY DEF Event
  <2> HIDE DEF e
  <2>2. 0 \in Int /\ ATimer(timer0) /\ timer0[1] = "timer0"
    BY SourceFacts
  <2>3. EventOK(e)
    BY <2>2, TimerEvent DEF e
  <2> QED
    BY <2>1, <2>2, <2>3
<1>5. ASSUME NEW i \in 1 .. n
      PROVE  /\ EventOK(f(i)) /\ f(i).to[1] = "pingtimer" /\ f(i).time = par.pingStart
             /\ f(i).prio = 0
  <2> DEFINE m == SetToSeq(Pingers)[i]
  <2>1. ATimer(<<"pingtimer", m>>)
    BY <1>2 DEF ATimer
  <2> HIDE DEF m
  <2>2. LET g == Event(par.pingStart, 0, <<"pingtimer", m>>, <<>>) IN
        EventOK(g) /\ g.to[1] = "pingtimer" /\ g.time = par.pingStart
    BY <1>3, <2>1, TimerEvent
  <2>3. f(i).prio = 0
    BY DEF Event
  <2> QED
    BY <2>2, <2>3 DEF m
<1> HIDE DEF n, e, f
<1>6. /\ a \in Seq(T) /\ b \in Seq(T) /\ Len(a) = k /\ Len(b) = n
      /\ k = 1 => a[1] = e
      /\ \A i \in 1 .. n : b[i] = f(i)
  <2>1. a \in Seq(T) /\ Len(a) = k /\ (k = 1 => a[1] = e)
    <3>1. e \in T
      OBVIOUS
    <3> HIDE DEF T
    <3>2. CASE par.send
      <4>1. k = 1 /\ a = <<e>>
        BY <3>2
      <4> QED
        BY <3>1, <4>1
    <3>3. CASE ~par.send
      <4>1. k = 0 /\ a = <<>>
        BY <3>3
      <4> QED
        BY <4>1
    <3> QED
      BY <3>2, <3>3
  <2>2. \A i \in 1 .. n : b[i] = f(i) /\ f(i) \in T
    OBVIOUS
  <2>3. b \in Seq(T) /\ Len(b) = n
    BY <1>2, <2>2
  <2> QED
    BY <2>1, <2>2, <2>3
<1>7. k \in {0, 1}
  OBVIOUS
<1> HIDE DEF a, b, T, k
<1>8. /\ s \in Seq(T) /\ Len(s) = k + n /\ DOMAIN s = 1 .. k + n
      /\ \A i \in 1 .. k + n : s[i] = IF i =< k THEN a[i] ELSE b[i - k]
  BY <1>2, <1>6, <1>7, ConcatProperties
<1> HIDE DEF s
<1>9. ASSUME NEW i \in DOMAIN s
      PROVE  /\ i =< k => s[i] = e
             /\ i > k => i - k \in 1 .. n /\ s[i] = f(i - k)
  <2>1. i \in Int /\ i >= 1 /\ i =< k + n /\ k \in Int
    BY <1>2, <1>7, <1>8
  <2>2. i =< k => i = 1 /\ k = 1
    BY <1>7, <2>1
  <2>3. i > k => i - k \in 1 .. n
    BY <1>2, <1>7, <2>1
  <2> QED
    BY <1>6, <1>8, <2>1, <2>2, <2>3
<1>10. ASSUME NEW i \in DOMAIN s
       PROVE  /\ EventOK(s[i]) /\ s[i].time >= 0 /\ s[i].to[1] # "timeout"
              /\ i =< k => s[i].to = timer0 /\ s[i].time = 0
              /\ i > k => s[i].to[1] = "pingtimer" /\ s[i].time = par.pingStart
              /\ s[i].prio = 0
  <2>1. i =< k \/ i > k
    BY <1>7, <1>8
  <2> QED
    BY <1>3, <1>4, <1>5, <1>9, <2>1
<1>11. Sorted(s)
  <2> SUFFICES ASSUME NEW i \in DOMAIN s, NEW j \in DOMAIN s, i < j PROVE NotAfter(s[i], s[j])
    BY DEF Sorted
  <2>1. s[i].prio = 0 /\ s[j].prio = 0
    BY <1>10
  <2>2. i =< k \/ (i > k /\ j > k)
    BY <1>7, <1>8
  <2>3. s[i].time =< s[j].time /\ s[i].time \in Int /\ s[j].time \in Int
    BY <1>3, <1>10, <2>2 DEF EventOK
  <2> QED
    BY <2>1, <2>3 DEF NotAfter
<1>12. IsList(s)
  <2>1. \A i \in 1 .. Len(s) : s[i] \in ToSet(s)
    BY <1>8, IndexInSet
  <2>2. s \in Seq(ToSet(s))
    BY <1>8, <2>1, IsASeq
  <2>3. \A x \in ToSet(s) : x.time \in Int /\ x.prio \in Int
    BY <1>10, SetIndex DEF EventOK
  <2> QED
    BY <1>11, <2>2, <2>3 DEF IsList
<1>13. Len(s) >= k
  BY <1>2, <1>7, <1>8
<1> QED
  BY <1>1, <1>10, <1>12, <1>13 DEF k

LEMMA InitInv == Init => SimInv
<1> SUFFICES ASSUME Init PROVE SimInv
  OBVIOUS
<1>1. /\ par \in Parameters /\ now = 0 /\ fes = InitialEvents /\ faults = 0 /\ changes = 0
      /\ routes = [n \in Node |-> R!calculateRoutes(cost, n, [m \in Node |-> NoRoute])]
      /\ queue = [l \in Link |-> Q!NewQueue(par)] /\ finishes = [l \in Link |-> 0]
      /\ rcv = [lastReceivedSeqNo |-> -1]
  BY DEF Init
<1>2. /\ par.limit \in Nat /\ par.faults \in Nat /\ par.changes \in Nat /\ par.pingStart \in Nat
      /\ par.maxQueueLength \in Nat /\ par.transientRemoval \in Int
  BY <1>1, ParametersType
<1>3. /\ IsList(fes)
      /\ \A i \in DOMAIN fes : EventOK(fes[i]) /\ fes[i].time >= 0 /\ fes[i].to[1] # "timeout"
  BY <1>1, FirstEvents
<1>4. TimeOK
  <2>1. ListOK(fes) /\ Later(fes, 0)
    BY <1>3, SetIndex DEF ListOK, Later
  <2> QED
    BY <1>1, <1>2, <2>1 DEF TimeOK
<1>5. ASSUME NEW l \in Link PROVE TimeoutOK(fes, l, 0, <<>>, 0)
  <2>1. \A i \in DOMAIN fes : fes[i].to # timeout(l)
    BY <1>3, NotATimeout
  <2> QED
    BY <2>1, SetIndex DEF TimeoutOK, Once
<1>6. LinksOK
  <2> DEFINE new == Q!NewQueue(par)
  <2>1. new \in QueueType /\ new.queue = <<>>
    BY <1>2, NewQueueType DEF Q!NewQueue
  <2> HIDE DEF new
  <2>2. queue = [l \in Link |-> new]
    BY <1>1 DEF new
  <2> QED
    BY <1>1, <1>2, <1>5, <2>1, <2>2 DEF LinksOK
<1>7. snd \in SenderType
  <2>1. snd = [lastAckSeqNo |-> 0, nextSendSeqNo |-> 0, nextSendTime |-> 0,
               timerExpiration |-> Never, packetBuffer |-> <<>>]
    BY DEF Init
  <2>2. <<>> \in Buffer
    <3>1. <<>> \in [{} -> Int] /\ {} \in SUBSET Nat
      OBVIOUS
    <3> QED
      BY <3>1 DEF Buffer
  <2> QED
    BY <2>1, <2>2, SourceFacts DEF SenderType
<1>8. ping \in [Node -> PingType] /\ \A n \in Node \ Pingers : ping[n].nextSend = Never
  <2>1. ping = [n \in Node |->
                  [lastSentSeqNo |-> -1, sent |-> 0, received |-> 0,
                   nextSend |-> IF n \in Pingers THEN par.pingStart ELSE Never]]
    BY DEF Init
  <2> QED
    BY <1>2, <2>1, SourceFacts DEF PingType
<1>9. \A n \in Node : RoutesOK(routes[n], n)
  <2> TAKE n \in Node
  <2>1. RoutesOK([m \in Node |-> NoRoute], n)
    BY DEF RoutesOK, Hops
  <2> QED
    BY <1>1, <2>1, RoutesKept
<1>10. NodesOK
  BY <1>1, <1>2, <1>7, <1>8, <1>9 DEF NodesOK
<1> QED
  BY <1>4, <1>6, <1>10 DEF SimInv

LEMMA MessageStep ==
    ASSUME SimInv, QueueMessage PROVE SimInv' /\ SameTimers(fes', Tail(fes))
<1>1. PICK l \in Link :
        LET h == Head(fes)
            r == Q!OnMessage(queue[l], par, h.time, finishes[l], h.msg)
        IN  /\ Arrives("queue") /\ QueueStep(l, r)
            /\ r.q \in QueueType /\ Len(r.q.queue) =< par.maxQueueLength
            /\ \/ /\ r.send = <<>>
                  /\ TimeoutOK(Tail(fes), l, finishes[l], r.q.queue, h.time)
               \/ /\ \E m \in Message : r.send = <<m>>
                  /\ ~isScheduled(Tail(fes), timeout(l))
  BY MessageHandler
<1> DEFINE r == Q!OnMessage(queue[l], par, Head(fes).time, finishes[l], Head(fes).msg)
<1>2. /\ Arrives("queue") /\ QueueStep(l, r)
      /\ r.q \in QueueType /\ Len(r.q.queue) =< par.maxQueueLength
      /\ \/ /\ r.send = <<>>
            /\ TimeoutOK(Tail(fes), l, finishes[l], r.q.queue, Head(fes).time)
         \/ /\ \E m \in Message : r.send = <<m>>
            /\ ~isScheduled(Tail(fes), timeout(l))
  BY <1>1
<1> HIDE DEF r
<1> QED
  BY <1>2, QueueKeeps

LEMMA TimeoutStep ==
    ASSUME SimInv, QueueTimeout PROVE SimInv' /\ SameTimers(fes', Tail(fes))
<1>1. PICK l \in Link :
        LET h == Head(fes)
            r == Q!OnTimeout(queue[l], par, h.time, finishes[l])
        IN  /\ Arrives("timeout") /\ QueueStep(l, r) /\ h.to = timeout(l)
            /\ r.q \in QueueType /\ Len(r.q.queue) =< par.maxQueueLength
            /\ \/ /\ r.send = <<>>
                  /\ TimeoutOK(Tail(fes), l, finishes[l], r.q.queue, h.time)
               \/ /\ \E m \in Message : r.send = <<m>>
                  /\ ~isScheduled(Tail(fes), timeout(l))
  BY TimeoutHandler
<1> DEFINE r == Q!OnTimeout(queue[l], par, Head(fes).time, finishes[l])
<1>2. /\ Arrives("timeout") /\ QueueStep(l, r) /\ Head(fes).to = timeout(l)
      /\ r.q \in QueueType /\ Len(r.q.queue) =< par.maxQueueLength
      /\ \/ /\ r.send = <<>>
            /\ TimeoutOK(Tail(fes), l, finishes[l], r.q.queue, Head(fes).time)
         \/ /\ \E m \in Message : r.send = <<m>>
            /\ ~isScheduled(Tail(fes), timeout(l))
  BY <1>1
<1> HIDE DEF r
<1> QED
  BY <1>2, QueueKeeps

LEMMA StepInv == SimInv /\ [Next]_vars => SimInv'
<1> SUFFICES ASSUME SimInv, [Next]_vars PROVE SimInv'
  OBVIOUS
<1>1. CASE StackHandles
  BY <1>1, StackStep
<1>2. CASE DaemonHandles
  BY <1>2, DaemonStep
<1>3. CASE QueueMessage
  BY <1>3, MessageStep
<1>4. CASE QueueTimeout
  BY <1>4, TimeoutStep
<1>5. ASSUME NEW c \in Commands, ConPar(c[1], c[2]) PROVE SimInv'
  BY <1>5, ConParStep
<1>6. CASE SendNext
  BY <1>6, SendNextStep
<1>7. CASE Expire
  BY <1>7, ExpireStep
<1>8. CASE ReceiveAck
  BY <1>8, AckStep
<1>9. CASE ReceiveData
  BY <1>9, DataStep
<1>10. CASE PingTimer
  BY <1>10, PingTimerStep
<1>11. CASE ReceivePing
  BY <1>11, PingStep
<1>12. CASE UNCHANGED vars
  BY <1>12 DEF vars, SimInv, TimeOK, LinksOK, NodesOK, Pingers
<1> QED
  BY <1>1, <1>2, <1>3, <1>4, <1>5, <1>6, <1>7, <1>8, <1>9, <1>10, <1>11, <1>12 DEF Next

(***************************************************************************)
(* The variables have their types, no event is scheduled for the past,     *)
(* and no interface queue is longer than its limit (handleMessage of       *)
(* InterfaceQueue), in every network and for all parameters.  A failed     *)
(* assertion ends the program in the middle of a handler; what the         *)
(* handler leaves is then of no use, so the theorem speaks of a            *)
(* simulation that has not been aborted.                                   *)
(***************************************************************************)
THEOREM SimTypeCorrect == Spec => [](aborted \/ TypeOK)
<1>1. SimInv => aborted \/ TypeOK
  <2> SUFFICES ASSUME SimInv, ~aborted PROVE TypeOK
    OBVIOUS
  <2>1. \A i \in DOMAIN fes : fes[i].time >= now
    BY IndexInSet DEF SimInv, TimeOK, Later
  <2>2. \A l \in Link : Len(queue[l].queue) =< par.maxQueueLength
    BY DEF SimInv, LinksOK
  <2>3. snd.lastAckSeqNo \in Nat /\ snd.nextSendSeqNo \in Nat /\ rcv.lastReceivedSeqNo >= -1
    BY DEF SimInv, NodesOK, SenderType
  <2> QED
    BY <2>1, <2>2, <2>3 DEF SimInv, TimeOK, NodesOK, TypeOK
<1> QED
  BY <1>1, InitInv, StepInv, PTL DEF Spec

(***************************************************************************)
(* A queue never stops: while its link is busy, or messages wait for the   *)
(* link, there is exactly one timeout, at the time when the link becomes   *)
(* free.  So a message that arrives at this very time neither schedules a  *)
(* second timeout nor overtakes the queue (handleMessage of                *)
(* InterfaceQueue).                                                        *)
(***************************************************************************)
THEOREM QueuesGoOn == Spec => []QueueRestarts
<1>1. SimInv => QueueRestarts
  <2> SUFFICES ASSUME SimInv, NEW l \in Link, finishes[l] > now \/ queue[l].queue # <<>>
               PROVE  Cardinality({i \in DOMAIN fes :
                          fes[i].to = timeout(l) /\ fes[i].time = finishes[l]}) = 1
    BY DEF QueueRestarts
  <2>1. TimeoutOK(fes, l, finishes[l], queue[l].queue, now)
    BY DEF SimInv, LinksOK
  <2>2. PICK i \in DOMAIN fes : fes[i].to = timeout(l)
    BY <2>1 DEF TimeoutOK, isScheduled
  <2>3. fes[i].time = finishes[l]
    BY <2>1, <2>2, IndexInSet DEF TimeoutOK
  <2>4. {j \in DOMAIN fes : fes[j].to = timeout(l) /\ fes[j].time = finishes[l]} = {i}
    BY <2>1, <2>2, <2>3 DEF TimeoutOK, Once
  <2> QED
    BY <2>4, FS_Singleton
<1> QED
  BY <1>1, InitInv, StepInv, PTL DEF Spec

(***************************************************************************)
(* The timers of the sender: each is scheduled when its variable says so.  *)
(***************************************************************************)
TimerOK(s, to, t) ==
    /\ Once(s, to)
    /\ \A e \in ToSet(s) : e.to = to => e.time = t
    /\ isScheduled(s, to) <=> t # Never

Timers(s, t0, t1) == IsList(s) /\ TimerOK(s, timer0, t0) /\ TimerOK(s, timer1, t1)

LEMMA TwoTimers == timer0 # timer1
BY DEF timer0, timer1

LEMMA TimersScheduled ==
    ASSUME NEW s, NEW t0, NEW t1, Timers(s, t0, t1), NEW e, e.time \in Int, e.prio \in Int
    PROVE  LET new == scheduleAt(s, e) IN
           /\ e.to # timer0 /\ e.to # timer1 => Timers(new, t0, t1)
           /\ e.to = timer0 /\ t0 = Never /\ e.time # Never => Timers(new, e.time, t1)
           /\ e.to = timer1 /\ t1 = Never /\ e.time # Never => Timers(new, t0, e.time)
<1> DEFINE new == scheduleAt(s, e)
<1>1. /\ IsList(new) /\ ToSet(new) = ToSet(s) \cup {e}
      /\ \A to : \/ Once(s, to) /\ e.to # to
                 \/ ~isScheduled(s, to)
                 => Once(new, to)
  BY ScheduleAt DEF Timers
<1> HIDE DEF new
<1>2. ASSUME NEW to, NEW t, TimerOK(s, to, t), e.to # to PROVE TimerOK(new, to, t)
  <2>1. isScheduled(new, to) <=> isScheduled(s, to)
    BY <1>1, <1>2, ScheduledSet
  <2> QED
    BY <1>1, <1>2, <2>1 DEF TimerOK
<1>3. ASSUME NEW to, TimerOK(s, to, Never), e.to = to, e.time # Never
      PROVE  TimerOK(new, to, e.time)
  <2>1. ~isScheduled(s, to)
    BY <1>3 DEF TimerOK
  <2>2. isScheduled(new, to) /\ \A f \in ToSet(new) : f.to = to => f = e
    BY <1>1, <1>3, <2>1, ScheduledSet
  <2> QED
    BY <1>1, <1>3, <2>1, <2>2 DEF TimerOK
<1> QED
  BY <1>1, <1>2, <1>3, TwoTimers DEF Timers, new

LEMMA TimersCancelled ==
    ASSUME NEW s, NEW t0, NEW t1, Timers(s, t0, t1)
    PROVE  Timers(cancelEvent(s, timer1), t0, Never)
<1> DEFINE new == cancelEvent(s, timer1)
<1>1. /\ IsList(new)
      /\ ToSet(new) \subseteq ToSet(s)
      /\ \A e \in ToSet(s) : e.to # timer1 => e \in ToSet(new)
      /\ \A x : Once(s, x) => Once(new, x)
      /\ Once(s, timer1) => ~isScheduled(new, timer1)
  BY Cancelled DEF Timers
<1> HIDE DEF new
<1>2. TimerOK(new, timer0, t0)
  <2>1. isScheduled(new, timer0) <=> isScheduled(s, timer0)
    BY <1>1, ScheduledSet, TwoTimers
  <2> QED
    BY <1>1, <2>1 DEF Timers, TimerOK
<1>3. TimerOK(new, timer1, Never)
  <2>1. ~isScheduled(new, timer1) /\ Once(new, timer1)
    BY <1>1 DEF Timers, TimerOK
  <2>2. \A e \in ToSet(new) : e.to # timer1
    BY <2>1, ScheduledSet
  <2> QED
    BY <2>1, <2>2 DEF TimerOK
<1> QED
  BY <1>1, <1>2, <1>3 DEF Timers, new

LEMMA TimersTaken ==
    ASSUME NEW s, s # <<>>, NEW t0, NEW t1, Timers(s, t0, t1)
    PROVE  /\ Head(s).to = timer0 =>
                 Head(s).time = t0 /\ t0 # Never /\ Timers(Tail(s), Never, t1)
           /\ Head(s).to = timer1 =>
                 Head(s).time = t1 /\ t1 # Never /\ Timers(Tail(s), t0, Never)
           /\ Head(s).to # timer0 /\ Head(s).to # timer1 => Timers(Tail(s), t0, t1)
<1> DEFINE h == Head(s)  r == Tail(s)
<1>1. /\ IsList(r) /\ ToSet(s) = {h} \cup ToSet(r)
      /\ \A to : Once(s, to) => Once(r, to)
      /\ Once(s, h.to) => ~isScheduled(r, h.to)
  BY TakeNext DEF Timers
<1> HIDE DEF h, r
<1>2. ASSUME NEW to, NEW t, TimerOK(s, to, t), h.to # to PROVE TimerOK(r, to, t)
  <2>1. isScheduled(r, to) <=> isScheduled(s, to)
    BY <1>1, <1>2, ScheduledSet
  <2> QED
    BY <1>1, <1>2, <2>1 DEF TimerOK
<1>3. ASSUME NEW to, NEW t, TimerOK(s, to, t), h.to = to
      PROVE  h.time = t /\ t # Never /\ TimerOK(r, to, Never)
  <2>1. ~isScheduled(r, to)
    BY <1>1, <1>3 DEF TimerOK
  <2>2. \A e \in ToSet(r) : e.to # to
    BY <2>1, ScheduledSet
  <2>3. isScheduled(s, to) /\ h.time = t
    BY <1>1, <1>3, ScheduledSet DEF TimerOK
  <2> QED
    BY <1>1, <1>3, <2>1, <2>2, <2>3 DEF TimerOK
<1> QED
  BY <1>1, <1>2, <1>3, TwoTimers DEF Timers, h, r

LEMMA TimersWoken ==
    ASSUME NEW s, NEW t1, Timers(s, snd.nextSendTime, t1), NEW t \in Int, t # Never
    PROVE  Timers(Woken(s, t), WokenAt(t), t1) /\ WokenAt(t) # Never
<1> DEFINE e == Event(t, 0, timer0, <<>>)
<1>1. e.time = t /\ e.prio \in Int /\ e.to = timer0
  BY DEF Event
<1> HIDE DEF e
<1>2. CASE snd.nextSendTime = Never
  <2>1. Timers(scheduleAt(s, e), t, t1)
    BY <1>1, <1>2, TimersScheduled
  <2> QED
    BY <1>2, <2>1 DEF Woken, WokenAt, e
<1>3. CASE snd.nextSendTime # Never
  BY <1>3 DEF Woken, WokenAt
<1> QED
  BY <1>2, <1>3

LEMMA TimersKept ==
    ASSUME NEW new, NEW s, SameTimers(new, s), IsList(new), NEW t0, NEW t1, Timers(s, t0, t1)
    PROVE  Timers(new, t0, t1)
<1>1. ASSUME NEW to \in {timer0, timer1}, NEW t, TimerOK(s, to, t) PROVE TimerOK(new, to, t)
  <2>1. \A e : e.to = to => (e \in ToSet(new) <=> e \in ToSet(s))
    BY DEF SameTimers
  <2>2. isScheduled(new, to) <=> isScheduled(s, to)
    BY <2>1, ScheduledSet
  <2> QED
    BY <1>1, <2>1, <2>2 DEF TimerOK, SameTimers
<1> QED
  BY <1>1 DEF Timers

(***************************************************************************)
(* The window: packets that are not acknowledged time out in the order of  *)
(* their numbers, none of them before the timer expires and none more than *)
(* a timeout from now.                                                     *)
(***************************************************************************)
Window(s, latest) ==
    /\ s.lastAckSeqNo =< s.nextSendSeqNo
    /\ \A i \in s.lastAckSeqNo .. s.nextSendSeqNo - 1 :
          /\ i \in DOMAIN s.packetBuffer
          /\ s.timerExpiration =< s.packetBuffer[i] /\ s.packetBuffer[i] =< latest
    /\ \A i, j \in s.lastAckSeqNo .. s.nextSendSeqNo - 1 :
          i =< j => s.packetBuffer[i] =< s.packetBuffer[j]

SenderOK ==
    /\ Timers(fes, snd.nextSendTime, snd.timerExpiration)
    /\ Window(snd, now + par.timeout)
    /\ DOMAIN snd.packetBuffer # {} =>
          snd.nextSendTime # Never \/ snd.timerExpiration # Never

SenderInv == par.send /\ ~aborted => SenderOK

LEMMA WindowLater ==
    ASSUME NEW s \in SenderType, NEW x \in Int, NEW y \in Int, x =< y, Window(s, x)
    PROVE  Window(s, y)
<1>1. ASSUME NEW i \in s.lastAckSeqNo .. s.nextSendSeqNo - 1
      PROVE  s.packetBuffer[i] =< y
  <2>1. s.packetBuffer[i] =< x /\ s.packetBuffer[i] \in Int
    BY BufferType DEF Window, SenderType
  <2> QED
    BY <2>1
<1> QED
  BY <1>1 DEF Window

\* The window is empty.
LEMMA NoWindow ==
    ASSUME NEW s \in SenderType, s.lastAckSeqNo = s.nextSendSeqNo, NEW x PROVE Window(s, x)
<1>1. s.lastAckSeqNo \in Nat
  BY DEF SenderType
<1> QED
  BY <1>1 DEF Window

\* All but the sender.
LEMMA OthersKeepSender ==
    ASSUME SimInv, SimInv', SenderInv, ~aborted, UNCHANGED <<par, snd>>,
           now' >= now, SameTimers(fes', fes)
    PROVE  SenderInv'
<1> SUFFICES ASSUME par.send
             PROVE  /\ Timers(fes', snd.nextSendTime, snd.timerExpiration)
                    /\ Window(snd, now' + par.timeout)
                    /\ DOMAIN snd.packetBuffer # {} =>
                          snd.nextSendTime # Never \/ snd.timerExpiration # Never
  BY DEF SenderInv, SenderOK
<1>1. /\ now \in Int /\ now' \in Int /\ par.timeout \in Nat /\ snd \in SenderType
      /\ IsList(fes')
  BY ParametersType DEF SimInv, TimeOK, NodesOK, ListOK
<1>2. /\ Timers(fes, snd.nextSendTime, snd.timerExpiration)
      /\ Window(snd, now + par.timeout)
      /\ DOMAIN snd.packetBuffer # {} =>
            snd.nextSendTime # Never \/ snd.timerExpiration # Never
  BY DEF SenderInv, SenderOK
<1>3. Timers(fes', snd.nextSendTime, snd.timerExpiration)
  BY <1>1, <1>2, TimersKept
<1>4. now + par.timeout \in Int /\ now' + par.timeout \in Int /\ now + par.timeout =< now' + par.timeout
  BY <1>1
<1>5. Window(snd, now' + par.timeout)
  BY <1>1, <1>2, <1>4, WindowLater
<1> QED
  BY <1>2, <1>3, <1>5

LEMMA OtherHandler ==
    ASSUME SimInv, SimInv', SenderInv, NEW kind, Arrives(kind), kind \notin {"timer0", "timer1"},
           UNCHANGED <<par, snd>>, now' = Head(fes).time, SameTimers(fes', Tail(fes))
    PROVE  SenderInv'
<1>1. ~aborted /\ fes # <<>> /\ Head(fes).to[1] = kind
  BY Handled
<1>2. /\ ToSet(fes) = {Head(fes)} \cup ToSet(Tail(fes)) /\ Head(fes).time >= now
      /\ \A to : Once(fes, to) => Once(Tail(fes), to)
  BY <1>1, NextEvent DEF SimInv
<1>3. Head(fes).to # timer0 /\ Head(fes).to # timer1
  BY <1>1, NotATimer DEF Untimed
<1>4. SameTimers(Tail(fes), fes)
  BY <1>2, <1>3 DEF SameTimers
<1>5. SameTimers(fes', fes)
  BY <1>4, TimersTransitive
<1> QED
  BY <1>1, <1>2, <1>5, OthersKeepSender

\* What a handler of the sender can rely on.
LEMMA SenderHandles ==
    ASSUME SimInv, SenderInv, par.send, NEW kind, Arrives(kind)
    PROVE  /\ Timers(fes, snd.nextSendTime, snd.timerExpiration)
           /\ Window(snd, now + par.timeout)
           /\ Window(snd, Head(fes).time + par.timeout)
           /\ snd \in SenderType
           /\ now \in Int /\ Head(fes).time \in Int /\ Head(fes).time >= now
           /\ Head(fes).time # Never /\ Head(fes).time =< par.limit
           /\ par.timeout \in Nat /\ par.interval \in Nat /\ par.limit \in Nat /\ Never \in Int
           /\ par.limit + par.timeout < Never /\ par.limit + par.interval < Never
           /\ ~aborted /\ fes # <<>>
           /\ snd.packetBuffer \in Buffer
<1>1. ~aborted /\ fes # <<>> /\ Head(fes).time =< par.limit /\ Head(fes).time \in Int
  BY Handled
<1>2. Head(fes).time >= now
  BY <1>1, NextEvent DEF SimInv
<1>3. /\ now \in Int /\ par.timeout \in Nat /\ par.interval \in Nat /\ snd \in SenderType
      /\ par.limit < Never /\ par.limit \in Nat
      /\ par.limit + par.timeout < Never /\ par.limit + par.interval < Never
  BY ParametersType DEF SimInv, TimeOK, NodesOK
<1>4. /\ Timers(fes, snd.nextSendTime, snd.timerExpiration)
      /\ Window(snd, now + par.timeout)
  BY <1>1 DEF SenderInv, SenderOK
<1>5. Head(fes).time # Never
  BY <1>1, <1>3, SourceFacts
<1>6. Window(snd, Head(fes).time + par.timeout)
  <2> DEFINE x == now + par.timeout
             y == Head(fes).time + par.timeout
  <2>1. x \in Int /\ y \in Int /\ x =< y
    BY <1>1, <1>2, <1>3
  <2> HIDE DEF x, y
  <2>2. Window(snd, x)
    BY <1>4 DEF x
  <2>3. Window(snd, y)
    BY <1>3, <2>1, <2>2, WindowLater
  <2> QED
    BY <2>3 DEF y
<1> QED
  BY <1>1, <1>2, <1>3, <1>4, <1>5, <1>6, SourceFacts DEF SenderType

LEMMA SenderStepFacts ==
    ASSUME NEW s, NEW events, NEW asserted, SenderStep(s, events, asserted)
    PROVE  /\ snd' = s /\ fes' = events /\ now' = Head(fes).time /\ par' = par
           /\ ~aborted' => asserted = TRUE
BY DEF SenderStep, Pass, Network

LEMMA SenderSends ==
    ASSUME SimInv, SenderInv, SendNext PROVE SenderInv' /\ (par.send => SenderOK')
<1> DEFINE t == Head(fes).time
           s == Tail(fes)
           seqNo == snd.nextSendSeqNo
           v == t + par.timeout
           buffer == [i \in DOMAIN snd.packetBuffer \cup {seqNo} |->
                        IF i = seqNo THEN v ELSE snd.packetBuffer[i]]
           first == v < snd.timerExpiration
           again == IF seqNo + 1 >= snd.lastAckSeqNo + par.window
                       THEN Never ELSE t + par.interval
           sent == scheduleAt(s, ToStack(t, Source, GoBackNSender, Data(seqNo)))
           cancelled == cancelEvent(sent, timer1)
           timed == IF first THEN scheduleAt(cancelled, Event(v, 0, timer1, <<>>))
                    ELSE sent
           events == IF again = Never THEN timed
                     ELSE scheduleAt(timed, Event(again, 0, timer0, <<>>))
           expiration == IF first THEN v ELSE snd.timerExpiration
           new == [snd EXCEPT !.packetBuffer = buffer, !.nextSendSeqNo = seqNo + 1,
                              !.nextSendTime = again, !.timerExpiration = expiration]
           asserted == /\ t = snd.nextSendTime
                       /\ seqNo < snd.lastAckSeqNo + par.window
                       /\ \A i \in DOMAIN snd.packetBuffer : seqNo >= Min(DOMAIN snd.packetBuffer)
                       /\ Cardinality(DOMAIN buffer) =< par.window
<1>1. Arrives("timer0") /\ SenderStep(new, events, asserted)
  BY DEF SendNext
<1>2. snd' = new /\ fes' = events /\ now' = t /\ par' = par
  <2> HIDE DEF new, events, asserted
  <2> QED
    BY <1>1, SenderStepFacts
<1> HIDE DEF asserted
<1> SUFFICES ASSUME par.send
             PROVE  /\ Timers(events, new.nextSendTime, new.timerExpiration)
                    /\ Window(new, v)
                    /\ new.nextSendTime # Never \/ new.timerExpiration # Never
  BY <1>2 DEF SenderInv, SenderOK
<1>3. /\ Timers(fes, snd.nextSendTime, snd.timerExpiration)
      /\ Window(snd, v)
      /\ snd \in SenderType /\ t \in Int /\ t # Never /\ t =< par.limit
      /\ par.timeout \in Nat /\ par.interval \in Nat /\ par.limit \in Nat /\ Never \in Int
      /\ par.limit + par.timeout < Never /\ par.limit + par.interval < Never
      /\ fes # <<>> /\ snd.packetBuffer \in Buffer
  BY <1>1, SenderHandles
<1>4. Head(fes).to = timer0
  <2> DEFINE h == Head(fes)
  <2>1. EventOK(h) /\ h.to[1] = "timer0"
    BY <1>1, Handled
  <2> HIDE DEF h
  <2> QED
    BY <2>1, Kinds DEF h
<1>5. Timers(s, Never, snd.timerExpiration)
  BY <1>3, <1>4, TimersTaken
<1>6. /\ snd.timerExpiration \in Int /\ seqNo \in Nat /\ snd.lastAckSeqNo \in Nat
      /\ new.packetBuffer = buffer /\ new.nextSendSeqNo = seqNo + 1 /\ new.nextSendTime = again
      /\ new.timerExpiration = expiration /\ new.lastAckSeqNo = snd.lastAckSeqNo
  <2>1. snd.timerExpiration \in Int /\ seqNo \in Nat /\ snd.lastAckSeqNo \in Nat
    BY <1>3 DEF SenderType
  <2> HIDE DEF buffer, seqNo, again, expiration
  <2> QED
    BY <1>3, <2>1 DEF SenderType
<1> HIDE DEF new
<1>7. v \in Int /\ v < Never
  BY <1>3
<1>8. again \in Int
  BY <1>3
<1>9. Timers(sent, Never, snd.timerExpiration)
  <2> DEFINE e == ToStack(t, Source, GoBackNSender, Data(seqNo))
  <2>1. e.to[1] = "stack" /\ e.time = t /\ e.prio = 0
    BY DEF ToStack, Event
  <2>2. e.to # timer0 /\ e.to # timer1
    BY <2>1, NotATimer DEF Untimed
  <2> HIDE DEF e
  <2>3. Timers(scheduleAt(s, e), Never, snd.timerExpiration)
    BY <1>3, <1>5, <2>1, <2>2, TimersScheduled
  <2> QED
    BY <2>3 DEF e
<1> HIDE DEF t, s, v, sent
<1>10. Timers(timed, Never, expiration)
  <2>1. CASE first
    <3> DEFINE e == Event(v, 0, timer1, <<>>)
    <3>1. e.time = v /\ e.prio = 0 /\ e.to = timer1
      BY DEF Event
    <3>2. Timers(cancelled, Never, Never)
      BY <1>9, TimersCancelled
    <3> HIDE DEF e, cancelled
    <3>3. Timers(scheduleAt(cancelled, e), Never, v)
      BY <1>3, <1>7, <3>1, <3>2, TimersScheduled
    <3> QED
      BY <2>1, <3>3 DEF e
  <2>2. CASE ~first
    BY <1>9, <2>2
  <2> QED
    BY <2>1, <2>2
<1> HIDE DEF timed
<1>11. Timers(events, again, expiration)
  <2>1. CASE again = Never
    BY <1>10, <2>1
  <2>2. CASE again # Never
    <3> DEFINE e == Event(again, 0, timer0, <<>>)
    <3>1. e.time = again /\ e.prio = 0 /\ e.to = timer0
      BY DEF Event
    <3> HIDE DEF e, again, expiration
    <3>2. Timers(scheduleAt(timed, e), again, expiration)
      BY <1>8, <1>10, <2>2, <3>1, TimersScheduled
    <3> QED
      BY <2>2, <3>2 DEF e
  <2> QED
    BY <2>1, <2>2
<1> HIDE DEF events
<1>12. expiration \in Int /\ expiration =< v /\ expiration =< snd.timerExpiration
  BY <1>6, <1>7
<1>13. expiration # Never
  BY <1>3, <1>7, <1>12
<1> HIDE DEF expiration, again
<1>14. /\ snd.lastAckSeqNo =< seqNo
       /\ \A i \in snd.lastAckSeqNo .. seqNo - 1 :
             /\ i \in DOMAIN snd.packetBuffer /\ snd.packetBuffer[i] \in Int
             /\ snd.timerExpiration =< snd.packetBuffer[i] /\ snd.packetBuffer[i] =< v
       /\ \A i, j \in snd.lastAckSeqNo .. seqNo - 1 :
             i =< j => snd.packetBuffer[i] =< snd.packetBuffer[j]
  BY <1>3, BufferType DEF Window
<1>15. ASSUME NEW i \in snd.lastAckSeqNo .. seqNo
       PROVE  /\ i \in DOMAIN buffer /\ buffer[i] \in Int
              /\ i = seqNo => buffer[i] = v
              /\ i # seqNo => i \in snd.lastAckSeqNo .. seqNo - 1 /\ buffer[i] = snd.packetBuffer[i]
              /\ expiration =< buffer[i] /\ buffer[i] =< v
  <2>1. CASE i = seqNo
    BY <1>7, <1>12, <2>1
  <2>2. CASE i # seqNo
    <3>1. i \in snd.lastAckSeqNo .. seqNo - 1
      BY <1>6, <2>2
    <3>2. i \in DOMAIN buffer /\ buffer[i] = snd.packetBuffer[i]
      BY <1>14, <2>2, <3>1
    <3> HIDE DEF buffer
    <3> QED
      BY <1>6, <1>12, <1>14, <2>2, <3>1, <3>2
  <2> QED
    BY <2>1, <2>2
<1> HIDE DEF buffer
<1>16. ASSUME NEW i \in snd.lastAckSeqNo .. seqNo, NEW j \in snd.lastAckSeqNo .. seqNo, i =< j
       PROVE  buffer[i] =< buffer[j]
  <2>1. CASE j = seqNo
    BY <1>15, <2>1
  <2>2. CASE j # seqNo
    <3>1. i # seqNo
      BY <1>6, <1>16, <2>2
    <3> QED
      BY <1>14, <1>15, <1>16, <2>2, <3>1
  <2> QED
    BY <2>1, <2>2
<1>17. Window(new, v)
  <2>1. seqNo + 1 - 1 = seqNo /\ snd.lastAckSeqNo =< seqNo + 1
    BY <1>6, <1>14
  <2> HIDE DEF seqNo
  <2> QED
    BY <1>6, <1>15, <1>16, <2>1 DEF Window
<1> QED
  BY <1>6, <1>11, <1>13, <1>17

LEMMA SenderExpires ==
    ASSUME SimInv, SenderInv, SimInv', Expire PROVE SenderInv' /\ (par.send => SenderOK')
<1> DEFINE t == Head(fes).time
           s == Tail(fes)
           b == [i \in DOMAIN snd.packetBuffer |-> Never]
           new == [snd EXCEPT !.nextSendTime = WokenAt(t), !.nextSendSeqNo = snd.lastAckSeqNo,
                              !.timerExpiration = Never, !.packetBuffer = b]
           events == cancelEvent(Woken(s, t), timer1)
           asserted == t = snd.timerExpiration
<1>1. Arrives("timer1") /\ SenderStep(new, events, asserted)
  BY DEF Expire
<1>2. snd' = new /\ fes' = events /\ now' = t /\ par' = par
  <2> HIDE DEF new, events, asserted
  <2> QED
    BY <1>1, SenderStepFacts
<1> HIDE DEF asserted
<1> SUFFICES ASSUME par.send
             PROVE  /\ Timers(events, new.nextSendTime, new.timerExpiration)
                    /\ Window(new, t + par.timeout)
                    /\ new.nextSendTime # Never
  BY <1>2 DEF SenderInv, SenderOK
<1>3. /\ Timers(fes, snd.nextSendTime, snd.timerExpiration)
      /\ snd \in SenderType /\ t \in Int /\ t # Never /\ fes # <<>>
  BY <1>1, SenderHandles
<1>4. Head(fes).to = timer1
  <2> DEFINE h == Head(fes)
  <2>1. EventOK(h) /\ h.to[1] = "timer1"
    BY <1>1, Handled
  <2> HIDE DEF h
  <2> QED
    BY <2>1, Kinds DEF h
<1>5. Timers(s, snd.nextSendTime, Never)
  BY <1>3, <1>4, TimersTaken
<1>6. Timers(Woken(s, t), WokenAt(t), Never) /\ WokenAt(t) # Never
  <2> HIDE DEF t, s
  <2> QED
    BY <1>3, <1>5, TimersWoken
<1>7. Timers(events, WokenAt(t), Never)
  <2> HIDE DEF t, s
  <2> QED
    BY <1>6, TimersCancelled
<1>8. /\ new.nextSendTime = WokenAt(t) /\ new.timerExpiration = Never
      /\ new.lastAckSeqNo = new.nextSendSeqNo
  <2> HIDE DEF t, b
  <2> QED
    BY <1>3 DEF SenderType
<1>9. new \in SenderType
  BY <1>2 DEF SimInv, NodesOK
<1> HIDE DEF new
<1>10. Window(new, t + par.timeout)
  BY <1>8, <1>9, NoWindow
<1> QED
  BY <1>6, <1>7, <1>8, <1>10

LEMMA SenderHears ==
    ASSUME SimInv, SenderInv, SimInv', ReceiveAck
    PROVE  LET e == Head(fes).msg.seqNo IN
           SenderInv' /\ (par.send /\ (~aborted' \/ e >= snd.lastAckSeqNo) => SenderOK')
<1> DEFINE t == Head(fes).time
           s == Tail(fes)
           e == Head(fes).msg.seqNo
<1>1. Arrives("appl")
  BY DEF ReceiveAck
<1>2. Head(fes).to # timer0 /\ Head(fes).to # timer1
  <2>1. Head(fes).to[1] = "appl"
    BY <1>1, Handled
  <2> QED
    BY <2>1, NotATimer DEF Untimed
<1> SUFFICES ASSUME par.send, ~aborted' \/ e >= snd.lastAckSeqNo PROVE SenderOK'
  <2>1. par' = par
    BY <1>1 DEF ReceiveAck, Rejected, Acknowledged, SenderStep, Network
  <2> QED
    BY <2>1 DEF SenderInv
<1>3. /\ Timers(fes, snd.nextSendTime, snd.timerExpiration)
      /\ Window(snd, t + par.timeout)
      /\ snd \in SenderType /\ t \in Int /\ t # Never /\ t =< par.limit
      /\ par.timeout \in Nat /\ par.limit \in Nat /\ Never \in Int
      /\ par.limit + par.timeout < Never
      /\ fes # <<>> /\ ~aborted /\ snd.packetBuffer \in Buffer
  BY <1>1, SenderHandles
<1>4. Timers(s, snd.nextSendTime, snd.timerExpiration)
  BY <1>2, <1>3, TimersTaken
<1>5. CASE SenderStep(snd, s, Head(fes).msg.id = "ack")
  <2>1. snd' = snd /\ fes' = s /\ now' = t /\ par' = par
    BY <1>5, SenderStepFacts
  <2>2. DOMAIN snd.packetBuffer # {} =>
           snd.nextSendTime # Never \/ snd.timerExpiration # Never
    BY <1>3 DEF SenderInv, SenderOK
  <2> QED
    BY <1>3, <1>4, <2>1, <2>2 DEF SenderInv, SenderOK
<1>6. CASE Rejected(t)
  <2> DEFINE new == [snd EXCEPT !.nextSendTime = WokenAt(t), !.nextSendSeqNo = snd.lastAckSeqNo]
             events == Woken(s, t)
  <2>1. SenderStep(new, events, TRUE)
    BY <1>6 DEF Rejected
  <2>2. snd' = new /\ fes' = events /\ now' = t /\ par' = par
    <3> HIDE DEF new, events
    <3> QED
      BY <2>1, SenderStepFacts
  <2>3. Timers(events, WokenAt(t), snd.timerExpiration) /\ WokenAt(t) # Never
    <3> HIDE DEF t, s
    <3> QED
      BY <1>3, <1>4, TimersWoken
  <2> HIDE DEF events
  <2>4. /\ new.nextSendTime = WokenAt(t) /\ new.timerExpiration = snd.timerExpiration
        /\ new.lastAckSeqNo = new.nextSendSeqNo
    <3> HIDE DEF t
    <3> QED
      BY <1>3 DEF SenderType
  <2>5. new \in SenderType
    BY <2>2 DEF SimInv, NodesOK
  <2> HIDE DEF new
  <2>6. Window(new, t + par.timeout)
    BY <2>4, <2>5, NoWindow
  <2> QED
    BY <2>2, <2>3, <2>4, <2>6 DEF SenderInv, SenderOK
<1>7. ASSUME Acknowledged(t, e), e # snd.lastAckSeqNo PROVE SenderOK'
  <2> DEFINE buffer == [i \in DOMAIN snd.packetBuffer \ (snd.lastAckSeqNo .. e - 1) |->
                           snd.packetBuffer[i]]
             waiting == snd.nextSendSeqNo > e
             expiration == IF ~waiting THEN Never ELSE IF e \in DOMAIN buffer THEN buffer[e] ELSE -1
             idle == cancelEvent(s, timer1)
             timed == IF waiting THEN scheduleAt(idle, Event(expiration, 0, timer1, <<>>)) ELSE idle
             last == Max({snd.nextSendSeqNo, e})
             new == [snd EXCEPT !.packetBuffer = buffer, !.lastAckSeqNo = e,
                                !.nextSendSeqNo = last,
                                !.timerExpiration = expiration,
                                !.nextSendTime = WokenAt(t)]
             events == Woken(timed, t)
             asserted == /\ e > snd.lastAckSeqNo
                         /\ snd.lastAckSeqNo .. e - 1 \subseteq DOMAIN snd.packetBuffer
                         /\ waiting => expiration > t /\ expiration > 0
  <2>1. SenderStep(new, events, asserted)
    BY <1>7 DEF Acknowledged
  <2>2. /\ snd' = new /\ fes' = events /\ now' = t /\ par' = par
        /\ ~aborted' => asserted = TRUE
    <3> HIDE DEF new, events, asserted
    <3> QED
      BY <2>1, SenderStepFacts
  <2> SUFFICES /\ Timers(events, new.nextSendTime, new.timerExpiration)
               /\ Window(new, t + par.timeout)
               /\ new.nextSendTime # Never
    BY <2>2 DEF SenderInv, SenderOK
  <2>3. new \in SenderType
    BY <2>2 DEF SimInv, NodesOK
  <2>4. /\ new.nextSendTime = WokenAt(t) /\ new.timerExpiration = expiration
        /\ new.lastAckSeqNo = e /\ new.nextSendSeqNo = last /\ new.packetBuffer = buffer
    <3> HIDE DEF t, e, buffer, last, expiration
    <3> QED
      BY <1>3 DEF SenderType
  <2>5. /\ e \in Nat /\ expiration \in Int /\ snd.nextSendSeqNo \in Nat
        /\ snd.lastAckSeqNo \in Nat
    <3> HIDE DEF new, e, expiration
    <3> QED
      BY <1>3, <2>3, <2>4 DEF SenderType
  <2> HIDE DEF new
  <2>6. e > snd.lastAckSeqNo
    BY <1>7, <2>2, <2>5
  <2> HIDE DEF asserted, e
  <2>7. last = IF waiting THEN snd.nextSendSeqNo ELSE e
    BY <2>5 DEF Max
  <2> HIDE DEF last
  <2>8. ASSUME waiting, NEW i \in e .. snd.nextSendSeqNo - 1
        PROVE  /\ i \in DOMAIN buffer /\ buffer[i] = snd.packetBuffer[i]
               /\ buffer[i] \in Int /\ buffer[i] =< t + par.timeout
               /\ i \in snd.lastAckSeqNo .. snd.nextSendSeqNo - 1
    <3>1. i \in snd.lastAckSeqNo .. snd.nextSendSeqNo - 1
      BY <2>5, <2>6
    <3>2. i \in DOMAIN snd.packetBuffer /\ snd.packetBuffer[i] =< t + par.timeout
      BY <1>3, <3>1 DEF Window
    <3>3. i \notin snd.lastAckSeqNo .. e - 1
      BY <2>5
    <3>4. i \in DOMAIN buffer /\ buffer[i] = snd.packetBuffer[i]
      BY <3>2, <3>3
    <3>5. snd.packetBuffer[i] \in Int
      BY <1>3, <3>2, BufferType
    <3> QED
      BY <3>1, <3>2, <3>4, <3>5
  <2>9. waiting => /\ e \in e .. snd.nextSendSeqNo - 1
                   /\ expiration = snd.packetBuffer[e] /\ expiration # Never
    <3>1. waiting => e \in e .. snd.nextSendSeqNo - 1
      BY <2>5
    <3>2. waiting => expiration = snd.packetBuffer[e] /\ expiration =< t + par.timeout
      BY <2>8, <3>1
    <3> QED
      BY <1>3, <2>5, <3>1, <3>2
  <2>10. ~waiting => expiration = Never
    OBVIOUS
  <2> HIDE DEF expiration
  <2>11. Timers(idle, snd.nextSendTime, Never)
    BY <1>4, TimersCancelled
  <2> HIDE DEF idle
  <2>12. Timers(timed, snd.nextSendTime, expiration)
    <3>1. CASE waiting
      <4> DEFINE f == Event(expiration, 0, timer1, <<>>)
      <4>1. f.time = expiration /\ f.prio = 0 /\ f.to = timer1
        BY DEF Event
      <4> HIDE DEF f
      <4>2. Timers(scheduleAt(idle, f), snd.nextSendTime, expiration)
        BY <2>5, <2>9, <2>11, <3>1, <4>1, TimersScheduled
      <4> QED
        BY <3>1, <4>2 DEF f
    <3>2. CASE ~waiting
      BY <2>10, <2>11, <3>2
    <3> QED
      BY <3>1, <3>2
  <2> HIDE DEF timed
  <2>13. Timers(events, WokenAt(t), expiration) /\ WokenAt(t) # Never
    <3> HIDE DEF t
    <3> QED
      BY <1>3, <2>12, TimersWoken
  <2>14. Window(new, t + par.timeout)
    <3>1. CASE ~waiting
      <4>1. new.lastAckSeqNo = new.nextSendSeqNo
        BY <2>4, <2>7, <3>1
      <4> QED
        BY <2>3, <4>1, NoWindow
    <3>2. CASE waiting
      <4>1. new.nextSendSeqNo = snd.nextSendSeqNo /\ e =< snd.nextSendSeqNo
        BY <2>4, <2>5, <2>7, <3>2
      <4> HIDE DEF buffer, waiting
      <4>2. ASSUME NEW i \in e .. snd.nextSendSeqNo - 1, NEW j \in e .. snd.nextSendSeqNo - 1, i =< j
            PROVE  buffer[i] =< buffer[j]
        BY <1>3, <2>8, <3>2, <4>2 DEF Window
      <4>3. ASSUME NEW i \in e .. snd.nextSendSeqNo - 1 PROVE expiration =< buffer[i]
        <5>1. e =< i
          BY <2>5
        <5>2. buffer[e] =< buffer[i]
          BY <2>9, <3>2, <4>2, <5>1
        <5> QED
          BY <2>8, <2>9, <3>2, <5>2
      <4> QED
        BY <2>4, <2>8, <3>2, <4>1, <4>2, <4>3 DEF Window
    <3> QED
      BY <3>1, <3>2
  <2> QED
    BY <2>4, <2>13, <2>14
<1>8. SenderOK'
  BY <1>5, <1>6, <1>7 DEF ReceiveAck
<1> QED
  BY <1>8

LEMMA SenderStarts == Init => SenderInv
<1> SUFFICES ASSUME Init, par.send PROVE SenderInv
  BY DEF SenderInv, SenderOK
<1>1. /\ par \in Parameters /\ now = 0 /\ fes = InitialEvents
      /\ snd = [lastAckSeqNo |-> 0, nextSendSeqNo |-> 0, nextSendTime |-> 0,
                timerExpiration |-> Never, packetBuffer |-> <<>>]
  BY DEF Init
<1>2. /\ IsList(fes) /\ Len(fes) >= 1
      /\ \A i \in DOMAIN fes : /\ i =< 1 => fes[i].to = timer0 /\ fes[i].time = 0
                               /\ i > 1 => fes[i].to[1] = "pingtimer"
  BY <1>1, FirstEvents
<1>3. DOMAIN fes = 1 .. Len(fes) /\ Len(fes) \in Nat
  BY <1>2 DEF IsList
<1>4. \A i \in DOMAIN fes : fes[i].to # timer1 /\ (fes[i].to = timer0 => i = 1)
  <2> SUFFICES ASSUME NEW i \in DOMAIN fes
               PROVE  fes[i].to # timer1 /\ (fes[i].to = timer0 => i = 1)
    OBVIOUS
  <2>1. CASE i =< 1
    BY <1>2, <1>3, <2>1, TwoTimers
  <2>2. CASE i > 1
    <3>1. Untimed(fes[i].to)
      BY <1>2, <2>2 DEF Untimed
    <3> QED
      BY <3>1, NotATimer
  <2> QED
    BY <1>3, <2>1, <2>2
<1>5. 1 \in DOMAIN fes /\ fes[1].to = timer0 /\ fes[1].time = 0
  BY <1>2, <1>3
<1>6. TimerOK(fes, timer0, 0)
  <2>1. isScheduled(fes, timer0)
    BY <1>5 DEF isScheduled
  <2>2. Once(fes, timer0)
    BY <1>4 DEF Once
  <2>3. \A e \in ToSet(fes) : e.to = timer0 => e.time = 0
    BY <1>4, <1>5, SetIndex
  <2> QED
    BY <2>1, <2>2, <2>3 DEF TimerOK, Never
<1>7. TimerOK(fes, timer1, Never)
  <2>1. ~isScheduled(fes, timer1)
    BY <1>4 DEF isScheduled
  <2>2. Once(fes, timer1)
    BY <1>4 DEF Once
  <2>3. \A e \in ToSet(fes) : e.to # timer1
    BY <1>4, SetIndex
  <2> QED
    BY <2>1, <2>2, <2>3 DEF TimerOK
<1>8. snd \in SenderType
  BY InitInv DEF SimInv, NodesOK
<1>9. snd.lastAckSeqNo = 0 /\ snd.nextSendSeqNo = 0 /\ snd.nextSendTime = 0
      /\ snd.timerExpiration = Never
  BY <1>1
<1>10. Window(snd, now + par.timeout)
  BY <1>8, <1>9, NoWindow
<1>11. Timers(fes, snd.nextSendTime, snd.timerExpiration)
  BY <1>2, <1>6, <1>7, <1>9 DEF Timers
<1>12. snd.nextSendTime # Never
  BY <1>9 DEF Never
<1> QED
  BY <1>10, <1>11, <1>12 DEF SenderInv, SenderOK

LEMMA SenderGoesOn == SimInv /\ SenderInv /\ [Next]_vars => SenderInv'
<1> SUFFICES ASSUME SimInv, SenderInv, [Next]_vars PROVE SenderInv'
  OBVIOUS
<1>0. SimInv'
  BY StepInv
<1>1. CASE StackHandles
  <2>1. /\ Arrives("stack") /\ now' = Head(fes).time /\ UNCHANGED <<par, snd>>
    BY <1>1 DEF StackHandles, Pass, Network
  <2> QED
    BY <1>0, <1>1, <2>1, StackStep, OtherHandler
<1>2. CASE DaemonHandles
  <2>1. /\ Arrives("appl") /\ now' = Head(fes).time /\ UNCHANGED <<par, snd>>
    BY <1>2 DEF DaemonHandles, Pass
  <2> QED
    BY <1>0, <1>2, <2>1, DaemonStep, OtherHandler
<1>3. CASE QueueMessage
  <2>1. /\ Arrives("queue") /\ now' = Head(fes).time /\ UNCHANGED <<par, snd>>
    BY <1>3 DEF QueueMessage, QueueStep
  <2> QED
    BY <1>0, <1>3, <2>1, MessageStep, OtherHandler
<1>4. CASE QueueTimeout
  <2>1. /\ Arrives("timeout") /\ now' = Head(fes).time /\ UNCHANGED <<par, snd>>
    BY <1>4 DEF QueueTimeout, QueueStep
  <2> QED
    BY <1>0, <1>4, <2>1, TimeoutStep, OtherHandler
<1>5. ASSUME NEW c \in Commands, ConPar(c[1], c[2]) PROVE SenderInv'
  <2>1. ~aborted /\ UNCHANGED <<par, snd, now>>
    BY <1>5 DEF ConPar
  <2>2. now' >= now
    BY <2>1, ParametersType DEF SimInv, TimeOK
  <2>3. SameTimers(fes', fes)
    BY <1>5, ConParStep
  <2> QED
    BY <1>0, <2>1, <2>2, <2>3, OthersKeepSender
<1>6. CASE SendNext
  BY <1>6, SenderSends
<1>7. CASE Expire
  BY <1>0, <1>7, SenderExpires
<1>8. CASE ReceiveAck
  BY <1>0, <1>8, SenderHears
<1>9. CASE ReceiveData
  <2>1. /\ Arrives("appl") /\ now' = Head(fes).time /\ UNCHANGED <<par, snd>>
    BY <1>9 DEF ReceiveData, Pass, Network
  <2> QED
    BY <1>0, <1>9, <2>1, DataStep, OtherHandler
<1>10. CASE PingTimer
  <2>1. /\ Arrives("pingtimer") /\ now' = Head(fes).time /\ UNCHANGED <<par, snd>>
    BY <1>10 DEF PingTimer, Pass, Network
  <2> QED
    BY <1>0, <1>10, <2>1, PingTimerStep, OtherHandler
<1>11. CASE ReceivePing
  <2>1. /\ Arrives("appl") /\ now' = Head(fes).time /\ UNCHANGED <<par, snd>>
    BY <1>11 DEF ReceivePing, Pass, Network
  <2> QED
    BY <1>0, <1>11, <2>1, PingStep, OtherHandler
<1>12. CASE UNCHANGED vars
  BY <1>12 DEF vars, SenderInv, SenderOK
<1> QED
  BY <1>1, <1>2, <1>3, <1>4, <1>5, <1>6, <1>7, <1>8, <1>9, <1>10, <1>11, <1>12 DEF Next

LEMMA TimerTimes ==
    ASSUME IsList(fes), NEW to, NEW t, TimerOK(fes, to, t) PROVE ScheduledAt(to, t)
<1> DEFINE S == {fes[i].time : i \in {j \in DOMAIN fes : fes[j].to = to}}
<1>1. CASE t = Never
  <2>1. \A j \in DOMAIN fes : fes[j].to # to
    BY <1>1 DEF TimerOK, isScheduled
  <2>2. S = {}
    BY <2>1
  <2> QED
    BY <1>1, <2>2 DEF ScheduledAt
<1>2. CASE t # Never
  <2>1. PICK i \in DOMAIN fes : fes[i].to = to
    BY <1>2 DEF TimerOK, isScheduled
  <2>2. \A j \in DOMAIN fes : fes[j].to = to => fes[j].time = t
    BY IndexInSet DEF TimerOK
  <2>3. S = {t}
    BY <2>1, <2>2
  <2> QED
    BY <1>2, <2>3 DEF ScheduledAt
<1> QED
  BY <1>1, <1>2

(***************************************************************************)
(* No packet of the window expires unnoticed: the timers of GoBackNSender  *)
(* are scheduled exactly as its variables say, and none of its packets     *)
(* was to expire before the timer.  handleMessage moves the timers in      *)
(* four places; assertions that end the program in one of them are         *)
(* excluded, as in SimTypeCorrect.                                         *)
(***************************************************************************)
THEOREM SentAgain == Spec => [](aborted \/ NoPacketExpiresUnnoticed)
<1>1. SimInv /\ SenderInv => aborted \/ NoPacketExpiresUnnoticed
  <2> SUFFICES ASSUME SimInv, SenderInv, ~aborted, par.send PROVE NoPacketExpiresUnnoticed
    BY DEF NoPacketExpiresUnnoticed
  <2>1. /\ Timers(fes, snd.nextSendTime, snd.timerExpiration)
        /\ Window(snd, now + par.timeout)
        /\ DOMAIN snd.packetBuffer # {} =>
              snd.nextSendTime # Never \/ snd.timerExpiration # Never
    BY DEF SenderInv, SenderOK
  <2>2. ScheduledAt(timer0, snd.nextSendTime) /\ ScheduledAt(timer1, snd.timerExpiration)
    BY <2>1, TimerTimes DEF Timers
  <2>3. snd.packetBuffer \in Buffer /\ snd.timerExpiration \in Int
    BY DEF SimInv, NodesOK, SenderType
  <2>4. ASSUME NEW i \in snd.lastAckSeqNo .. snd.nextSendSeqNo - 1
        PROVE  i \in DOMAIN snd.packetBuffer /\ snd.packetBuffer[i] >= snd.timerExpiration
    <3>1. i \in DOMAIN snd.packetBuffer /\ snd.timerExpiration =< snd.packetBuffer[i]
      BY <2>1 DEF Window
    <3>2. snd.packetBuffer[i] \in Int
      BY <2>3, <3>1, BufferType
    <3> QED
      BY <2>3, <3>1, <3>2
  <2> QED
    BY <2>1, <2>2, <2>4 DEF NoPacketExpiresUnnoticed
<1>2. Init => SimInv /\ SenderInv
  BY InitInv, SenderStarts
<1>3. SimInv /\ SenderInv /\ [Next]_vars => (SimInv /\ SenderInv)'
  BY StepInv, SenderGoesOn
<1> QED
  BY <1>1, <1>2, <1>3, PTL DEF Spec

----------------------------------------------------------------------------
(***************************************************************************)
(* The statistics of the links.  Exact(q, m, busy, t): at time t those of  *)
(* queue q, completed as recordStatistics() would, are what the meter m    *)
(* shows; busy says whether the link sends.                                *)
(***************************************************************************)
MeterType == [busy : Int, length : Int, since : Int]

Exact(q, m, busy, t) ==
    /\ q.linkUtilization.sum + (IF busy THEN t - q.lastUtilChange ELSE 0) = m.busy
    /\ q.linkUtilization.weight + (t - q.lastUtilChange) = t - m.since
    /\ q.queueLength.sum + Len(q.queue) * (t - q.lastQueueChange) = m.length
    /\ q.queueLength.weight + (t - q.lastQueueChange) = t - m.since

\* No batch ends, and nothing is recorded.
SameMarks(r, q) ==
    r.report = q.report /\ r.batchNum = q.batchNum /\ r.transientOver = q.transientOver

LEMMA QueueFields ==
    ASSUME NEW q \in QueueType
    PROVE  /\ q.linkUtilization \in Weighted /\ q.queueLength \in Weighted
           /\ q.linkUtilization.sum \in Int /\ q.linkUtilization.weight \in Int
           /\ q.queueLength.sum \in Int /\ q.queueLength.weight \in Int
           /\ q.lastUtilChange \in Int /\ q.lastQueueChange \in Int
           /\ q.queue \in Seq(Message) /\ Len(q.queue) \in Nat
           /\ q.samples \in Nat /\ q.batchNum \in Nat /\ q.transientOver \in BOOLEAN
<1>1. /\ q.linkUtilization \in Weighted /\ q.queueLength \in Weighted
      /\ q.lastUtilChange \in Int /\ q.lastQueueChange \in Int /\ q.queue \in Seq(Message)
      /\ q.samples \in Nat /\ q.batchNum \in Nat /\ q.transientOver \in BOOLEAN
  BY DEF QueueType
<1>2. Len(q.queue) \in Nat
  BY <1>1
<1>3. ASSUME NEW w \in Weighted PROVE w.sum \in Int /\ w.weight \in Int
  BY DEF Weighted
<1> QED
  BY <1>1, <1>2, <1>3

LEMMA UtilCollected ==
    ASSUME NEW q \in QueueType, NEW v \in Int, NEW t \in Int
    PROVE  LET u == Q!CollectUtil(q, v, t) IN
           /\ u.linkUtilization.sum = q.linkUtilization.sum + v * (t - q.lastUtilChange)
           /\ u.linkUtilization.weight = q.linkUtilization.weight + (t - q.lastUtilChange)
           /\ u.lastUtilChange = t /\ u.lastQueueChange = q.lastQueueChange
           /\ u.queueLength = q.queueLength /\ u.queue = q.queue /\ u.samples = q.samples
           /\ SameMarks(u, q)
<1> DEFINE w == Q!collect2(q.linkUtilization, v, t - q.lastUtilChange)
<1>1. /\ w.sum = q.linkUtilization.sum + v * (t - q.lastUtilChange)
      /\ w.weight = q.linkUtilization.weight + (t - q.lastUtilChange)
  BY DEF Q!collect2
<1> HIDE DEF w
<1>2. LET u == [q EXCEPT !.linkUtilization = w, !.lastUtilChange = t] IN
      /\ u.linkUtilization = w /\ u.lastUtilChange = t /\ u.lastQueueChange = q.lastQueueChange
      /\ u.queueLength = q.queueLength /\ u.queue = q.queue /\ u.samples = q.samples
      /\ SameMarks(u, q)
  BY DEF QueueType, SameMarks
<1> QED
  BY <1>1, <1>2 DEF Q!CollectUtil, w

LEMMA LengthCollected ==
    ASSUME NEW q \in QueueType, NEW t \in Int
    PROVE  LET u == Q!CollectLength(q, t) IN
           /\ u.queueLength.sum = q.queueLength.sum + Len(q.queue) * (t - q.lastQueueChange)
           /\ u.queueLength.weight = q.queueLength.weight + (t - q.lastQueueChange)
           /\ u.lastQueueChange = t /\ u.lastUtilChange = q.lastUtilChange
           /\ u.linkUtilization = q.linkUtilization /\ u.queue = q.queue
           /\ u.samples = q.samples
           /\ SameMarks(u, q)
<1> DEFINE w == Q!collect2(q.queueLength, Len(q.queue), t - q.lastQueueChange)
<1>1. /\ w.sum = q.queueLength.sum + Len(q.queue) * (t - q.lastQueueChange)
      /\ w.weight = q.queueLength.weight + (t - q.lastQueueChange)
  BY DEF Q!collect2
<1> HIDE DEF w
<1>2. LET u == [q EXCEPT !.queueLength = w, !.lastQueueChange = t] IN
      /\ u.queueLength = w /\ u.lastQueueChange = t /\ u.lastUtilChange = q.lastUtilChange
      /\ u.linkUtilization = q.linkUtilization /\ u.queue = q.queue
      /\ u.samples = q.samples /\ SameMarks(u, q)
  BY DEF QueueType, SameMarks
<1> QED
  BY <1>1, <1>2 DEF Q!CollectLength, w

LEMMA ExactUtil ==
    ASSUME NEW q \in QueueType, NEW m, NEW t \in Int, NEW busy \in BOOLEAN, Exact(q, m, busy, t),
           NEW v \in Int, v = IF busy THEN 1 ELSE 0, NEW b \in BOOLEAN
    PROVE  Exact(Q!CollectUtil(q, v, t), m, b, t)
<1> DEFINE u == Q!CollectUtil(q, v, t)
<1>1. /\ u.linkUtilization.sum = q.linkUtilization.sum + v * (t - q.lastUtilChange)
      /\ u.linkUtilization.weight = q.linkUtilization.weight + (t - q.lastUtilChange)
      /\ u.lastUtilChange = t /\ u.lastQueueChange = q.lastQueueChange
      /\ u.queueLength = q.queueLength /\ u.queue = q.queue
  BY UtilCollected
<1> HIDE DEF u
<1>2. v * (t - q.lastUtilChange) = IF busy THEN t - q.lastUtilChange ELSE 0
  BY QueueFields
<1>3. t - t = 0
  OBVIOUS
<1>4. u.linkUtilization.sum \in Int /\ u.linkUtilization.weight \in Int
  BY <1>1, <1>2, QueueFields
<1>5. u.linkUtilization.sum + (IF b THEN t - u.lastUtilChange ELSE 0) = m.busy
  BY <1>1, <1>2, <1>3, <1>4 DEF Exact
<1>6. u.linkUtilization.weight + (t - u.lastUtilChange) = t - m.since
  BY <1>1, <1>3, <1>4 DEF Exact
<1> QED
  BY <1>1, <1>5, <1>6 DEF Exact, u

\* The link starts or stops to send.
LEMMA ExactStarts ==
    ASSUME NEW q \in QueueType, NEW m, NEW t \in Int, Exact(q, m, FALSE, t)
    PROVE  Exact(Q!CollectUtil(q, 0, t), m, TRUE, t)
<1> DEFINE x == FALSE  y == TRUE  u == Q!CollectUtil(q, 0, t)
<1>1. x \in BOOLEAN /\ y \in BOOLEAN /\ ~x /\ Exact(q, m, x, t)
  OBVIOUS
<1> HIDE DEF x, y
<1>2. 0 \in Int /\ 0 = IF x THEN 1 ELSE 0
  BY <1>1
<1>3. Exact(u, m, y, t)
  <2> DEFINE v == 0
  <2>1. v \in Int /\ v = IF x THEN 1 ELSE 0
    BY <1>2
  <2> HIDE DEF v
  <2>2. Exact(Q!CollectUtil(q, v, t), m, y, t)
    BY <1>1, <2>1, ExactUtil
  <2> QED
    BY <2>2 DEF v
<1> HIDE DEF u
<1> QED
  BY <1>3 DEF u, y

LEMMA ExactStops ==
    ASSUME NEW q \in QueueType, NEW m, NEW t \in Int, Exact(q, m, TRUE, t)
    PROVE  Exact(Q!CollectUtil(q, 1, t), m, FALSE, t)
<1> DEFINE x == TRUE  y == FALSE  u == Q!CollectUtil(q, 1, t)
<1>1. x \in BOOLEAN /\ y \in BOOLEAN /\ x /\ Exact(q, m, x, t)
  OBVIOUS
<1> HIDE DEF x, y
<1>2. 1 \in Int /\ 1 = IF x THEN 1 ELSE 0
  BY <1>1
<1>3. Exact(u, m, y, t)
  <2> DEFINE v == 1
  <2>1. v \in Int /\ v = IF x THEN 1 ELSE 0
    BY <1>2
  <2> HIDE DEF v
  <2>2. Exact(Q!CollectUtil(q, v, t), m, y, t)
    BY <1>1, <2>1, ExactUtil
  <2> QED
    BY <2>2 DEF v
<1> HIDE DEF u
<1> QED
  BY <1>3 DEF u, y

\* Also if a message is inserted or removed then.
LEMMA ExactLength ==
    ASSUME NEW q \in QueueType, NEW m, NEW t \in Int, NEW busy \in BOOLEAN, Exact(q, m, busy, t)
    PROVE  /\ Exact(Q!CollectLength(q, t), m, busy, t)
           /\ \A w \in Seq(Message) :
                LET e == [Q!CollectLength(q, t) EXCEPT !.queue = w] IN
                e \in QueueType /\ Exact(e, m, busy, t) /\ SameMarks(e, q)
<1> DEFINE u == Q!CollectLength(q, t)
           d == Len(q.queue) * (t - q.lastQueueChange)
<1>1. /\ u.queueLength.sum = q.queueLength.sum + d
      /\ u.queueLength.weight = q.queueLength.weight + (t - q.lastQueueChange)
      /\ u.lastQueueChange = t /\ u.lastUtilChange = q.lastUtilChange
      /\ u.linkUtilization = q.linkUtilization /\ u.queue = q.queue
      /\ SameMarks(u, q) /\ u \in QueueType
  BY LengthCollected, CollectType
<1>2. d \in Int
  BY QueueFields
<1> HIDE DEF u
<1>3. /\ u.queueLength.sum = m.length /\ u.queueLength.sum \in Int
      /\ u.queueLength.weight = t - m.since /\ u.queueLength.weight \in Int
  BY <1>1, <1>2, QueueFields DEF Exact
<1> HIDE DEF d
<1>4. ASSUME NEW w \in Seq(Message)
      PROVE  LET e == [u EXCEPT !.queue = w] IN
             e \in QueueType /\ Exact(e, m, busy, t) /\ SameMarks(e, q)
  <2> DEFINE e == [u EXCEPT !.queue = w]
  <2>1. /\ e \in QueueType /\ e.queue = w /\ SameMarks(e, u)
        /\ e.linkUtilization = u.linkUtilization /\ e.queueLength = u.queueLength
        /\ e.lastUtilChange = u.lastUtilChange /\ e.lastQueueChange = u.lastQueueChange
    BY <1>1 DEF QueueType, SameMarks
  <2> HIDE DEF e
  <2>2. Len(w) * (t - t) = 0 /\ t - t = 0
    <3>1. Len(w) \in Nat /\ t - t = 0
      OBVIOUS
    <3> QED
      BY <3>1
  <2>3. Exact(e, m, busy, t)
    <3>1. e.linkUtilization.sum + (IF busy THEN t - e.lastUtilChange ELSE 0) = m.busy
          /\ e.linkUtilization.weight + (t - e.lastUtilChange) = t - m.since
      BY <1>1, <2>1 DEF Exact
    <3>2. e.queueLength.sum + Len(e.queue) * (t - e.lastQueueChange) = m.length
      BY <1>1, <1>3, <2>1, <2>2
    <3>3. e.queueLength.weight + (t - e.lastQueueChange) = t - m.since
      BY <1>1, <1>3, <2>1, <2>2
    <3> QED
      BY <3>1, <3>2, <3>3 DEF Exact
  <2> QED
    BY <1>1, <2>1, <2>3 DEF SameMarks, e
<1>5. u = [u EXCEPT !.queue = q.queue]
  BY <1>1 DEF QueueType
<1>6. Exact(u, m, busy, t)
  BY <1>4, <1>5, QueueFields
<1> QED
  BY <1>4, <1>6 DEF u

LEMMA ExactReset ==
    ASSUME NEW q \in QueueType, NEW t \in Int, NEW busy \in BOOLEAN
    PROVE  LET r == Q!resetStatistics(q, t) IN
           Exact(r, Meter(t), busy, t) /\ SameMarks(r, q) /\ r.samples = 0
<1> DEFINE z == Q!NoWeight  r == Q!resetStatistics(q, t)
<1>1. z.sum = 0 /\ z.weight = 0
  BY DEF Q!NoWeight
<1> HIDE DEF z
<1>2. LET u == [q EXCEPT !.lastUtilChange = t, !.lastQueueChange = t, !.linkUtilization = z,
                         !.queueLength = z, !.samples = 0, !.dropped = 0]
      IN  /\ u.lastUtilChange = t /\ u.lastQueueChange = t /\ u.linkUtilization = z
          /\ u.queueLength = z /\ u.samples = 0 /\ u.queue = q.queue /\ SameMarks(u, q)
  BY DEF QueueType, SameMarks
<1>3. /\ r.lastUtilChange = t /\ r.lastQueueChange = t /\ r.linkUtilization = z
      /\ r.queueLength = z /\ r.samples = 0 /\ r.queue = q.queue /\ SameMarks(r, q)
  BY <1>2 DEF Q!resetStatistics, z
<1> HIDE DEF r
<1>4. t - t = 0 /\ Len(r.queue) * 0 = 0
  <2>1. Len(r.queue) \in Nat
    BY <1>3, QueueFields
  <2> QED
    BY <2>1
<1>5. Meter(t).busy = 0 /\ Meter(t).length = 0 /\ Meter(t).since = t
  BY DEF Meter
<1>6. Exact(r, Meter(t), busy, t)
  BY <1>1, <1>3, <1>4, <1>5 DEF Exact
<1> QED
  BY <1>3, <1>6 DEF r

\* Recording completes the statistics: the link has been busy since the last change.
LEMMA ExactRecord ==
    ASSUME NEW q \in QueueType, NEW m, NEW t \in Int, NEW end \in Int, Exact(q, m, TRUE, t),
           q.lastUtilChange = t \/ end >= t
    PROVE  LET r == Q!recordStatistics(q, t, end) IN
           /\ r.report.linkUtilization.sum = m.busy /\ r.report.queueLength.sum = m.length
           /\ r.report # Q!NoReport
           /\ r.batchNum = q.batchNum /\ r.transientOver = q.transientOver
<1> DEFINE v == IF end < t THEN 0 ELSE 1
           u == Q!CollectUtil(q, v, t)
           r == Q!CollectLength(u, t)
           report == [batch |-> q.batchNum, linkUtilization |-> r.linkUtilization,
                      queueLength |-> r.queueLength, samples |-> r.samples]
<1>1. v \in Int /\ v * (t - q.lastUtilChange) = t - q.lastUtilChange
  <2>1. t - q.lastUtilChange \in Int /\ (end >= t \/ t - q.lastUtilChange = 0)
    BY QueueFields
  <2> QED
    BY <2>1
<1> HIDE DEF v
<1>2. /\ u \in QueueType /\ u.queue = q.queue /\ SameMarks(u, q)
      /\ u.linkUtilization.sum = q.linkUtilization.sum + v * (t - q.lastUtilChange)
      /\ u.queueLength = q.queueLength /\ u.lastQueueChange = q.lastQueueChange
  BY <1>1, UtilCollected, CollectType
<1> HIDE DEF u
<1>3. /\ r \in QueueType /\ SameMarks(r, u)
      /\ r.queueLength.sum = u.queueLength.sum + Len(u.queue) * (t - u.lastQueueChange)
      /\ r.linkUtilization = u.linkUtilization
  BY <1>2, LengthCollected, CollectType
<1> HIDE DEF r
<1>4. r.linkUtilization.sum = m.busy /\ r.queueLength.sum = m.length
  BY <1>1, <1>2, <1>3 DEF Exact
<1>5. /\ report.linkUtilization = r.linkUtilization /\ report.queueLength = r.queueLength
      /\ report # Q!NoReport
  <2>1. report.batch = q.batchNum /\ Q!NoReport.batch = -1 /\ q.batchNum \in Nat
    BY QueueFields DEF Q!NoReport
  <2>2. report.batch # Q!NoReport.batch
    BY <2>1
  <2> QED
    BY <2>2
<1> HIDE DEF report
<1>6. LET w == [r EXCEPT !.report = report] IN
      w.report = report /\ w.batchNum = r.batchNum /\ w.transientOver = r.transientOver
  BY <1>3 DEF QueueType
<1> QED
  BY <1>2, <1>3, <1>4, <1>5, <1>6 DEF Q!recordStatistics, SameMarks, u, v, r, report

\* The statistics go on, or start again for a new phase or a new batch; then those of the
\* old batch have been recorded.
Measures(r, q, m, busy, t) ==
    \/ Exact(r, m, busy, t) /\ SameMarks(r, q)
    \/ /\ Exact(r, Meter(t), busy, t)
       /\ r.report = q.report /\ r.batchNum = q.batchNum
       /\ r.transientOver # q.transientOver
    \/ /\ Exact(r, Meter(t), busy, t)
       /\ r.batchNum # q.batchNum
       /\ r.report.linkUtilization.sum = m.busy /\ r.report.queueLength.sum = m.length

LEMMA ExactDetect ==
    ASSUME NEW q \in QueueType, NEW p, p.batchLength \in Int,
           NEW m, NEW t \in Int, NEW end \in Int,
           Exact(q, m, TRUE, t), q.lastUtilChange = t \/ end >= t
    PROVE  Measures(Q!detect(q, p, t, end), q, m, TRUE, t)
<1> DEFINE r == Q!detect(q, p, t, end)
           s == Q!detectTransient(q, p, t)
<1>1. CASE ~q.transientOver /\ q.samples >= p.transientRemoval
  <2> DEFINE z == Q!resetStatistics(q, t)
             u == [z EXCEPT !.transientOver = TRUE]
  <2>1. z \in QueueType /\ Exact(z, Meter(t), TRUE, t) /\ SameMarks(z, q) /\ z.samples = 0
    BY ExactReset, ResetType
  <2>2. s = u
    BY <1>1 DEF Q!detectTransient
  <2> HIDE DEF z
  <2>3. /\ u.samples = 0 /\ u.transientOver /\ u.batchNum = z.batchNum /\ u.report = z.report
        /\ u.linkUtilization = z.linkUtilization /\ u.queueLength = z.queueLength
        /\ u.lastUtilChange = z.lastUtilChange /\ u.lastQueueChange = z.lastQueueChange
        /\ u.queue = z.queue
    BY <2>1 DEF QueueType
  <2> HIDE DEF u
  <2>4. Exact(u, Meter(t), TRUE, t)
    BY <2>1, <2>3 DEF Exact
  <2>5. r = u
    <3>1. ~(p.batchLength > 0 /\ u.samples >= p.batchLength)
      BY <2>3
    <3> QED
      BY <2>2, <3>1 DEF Q!detect, Q!detectBatch
  <2> HIDE DEF r
  <2>6. u.transientOver # q.transientOver
    BY <1>1, <2>3
  <2> QED
    BY <2>1, <2>3, <2>4, <2>5, <2>6 DEF SameMarks, Measures, r
<1>2. CASE ~(~q.transientOver /\ q.samples >= p.transientRemoval)
  <2>1. s = q
    BY <1>2 DEF Q!detectTransient
  <2>2. CASE q.transientOver /\ p.batchLength > 0 /\ q.samples >= p.batchLength
    <3> DEFINE w == Q!recordStatistics(q, t, end)
               z == Q!resetStatistics(w, t)
               u == [z EXCEPT !.batchNum = @ + 1]
    <3>1. /\ w \in QueueType /\ w.batchNum = q.batchNum
          /\ w.report.linkUtilization.sum = m.busy /\ w.report.queueLength.sum = m.length
      <4>1. w \in QueueType
        BY RecordType
      <4>2. /\ w.batchNum = q.batchNum
            /\ w.report.linkUtilization.sum = m.busy /\ w.report.queueLength.sum = m.length
        BY ExactRecord
      <4> QED
        BY <4>1, <4>2
    <3>2. r = u
      BY <2>1, <2>2 DEF Q!detect, Q!detectBatch
    <3> HIDE DEF w
    <3>3. z \in QueueType /\ Exact(z, Meter(t), TRUE, t) /\ SameMarks(z, w)
      BY <3>1, ExactReset, ResetType
    <3> HIDE DEF z
    <3>4. /\ u.batchNum = z.batchNum + 1 /\ u.report = z.report
          /\ u.linkUtilization = z.linkUtilization /\ u.queueLength = z.queueLength
          /\ u.lastUtilChange = z.lastUtilChange /\ u.lastQueueChange = z.lastQueueChange
          /\ u.queue = z.queue
      BY <3>3 DEF QueueType
    <3> HIDE DEF u
    <3>5. Exact(u, Meter(t), TRUE, t)
      BY <3>3, <3>4 DEF Exact
    <3>6. u.batchNum # q.batchNum
      BY <3>1, <3>3, <3>4, QueueFields DEF SameMarks
    <3> HIDE DEF r
    <3> QED
      BY <3>1, <3>2, <3>3, <3>4, <3>5, <3>6 DEF SameMarks, Measures, r
  <2>3. CASE ~(q.transientOver /\ p.batchLength > 0 /\ q.samples >= p.batchLength)
    <3>1. r = q
      BY <2>1, <2>3 DEF Q!detect, Q!detectBatch
    <3> HIDE DEF r
    <3> QED
      BY <3>1 DEF SameMarks, Measures, r
  <2> QED
    BY <2>2, <2>3
<1> QED
  BY <1>1, <1>2

LEMMA ExactSample ==
    ASSUME NEW q \in QueueType, NEW m, NEW t, NEW busy, Exact(q, m, busy, t)
    PROVE  LET s == Q!Sample(q) IN
           /\ s \in QueueType /\ Exact(s, m, busy, t) /\ SameMarks(s, q)
           /\ s.lastUtilChange = q.lastUtilChange
<1> DEFINE s == Q!Sample(q)
<1>1. /\ s \in QueueType /\ s.queue = q.queue /\ SameMarks(s, q)
      /\ s.linkUtilization = q.linkUtilization /\ s.queueLength = q.queueLength
      /\ s.lastUtilChange = q.lastUtilChange /\ s.lastQueueChange = q.lastQueueChange
  BY DEF QueueType, SameMarks, Q!Sample
<1> HIDE DEF s
<1> QED
  BY <1>1 DEF Exact, s

\* The handlers of a queue measure what the link does.
LEMMA MessageMeasured ==
    ASSUME NEW q \in QueueType, NEW p, p.batchLength \in Int, NEW t \in Int, NEW end \in Int,
           NEW msg \in Message, NEW m, NEW busy \in BOOLEAN, Exact(q, m, busy, t),
           busy <=> ~(q.queue = <<>> /\ end =< t)
    PROVE  Measures(Q!OnMessage(q, p, t, end, msg).q, q, m, TRUE, t)
<1> DEFINE r == Q!OnMessage(q, p, t, end, msg)
<1>1. CASE ~busy
  <2> DEFINE c == Q!CollectUtil(q, 0, t)
             s == Q!Sample(c)
             d == Q!detect(s, p, t, end)
  <2>1. r = [q |-> d, send |-> <<msg>>]
    BY <1>1 DEF Q!OnMessage, Q!SendAtOnce
  <2>2. c \in QueueType /\ Exact(c, m, TRUE, t) /\ SameMarks(c, q) /\ c.lastUtilChange = t
    <3>1. busy = FALSE
      BY <1>1
    <3>2. Exact(q, m, FALSE, t)
      BY <3>1
    <3>3. c \in QueueType /\ SameMarks(c, q) /\ c.lastUtilChange = t
      BY UtilCollected, CollectType
    <3>4. Exact(c, m, TRUE, t)
      BY <3>2, ExactStarts
    <3> QED
      BY <3>3, <3>4
  <2> HIDE DEF c
  <2>3. s \in QueueType /\ Exact(s, m, TRUE, t) /\ SameMarks(s, c) /\ s.lastUtilChange = t
    BY <2>2, ExactSample
  <2> HIDE DEF s
  <2>4. Measures(d, s, m, TRUE, t)
    BY <2>3, ExactDetect
  <2> HIDE DEF d, r
  <2>5. r.q = d
    BY <2>1
  <2>6. Measures(d, q, m, TRUE, t)
    BY <2>2, <2>3, <2>4 DEF Measures, SameMarks
  <2> QED
    BY <2>5, <2>6 DEF r
<1>2. CASE busy /\ Q!HasRoom(q, p)
  <2> DEFINE w == Append(q.queue, msg)
             c == Q!CollectLength(q, t)
             e == [c EXCEPT !.queue = w]
  <2>1. w \in Seq(Message)
    BY QueueFields
  <2>2. c.queue = q.queue
    BY CollectType
  <2>3. r = [q |-> [c EXCEPT !.queue = Append(c.queue, msg)], send |-> <<>>]
    BY <1>2 DEF Q!OnMessage, Q!Insert
  <2> HIDE DEF r, w
  <2>4. Exact(e, m, TRUE, t) /\ SameMarks(e, q)
    BY <1>2, <2>1, ExactLength
  <2> HIDE DEF c
  <2>5. r.q = e
    BY <2>2, <2>3 DEF w
  <2> HIDE DEF e
  <2> QED
    BY <2>4, <2>5 DEF Measures, r
<1>3. CASE busy /\ ~Q!HasRoom(q, p)
  <2> DEFINE s == [q EXCEPT !.dropped = @ + 1]
  <2>1. r = [q |-> s, send |-> <<>>]
    BY <1>3 DEF Q!OnMessage
  <2>2. /\ s.queue = q.queue /\ SameMarks(s, q)
        /\ s.linkUtilization = q.linkUtilization /\ s.queueLength = q.queueLength
        /\ s.lastUtilChange = q.lastUtilChange /\ s.lastQueueChange = q.lastQueueChange
    BY DEF QueueType, SameMarks
  <2> HIDE DEF s, r
  <2>3. r.q = s
    BY <2>1
  <2>4. Exact(s, m, TRUE, t)
    BY <1>3, <2>2 DEF Exact
  <2> QED
    BY <2>2, <2>3, <2>4 DEF Measures, r
<1> QED
  BY <1>1, <1>2, <1>3

LEMMA TimeoutMeasured ==
    ASSUME NEW q \in QueueType, NEW p, p.batchLength \in Int, NEW t \in Int,
           NEW m, Exact(q, m, TRUE, t)
    PROVE  Measures(Q!OnTimeout(q, p, t, t).q, q, m, q.queue # <<>>, t)
<1> DEFINE r == Q!OnTimeout(q, p, t, t)
<1>1. CASE q.queue # <<>>
  <2> DEFINE w == Tail(q.queue)
             c == Q!CollectLength(q, t)
             e == [c EXCEPT !.queue = w]
             s == Q!Sample(e)
             d == Q!detect(s, p, t, t)
  <2>1. w \in Seq(Message)
    BY <1>1, QueueFields
  <2>2. c.queue = q.queue
    BY CollectType
  <2>3. r = [q |-> Q!detect(Q!Sample([c EXCEPT !.queue = Tail(c.queue)]), p, t, t),
             send |-> <<Head(q.queue)>>]
    BY <1>1 DEF Q!OnTimeout, Q!SendFirst
  <2> HIDE DEF w, r
  <2>4. e \in QueueType /\ Exact(e, m, TRUE, t) /\ SameMarks(e, q)
    BY <2>1, ExactLength
  <2> HIDE DEF c
  <2>5. r.q = d
    BY <2>2, <2>3 DEF w
  <2> HIDE DEF e
  <2>6. s \in QueueType /\ Exact(s, m, TRUE, t) /\ SameMarks(s, e)
    BY <2>4, ExactSample
  <2> HIDE DEF s
  <2>7. Measures(d, s, m, TRUE, t)
    <3>1. t >= t
      OBVIOUS
    <3> HIDE DEF s
    <3> QED
      BY <2>6, <3>1, ExactDetect
  <2> HIDE DEF d
  <2>8. Measures(d, q, m, TRUE, t)
    BY <2>4, <2>6, <2>7 DEF Measures, SameMarks
  <2> QED
    BY <1>1, <2>5, <2>8 DEF r
<1>2. CASE q.queue = <<>>
  <2> DEFINE c == Q!CollectUtil(q, 1, t)
  <2>1. r = [q |-> c, send |-> <<>>]
    BY <1>2 DEF Q!OnTimeout, Q!Idle
  <2>2. Exact(c, m, FALSE, t) /\ SameMarks(c, q)
    <3>1. SameMarks(c, q)
      BY UtilCollected
    <3>2. Exact(c, m, FALSE, t)
      BY ExactStops
    <3> QED
      BY <3>1, <3>2
  <2> HIDE DEF c, r
  <2>3. r.q = c /\ (q.queue # <<>>) = FALSE
    BY <1>2, <2>1
  <2> QED
    BY <2>2, <2>3 DEF Measures, r
<1> QED
  BY <1>1, <1>2

(***************************************************************************)
(* The statistics of all links are exact, at any time.                     *)
(***************************************************************************)
Recorded(q, m) ==
    q.report # Q!NoReport =>
        q.report.linkUtilization.sum = m.busy /\ q.report.queueLength.sum = m.length

StatInv ==
    /\ meter \in [Link -> MeterType]
    /\ measured \in [Link -> MeterType]
    /\ \A l \in Link :
          /\ Exact(queue[l], meter[l], isScheduled(fes, timeout(l)), now)
          /\ Recorded(queue[l], measured[l])

LEMMA Distribute ==
    ASSUME NEW n \in Int, NEW a \in Int, NEW b \in Int, NEW c \in Int
    PROVE  n * (a - c) + n * (b - a) = n * (b - c)
OBVIOUS

LEMMA Shift ==
    ASSUME NEW w \in Int, NEW a \in Int, NEW b \in Int, NEW c \in Int, NEW d \in Int,
           w + (c - a) = c - b
    PROVE  w + (d - a) = d - b
OBVIOUS

\* While time passes, a link that sends is busy.
LEMMA TimePasses ==
    ASSUME SimInv, StatInv, ~aborted, fes # <<>>
    PROVE  LET t == Head(fes).time IN
           /\ MeterAt(t) \in [Link -> MeterType]
           /\ \A l \in Link :
                Exact(queue[l], MeterAt(t)[l], isScheduled(fes, timeout(l)), t)
<1> DEFINE t == Head(fes).time
<1>1. t \in Int /\ t >= now /\ now \in Int /\ \A e \in ToSet(fes) : e.time >= t /\ e.time \in Int
  <2>1. /\ t \in Int /\ t >= now /\ ToSet(fes) = {Head(fes)} \cup ToSet(Tail(fes))
        /\ Later(Tail(fes), t)
    BY NextEvent DEF SimInv
  <2>2. now \in Int /\ \A e \in ToSet(fes) : e.time \in Int
    BY ParametersType DEF SimInv, TimeOK, ListOK, EventOK
  <2> HIDE DEF t
  <2>3. \A e \in ToSet(fes) : e = Head(fes) \/ e.time >= t
    BY <2>1 DEF Later
  <2> QED
    BY <2>1, <2>2, <2>3 DEF t
<1> HIDE DEF t
<1>2. ASSUME NEW l \in Link
      PROVE  /\ MeterAt(t)[l] \in MeterType
             /\ Exact(queue[l], MeterAt(t)[l], isScheduled(fes, timeout(l)), t)
  <2> DEFINE q == queue[l]
             m == meter[l]
             busy == isScheduled(fes, timeout(l))
             d == IF finishes[l] =< now THEN 0 ELSE Min({finishes[l], t}) - now
             n == Len(q.queue)
             b == m.busy + d
             g == m.length + n * (t - now)
             z == [m EXCEPT !.busy = b, !.length = g]
  <2>1. /\ q \in QueueType /\ finishes[l] \in Int /\ m \in MeterType
        /\ TimeoutOK(fes, l, finishes[l], q.queue, now)
        /\ Exact(q, m, busy, now)
    BY DEF SimInv, LinksOK, StatInv
  <2>2. MeterAt(t)[l] = z
    BY DEF MeterAt
  <2>3. d = IF busy THEN t - now ELSE 0
    <3>1. CASE busy
      <4>1. PICK e \in ToSet(fes) : e.to = timeout(l)
        BY <3>1, ScheduledSet
      <4>2. finishes[l] >= t
        BY <1>1, <2>1, <4>1 DEF TimeoutOK
      <4>3. CASE finishes[l] =< now
        BY <1>1, <2>1, <3>1, <4>2, <4>3
      <4>4. CASE ~(finishes[l] =< now)
        <5>1. Min({finishes[l], t}) = t
          BY <1>1, <2>1, <4>2 DEF Min
        <5> QED
          BY <3>1, <4>4, <5>1
      <4> QED
        BY <4>3, <4>4
    <3>2. CASE ~busy
      <4>1. finishes[l] =< now
        BY <1>1, <2>1, <3>2 DEF TimeoutOK
      <4> QED
        BY <3>2, <4>1
    <3> QED
      BY <3>1, <3>2
  <2> HIDE DEF d, m, q, busy
  <2>4. /\ m.busy \in Int /\ m.length \in Int /\ m.since \in Int
        /\ n \in Int /\ d \in Int /\ t \in Int /\ now \in Int
    BY <1>1, <2>1, <2>3, QueueFields DEF MeterType
  <2>5. /\ q.linkUtilization.sum \in Int /\ q.linkUtilization.weight \in Int
        /\ q.queueLength.sum \in Int /\ q.queueLength.weight \in Int
        /\ q.lastUtilChange \in Int /\ q.lastQueueChange \in Int
    BY <2>1, QueueFields
  <2>6. /\ q.linkUtilization.sum + (IF busy THEN now - q.lastUtilChange ELSE 0) = m.busy
        /\ q.linkUtilization.weight + (now - q.lastUtilChange) = now - m.since
        /\ q.queueLength.weight + (now - q.lastQueueChange) = now - m.since
    BY <2>1 DEF Exact
  <2>7. q.queueLength.sum + n * (now - q.lastQueueChange) = m.length
    BY <2>1 DEF Exact
  <2> HIDE DEF n
  <2>8. b \in Int /\ g \in Int
    <3> DEFINE x == t - now
    <3>1. x \in Int
      BY <2>4
    <3> HIDE DEF x
    <3>2. n * x \in Int
      BY <2>4, <3>1
    <3> QED
      BY <2>4, <3>2 DEF x
  <2> HIDE DEF b, g
  <2>9. z \in MeterType /\ z.busy = b /\ z.length = g /\ z.since = m.since
    BY <2>1, <2>8 DEF MeterType
  <2> HIDE DEF z
  <2>10. q.linkUtilization.sum + (IF busy THEN t - q.lastUtilChange ELSE 0) = b
    <3>1. CASE busy
      <4>1. d = t - now /\ q.linkUtilization.sum + (now - q.lastUtilChange) = m.busy
        BY <2>3, <2>6, <3>1
      <4> QED
        BY <2>4, <2>5, <3>1, <4>1 DEF b
    <3>2. CASE ~busy
      <4>1. d = 0 /\ q.linkUtilization.sum + 0 = m.busy
        BY <2>3, <2>6, <3>2
      <4> QED
        BY <2>4, <2>5, <3>2, <4>1 DEF b
    <3> QED
      BY <3>1, <3>2
  <2>11. /\ q.linkUtilization.weight + (t - q.lastUtilChange) = t - m.since
        /\ q.queueLength.weight + (t - q.lastQueueChange) = t - m.since
    <3> DEFINE u == q.linkUtilization.weight  v == q.lastUtilChange
               x == q.queueLength.weight  y == q.lastQueueChange
               s == m.since
    <3>1. /\ u \in Int /\ v \in Int /\ x \in Int /\ y \in Int /\ s \in Int
          /\ t \in Int /\ now \in Int
      BY <2>4, <2>5
    <3>2. u + (now - v) = now - s /\ x + (now - y) = now - s
      BY <2>6
    <3> HIDE DEF u, v, x, y, s
    <3>3. u + (t - v) = t - s /\ x + (t - y) = t - s
      BY <3>1, <3>2
    <3> QED
      BY <3>3 DEF u, v, x, y, s
  <2>12. q.queueLength.sum + n * (t - q.lastQueueChange) = g
    <3> DEFINE x == n * (now - q.lastQueueChange)
               y == n * (t - now)
               w == n * (t - q.lastQueueChange)
    <3>2. x + y = w
      BY <2>4, <2>5, Distribute
    <3>9. x \in Int /\ y \in Int
      <4>1. \A i, j \in Int : i * j \in Int /\ i - j \in Int
        OBVIOUS
      <4> QED
        BY <2>4, <2>5, <4>1
    <3>3. q.queueLength.sum + x = m.length
      BY <2>7
    <3>4. g = m.length + y
      BY DEF g
    <3> HIDE DEF x, y, w
    <3>5. q.queueLength.sum + w = g
      BY <2>5, <3>9, <3>2, <3>3, <3>4
    <3> QED
      BY <3>5 DEF w
  <2>13. Exact(q, z, busy, t)
    BY <2>9, <2>10, <2>11, <2>12 DEF Exact, n
  <2> QED
    BY <2>2, <2>9, <2>13 DEF q, busy
<1>3. MeterAt(t) \in [Link -> MeterType]
  <2>1. DOMAIN MeterAt(t) = Link
    BY DEF MeterAt
  <2>2. MeterAt(t) = [l \in Link |-> MeterAt(t)[l]]
    BY DEF MeterAt
  <2> DEFINE f == MeterAt(t)
  <2> HIDE DEF f
  <2> QED
    BY <1>2, <2>1, <2>2 DEF f
<1> QED
  BY <1>2, <1>3 DEF t

LEMMA MeterTyped == ASSUME NEW t \in Int PROVE Meter(t) \in MeterType
BY DEF Meter, MeterType

LEMMA StatInit == Init => StatInv
<1> SUFFICES ASSUME Init PROVE StatInv
  OBVIOUS
<1>1. /\ now = 0 /\ fes = InitialEvents /\ par \in Parameters
      /\ queue = [l \in Link |-> Q!NewQueue(par)]
      /\ meter = [l \in Link |-> Meter(0)] /\ measured = meter
  BY DEF Init
<1>2. meter \in [Link -> MeterType]
  BY <1>1, MeterTyped
<1> DEFINE q == Q!NewQueue(par)  z == Q!NoWeight
<1>3. z.sum = 0 /\ z.weight = 0
  BY DEF Q!NoWeight
<1>4. /\ q.linkUtilization = z /\ q.queueLength = z /\ q.lastUtilChange = 0
      /\ q.lastQueueChange = 0 /\ q.queue = <<>> /\ q.report = Q!NoReport
  BY DEF Q!NewQueue
<1> HIDE DEF q, z
<1>5. /\ Meter(0).busy = 0 /\ Meter(0).length = 0 /\ Meter(0).since = 0
  BY DEF Meter
<1>6. \A busy \in BOOLEAN : Exact(q, Meter(0), busy, 0)
  BY <1>3, <1>4, <1>5 DEF Exact
<1>7. ASSUME NEW l \in Link
      PROVE  /\ Exact(queue[l], meter[l], isScheduled(fes, timeout(l)), now)
             /\ Recorded(queue[l], measured[l])
  <2>1. queue[l] = q /\ meter[l] = Meter(0)
    BY <1>1 DEF q
  <2>2. isScheduled(fes, timeout(l)) \in BOOLEAN
    BY DEF isScheduled
  <2> QED
    BY <1>1, <1>4, <1>6, <2>1, <2>2 DEF Recorded
<1> QED
  BY <1>1, <1>2, <1>7 DEF StatInv

\* All but the queues.
LEMMA OthersKeepStat ==
    ASSUME SimInv, StatInv, NEW kind, Arrives(kind), kind # "timeout",
           Pass, UNCHANGED <<queue, measured>>, SameTimeouts(fes', Tail(fes))
    PROVE  StatInv'
<1> DEFINE t == Head(fes).time
<1>1. ~aborted /\ fes # <<>>
  BY Handled
<1>2. /\ MeterAt(t) \in [Link -> MeterType]
      /\ \A l \in Link : Exact(queue[l], MeterAt(t)[l], isScheduled(fes, timeout(l)), t)
  BY <1>1, TimePasses
<1>3. now' = t /\ meter' = MeterAt(t)
  BY DEF Pass
<1> HIDE DEF t
<1>4. ASSUME NEW l \in Link
      PROVE  /\ Exact(queue'[l], meter'[l], isScheduled(fes', timeout(l)), now')
             /\ Recorded(queue'[l], measured'[l])
  <2>1. isScheduled(Tail(fes), timeout(l)) <=> isScheduled(fes, timeout(l))
    BY OtherLinks
  <2>2. isScheduled(fes', timeout(l)) <=> isScheduled(Tail(fes), timeout(l))
    BY ScheduledSet DEF SameTimeouts
  <2>3. isScheduled(fes', timeout(l)) = isScheduled(fes, timeout(l))
    BY <2>1, <2>2 DEF isScheduled
  <2> QED
    BY <1>2, <1>3, <2>3 DEF StatInv
<1> QED
  BY <1>2, <1>3, <1>4 DEF StatInv

\* A queue: what its handler measures, and what the step notes of it.
LEMMA QueueKeepsStat ==
    ASSUME SimInv, StatInv, NEW kind, Arrives(kind), NEW l \in Link,
           kind = "timeout" => Head(fes).to = timeout(l),
           NEW r, QueueStep(l, r),
           \A m : Exact(queue[l], m, isScheduled(fes, timeout(l)), Head(fes).time)
                     => Measures(r.q, queue[l], m, isScheduled(fes', timeout(l)), Head(fes).time),
           \A k \in Link :
               k # l => (isScheduled(fes', timeout(k)) <=> isScheduled(Tail(fes), timeout(k)))
    PROVE  StatInv'
<1> DEFINE t == Head(fes).time
           q == queue[l]
           M == MeterAt(t)
           reset == r.q.batchNum # q.batchNum \/ r.q.transientOver # q.transientOver
<1>1. ~aborted /\ fes # <<>> /\ t \in Int
  BY Handled
<1>2. /\ M \in [Link -> MeterType]
      /\ \A k \in Link : Exact(queue[k], M[k], isScheduled(fes, timeout(k)), t)
  BY <1>1, TimePasses
<1>3. /\ now' = t
      /\ queue' = [queue EXCEPT ![l] = r.q]
      /\ meter' = [M EXCEPT ![l] = IF reset THEN Meter(t) ELSE @]
      /\ measured' = IF r.q.batchNum # q.batchNum THEN [measured EXCEPT ![l] = M[l]] ELSE measured
  BY DEF QueueStep
<1>4. Measures(r.q, q, M[l], isScheduled(fes', timeout(l)), t)
  BY <1>2
<1>5. queue \in [Link -> QueueType] /\ measured \in [Link -> MeterType]
  BY DEF SimInv, LinksOK, StatInv
<1>6. Meter(t) \in MeterType
  BY <1>1, MeterTyped
<1> HIDE DEF t, M
<1>7. meter' \in [Link -> MeterType] /\ measured' \in [Link -> MeterType]
  <2>1. meter' = IF reset THEN [M EXCEPT ![l] = Meter(t)] ELSE [M EXCEPT ![l] = M[l]]
    BY <1>3
  <2> HIDE DEF reset
  <2>2. meter' \in [Link -> MeterType]
    BY <1>2, <1>6, <2>1
  <2>3. measured' \in [Link -> MeterType]
    BY <1>2, <1>3, <1>5
  <2> QED
    BY <2>2, <2>3
<1>8. ASSUME NEW k \in Link
      PROVE  /\ Exact(queue'[k], meter'[k], isScheduled(fes', timeout(k)), now')
             /\ Recorded(queue'[k], measured'[k])
  <2>1. CASE k # l
    <3>1. isScheduled(Tail(fes), timeout(k)) <=> isScheduled(fes, timeout(k))
      BY <2>1, OtherLinks
    <3>2. isScheduled(fes', timeout(k)) = isScheduled(fes, timeout(k))
      BY <2>1, <3>1 DEF isScheduled
    <3>3. queue'[k] = queue[k] /\ meter'[k] = M[k] /\ measured'[k] = measured[k]
      BY <1>2, <1>3, <1>5, <2>1
    <3> QED
      BY <1>2, <1>3, <3>2, <3>3 DEF StatInv
  <2>2. CASE k = l
    <3>1. queue'[l] = r.q /\ meter'[l] = IF reset THEN Meter(t) ELSE M[l]
      BY <1>2, <1>3, <1>5
    <3>2. measured'[l] = IF r.q.batchNum # q.batchNum THEN M[l] ELSE measured[l]
      BY <1>2, <1>3, <1>5
    <3>3. Recorded(q, measured[l])
      BY DEF StatInv
    <3> HIDE DEF q
    <3>4. CASE Exact(r.q, M[l], isScheduled(fes', timeout(l)), t) /\ SameMarks(r.q, q)
      BY <1>3, <2>2, <3>1, <3>2, <3>3, <3>4 DEF SameMarks, Recorded
    <3>5. CASE /\ Exact(r.q, Meter(t), isScheduled(fes', timeout(l)), t)
               /\ r.q.report = q.report /\ r.q.batchNum = q.batchNum
               /\ r.q.transientOver # q.transientOver
      BY <1>3, <2>2, <3>1, <3>2, <3>3, <3>5 DEF Recorded
    <3>6. CASE /\ Exact(r.q, Meter(t), isScheduled(fes', timeout(l)), t)
               /\ r.q.batchNum # q.batchNum
               /\ r.q.report.linkUtilization.sum = M[l].busy
               /\ r.q.report.queueLength.sum = M[l].length
      BY <1>3, <2>2, <3>1, <3>2, <3>6 DEF Recorded
    <3> QED
      BY <1>4, <3>4, <3>5, <3>6 DEF Measures
  <2> QED
    BY <2>1, <2>2
<1> QED
  BY <1>7, <1>8 DEF StatInv

LEMMA MessageKeepsStat == ASSUME SimInv, StatInv, QueueMessage PROVE StatInv'
<1> DEFINE h == Head(fes)
           s == Tail(fes)
<1>1. PICK l \in Link :
        LET q == queue[l]
            r == Q!OnMessage(q, par, h.time, finishes[l], h.msg)
        IN  /\ Arrives("queue") /\ QueueStep(l, r) /\ h.msg \in Message
            /\ \/ /\ r.send = <<>> /\ isScheduled(fes, timeout(l))
                  /\ ~(q.queue = <<>> /\ finishes[l] =< h.time)
               \/ /\ r.send = <<h.msg>> /\ ~isScheduled(fes, timeout(l))
                  /\ ~isScheduled(s, timeout(l))
                  /\ q.queue = <<>> /\ finishes[l] =< h.time
  BY MessageHandler
<1> DEFINE q == queue[l]
           busy == isScheduled(fes, timeout(l))
           r == Q!OnMessage(q, par, h.time, finishes[l], h.msg)
<1>2. /\ Arrives("queue") /\ QueueStep(l, r) /\ h.msg \in Message
      /\ \/ /\ r.send = <<>> /\ busy
            /\ ~(q.queue = <<>> /\ finishes[l] =< h.time)
         \/ /\ r.send = <<h.msg>> /\ ~busy
            /\ ~isScheduled(s, timeout(l))
            /\ q.queue = <<>> /\ finishes[l] =< h.time
  BY <1>1
<1>3. /\ h.time \in Int /\ par \in Parameters
  BY <1>2, Handled
<1>4. q \in QueueType /\ finishes[l] \in Int /\ par.batchLength \in Int /\ busy \in BOOLEAN
  BY <1>3, ParametersType DEF SimInv, LinksOK, isScheduled
<1>5. \A m : Exact(q, m, busy, h.time) => Measures(r.q, q, m, TRUE, h.time)
  <2> SUFFICES ASSUME NEW m, Exact(q, m, busy, h.time) PROVE Measures(r.q, q, m, TRUE, h.time)
    OBVIOUS
  <2>1. busy <=> ~(q.queue = <<>> /\ finishes[l] =< h.time)
    BY <1>2
  <2> HIDE DEF h, q, busy
  <2> QED
    BY <1>2, <1>3, <1>4, <2>1, MessageMeasured
<1> HIDE DEF r
<1>6. /\ isScheduled(fes', timeout(l)) = TRUE
      /\ \A k \in Link :
            k # l => (isScheduled(fes', timeout(k)) <=> isScheduled(s, timeout(k)))
  <2>1. CASE r.send = <<>> /\ busy
    <3>1. fes' = s
      BY <1>2, <2>1 DEF QueueStep, Transmit
    <3>2. isScheduled(s, timeout(l)) <=> busy
      BY <1>2, OtherLinks
    <3> QED
      BY <2>1, <3>1, <3>2 DEF isScheduled
  <2>2. CASE r.send = <<h.msg>> /\ ~isScheduled(s, timeout(l))
    <3> DEFINE m == h.msg
    <3>1. m \in Message /\ r.send = <<m>> /\ r.send # <<>> /\ Transmit(l, r)
      BY <1>2, <2>2 DEF QueueStep
    <3> HIDE DEF m
    <3>2. /\ isScheduled(fes', timeout(l))
          /\ \A k \in Link :
                k # l => (isScheduled(fes', timeout(k)) <=> isScheduled(s, timeout(k)))
      BY <1>2, <2>2, <3>1, Transmits
    <3> QED
      BY <3>2 DEF isScheduled
  <2> QED
    BY <1>2, <2>1, <2>2
<1>7. \A m : Exact(q, m, busy, h.time) => Measures(r.q, q, m, isScheduled(fes', timeout(l)), h.time)
  BY <1>5, <1>6
<1> DEFINE kind == "queue"
<1>8. Arrives(kind) /\ (kind = "timeout" => Head(fes).to = timeout(l))
  BY <1>2
<1> HIDE DEF kind
<1> QED
  BY <1>2, <1>6, <1>7, <1>8, QueueKeepsStat

LEMMA TimeoutKeepsStat == ASSUME SimInv, StatInv, QueueTimeout PROVE StatInv'
<1> DEFINE h == Head(fes)
           s == Tail(fes)
<1>1. PICK l \in Link :
        LET q == queue[l]
            r == Q!OnTimeout(q, par, h.time, finishes[l])
        IN  /\ Arrives("timeout") /\ QueueStep(l, r) /\ h.to = timeout(l)
            /\ h.time = finishes[l] /\ isScheduled(fes, timeout(l))
            /\ ~isScheduled(s, timeout(l))
            /\ \/ r.send = <<>> /\ q.queue = <<>>
               \/ q.queue # <<>> /\ r.send = <<Head(q.queue)>> /\ Head(q.queue) \in Message
  BY TimeoutHandler
<1> DEFINE q == queue[l]
           busy == isScheduled(fes, timeout(l))
           r == Q!OnTimeout(q, par, h.time, h.time)
<1>2. /\ Arrives("timeout") /\ QueueStep(l, r) /\ h.to = timeout(l)
      /\ busy /\ ~isScheduled(s, timeout(l))
      /\ \/ r.send = <<>> /\ q.queue = <<>>
         \/ q.queue # <<>> /\ r.send = <<Head(q.queue)>> /\ Head(q.queue) \in Message
  BY <1>1
<1>3. /\ h.time \in Int /\ par \in Parameters
  BY <1>2, Handled
<1>4. q \in QueueType /\ par.batchLength \in Int /\ busy = TRUE
  BY <1>2, <1>3, ParametersType DEF SimInv, LinksOK, isScheduled
<1>5. \A m : Exact(q, m, busy, h.time) => Measures(r.q, q, m, q.queue # <<>>, h.time)
  <2> SUFFICES ASSUME NEW m, Exact(q, m, busy, h.time)
               PROVE  Measures(r.q, q, m, q.queue # <<>>, h.time)
    OBVIOUS
  <2>1. Exact(q, m, TRUE, h.time)
    BY <1>4
  <2> HIDE DEF h, q, busy
  <2> QED
    BY <1>3, <1>4, <2>1, TimeoutMeasured
<1> HIDE DEF r
<1>6. /\ isScheduled(fes', timeout(l)) = (q.queue # <<>>)
      /\ \A k \in Link :
            k # l => (isScheduled(fes', timeout(k)) <=> isScheduled(s, timeout(k)))
  <2>1. CASE r.send = <<>> /\ q.queue = <<>>
    <3>1. fes' = s
      BY <1>2, <2>1 DEF QueueStep, Transmit
    <3> QED
      BY <1>2, <2>1, <3>1 DEF isScheduled
  <2>2. CASE q.queue # <<>> /\ r.send = <<Head(q.queue)>> /\ Head(q.queue) \in Message
    <3> DEFINE m == Head(q.queue)
    <3>1. m \in Message /\ r.send = <<m>> /\ r.send # <<>> /\ Transmit(l, r)
      BY <1>2, <2>2 DEF QueueStep
    <3> HIDE DEF m
    <3>2. /\ isScheduled(fes', timeout(l))
          /\ \A k \in Link :
                k # l => (isScheduled(fes', timeout(k)) <=> isScheduled(s, timeout(k)))
      BY <1>2, <3>1, Transmits
    <3> QED
      BY <2>2, <3>2 DEF isScheduled
  <2> QED
    BY <1>2, <2>1, <2>2
<1>7. \A m : Exact(q, m, busy, h.time) => Measures(r.q, q, m, isScheduled(fes', timeout(l)), h.time)
  BY <1>5, <1>6
<1> QED
  BY <1>2, <1>6, <1>7, QueueKeepsStat

LEMMA StatStep == SimInv /\ StatInv /\ [Next]_vars => StatInv'
<1> SUFFICES ASSUME SimInv, StatInv, [Next]_vars PROVE StatInv'
  OBVIOUS
<1>1. CASE StackHandles
  <2>1. Arrives("stack") /\ Pass /\ UNCHANGED <<queue, measured>>
    BY <1>1 DEF StackHandles, Network
  <2> QED
    BY <1>1, <2>1, StackStep, OthersKeepStat
<1>2. CASE DaemonHandles
  <2>1. Arrives("appl") /\ Pass /\ UNCHANGED <<queue, measured>>
    BY <1>2 DEF DaemonHandles
  <2> QED
    BY <1>2, <2>1, DaemonStep, OthersKeepStat
<1>3. CASE QueueMessage
  BY <1>3, MessageKeepsStat
<1>4. CASE QueueTimeout
  BY <1>4, TimeoutKeepsStat
<1>5. ASSUME NEW c \in Commands, ConPar(c[1], c[2]) PROVE StatInv'
  <2>1. UNCHANGED <<now, queue, meter, measured>>
    BY <1>5 DEF ConPar
  <2>2. \A l \in Link : isScheduled(fes', timeout(l)) = isScheduled(fes, timeout(l))
    <3> TAKE l \in Link
    <3>1. SameTimeouts(fes', fes)
      BY <1>5, ConParStep
    <3>2. isScheduled(fes', timeout(l)) <=> isScheduled(fes, timeout(l))
      BY <3>1, ScheduledSet DEF SameTimeouts
    <3> QED
      BY <3>2 DEF isScheduled
  <2> QED
    BY <2>1, <2>2 DEF StatInv
<1>6. CASE SendNext
  <2>1. Arrives("timer0") /\ Pass /\ UNCHANGED <<queue, measured>>
    BY <1>6 DEF SendNext, SenderStep, Network
  <2> QED
    BY <1>6, <2>1, SendNextStep, OthersKeepStat
<1>7. CASE Expire
  <2>1. Arrives("timer1") /\ Pass /\ UNCHANGED <<queue, measured>>
    BY <1>7 DEF Expire, SenderStep, Network
  <2> QED
    BY <1>7, <2>1, ExpireStep, OthersKeepStat
<1>8. CASE ReceiveAck
  <2>1. Arrives("appl") /\ Pass /\ UNCHANGED <<queue, measured>>
    BY <1>8 DEF ReceiveAck, Rejected, Acknowledged, SenderStep, Network
  <2> QED
    BY <1>8, <2>1, AckStep, OthersKeepStat
<1>9. CASE ReceiveData
  <2>1. Arrives("appl") /\ Pass /\ UNCHANGED <<queue, measured>>
    BY <1>9 DEF ReceiveData, Network
  <2> QED
    BY <1>9, <2>1, DataStep, OthersKeepStat
<1>10. CASE PingTimer
  <2>1. Arrives("pingtimer") /\ Pass /\ UNCHANGED <<queue, measured>>
    BY <1>10 DEF PingTimer, Network
  <2> QED
    BY <1>10, <2>1, PingTimerStep, OthersKeepStat
<1>11. CASE ReceivePing
  <2>1. Arrives("appl") /\ Pass /\ UNCHANGED <<queue, measured>>
    BY <1>11 DEF ReceivePing, Network
  <2> QED
    BY <1>11, <2>1, PingStep, OthersKeepStat
<1>12. CASE UNCHANGED vars
  <2>1. UNCHANGED <<now, fes, queue, meter, measured>>
    BY <1>12 DEF vars
  <2> QED
    BY <2>1 DEF StatInv
<1> QED
  BY <1>1, <1>2, <1>3, <1>4, <1>5, <1>6, <1>7, <1>8, <1>9, <1>10, <1>11, <1>12 DEF Next

(***************************************************************************)
(* The statistics of every link are the integrals they stand for: what     *)
(* InterfaceQueue has collected, with what it would collect now, is the    *)
(* time the link was busy and the length of its queue summed over time     *)
(* since the last reset, and a report has the sums of its interval.        *)
(***************************************************************************)
THEOREM StatisticsTheorem == Spec => []StatisticsExact
<1>1. SimInv /\ StatInv => StatisticsExact
  <2> SUFFICES ASSUME SimInv, StatInv, NEW l \in Link
               PROVE  LET q == queue[l]
                          busy == IF isScheduled(fes, timeout(l)) THEN 1 ELSE 0
                      IN /\ Q!collect2(q.linkUtilization, busy, now - q.lastUtilChange)
                              = [sum |-> meter[l].busy, weight |-> now - meter[l].since]
                         /\ Q!collect2(q.queueLength, Len(q.queue), now - q.lastQueueChange)
                              = [sum |-> meter[l].length, weight |-> now - meter[l].since]
                         /\ q.report # Q!NoReport =>
                              /\ q.report.linkUtilization.sum = measured[l].busy
                              /\ q.report.queueLength.sum = measured[l].length
    BY DEF StatisticsExact
  <2> DEFINE q == queue[l]
             m == meter[l]
             busy == isScheduled(fes, timeout(l))
             v == IF busy THEN 1 ELSE 0
             d == now - q.lastUtilChange
  <2>1. q \in QueueType /\ now \in Int /\ Exact(q, m, busy, now) /\ Recorded(q, measured[l])
    BY ParametersType DEF SimInv, TimeOK, LinksOK, StatInv
  <2>2. v * d = IF busy THEN d ELSE 0
    <3>1. d \in Int
      BY <2>1, QueueFields
    <3> HIDE DEF d, busy
    <3> QED
      BY <3>1
  <2>3. Q!collect2(q.linkUtilization, v, d) = [sum |-> m.busy, weight |-> now - m.since]
    <3> HIDE DEF q, m, busy, v
    <3> QED
      BY <2>1, <2>2 DEF Exact, Q!collect2
  <2>4. Q!collect2(q.queueLength, Len(q.queue), now - q.lastQueueChange)
          = [sum |-> m.length, weight |-> now - m.since]
    <3> HIDE DEF q, m, busy
    <3> QED
      BY <2>1 DEF Exact, Q!collect2
  <2> QED
    BY <2>1, <2>3, <2>4 DEF Recorded
<1>2. Init => SimInv /\ StatInv
  BY InitInv, StatInit
<1>3. SimInv /\ StatInv /\ [Next]_vars => (SimInv /\ StatInv)'
  BY StepInv, StatStep
<1> QED
  BY <1>1, <1>2, <1>3, PTL DEF Spec

----------------------------------------------------------------------------
(***************************************************************************)
(* When the statistics of the interface queues cannot abort a simulation:  *)
(* for all parameters with batches at least as long as the transient phase,*)
(* and whatever messages the queues get.                                   *)
(***************************************************************************)
\* A queue is a record; the induction needs two of its fields.
IsQueue(q) ==
    /\ q = [f \in DOMAIN q |-> q[f]]
    /\ {"samples", "transientOver"} \subseteq DOMAIN q
    /\ q.samples \in Nat /\ q.transientOver \in BOOLEAN

QueueOK(q, p) == IsQueue(q) /\ Q!Detected(q, p)

LEMMA NewQueueOK ==
    ASSUME NEW p, BatchesLongEnough(p) PROVE QueueOK(Q!NewQueue(p), p)
<1> DEFINE n == Q!NewQueue(p)
<1>1. n.samples = 0 /\ n.transientOver = (p.transientRemoval =< 0)
  BY DEF Q!NewQueue
<1>2. IsQueue(n)
  <2>1. n.samples \in Nat /\ n.transientOver \in BOOLEAN
    BY <1>1
  <2> QED  BY <2>1 DEF IsQueue, Q!NewQueue
<1>3. n.transientOver \/ n.samples < p.transientRemoval
  <2>1. CASE p.transientRemoval =< 0
    BY <1>1, <2>1, Zenon
  <2>2. CASE ~(p.transientRemoval =< 0)
    BY <1>1, <2>2, SMT DEF BatchesLongEnough
  <2> QED  BY <2>1, <2>2
<1>4. p.batchLength =< 0 \/ n.samples < p.batchLength
  BY <1>1, SMT DEF BatchesLongEnough
<1> HIDE DEF n
<1>5. Q!Detected(n, p)
  BY <1>3, <1>4, Zenon DEF Q!Detected
<1> QED  BY <1>2, <1>5 DEF QueueOK, n

LEMMA ResetOK ==
    ASSUME NEW q, NEW t, IsQueue(q)
    PROVE  /\ IsQueue(Q!resetStatistics(q, t))
           /\ Q!resetStatistics(q, t).samples = 0
           /\ Q!resetStatistics(q, t).transientOver = q.transientOver
<1> DEFINE n == Q!resetStatistics(q, t)
<1>1. n.samples = 0 /\ n.transientOver = q.transientOver
  BY DEF IsQueue, Q!resetStatistics
<1>2. n = [f \in DOMAIN n |-> n[f]] /\ DOMAIN n = DOMAIN q
  BY DEF IsQueue, Q!resetStatistics
<1> QED  BY <1>1, <1>2 DEF IsQueue

\* A step of the queue or of its statistics that leaves the two fields alone.
Same(r, q) == IsQueue(r) /\ r.samples = q.samples /\ r.transientOver = q.transientOver

LEMMA CollectOK ==
    ASSUME NEW q, NEW value, NEW t, IsQueue(q)
    PROVE  Same(Q!CollectUtil(q, value, t), q) /\ Same(Q!CollectLength(q, t), q)
<1> DEFINE u == Q!CollectUtil(q, value, t)
           n == Q!CollectLength(q, t)
<1>1. u.samples = q.samples /\ u.transientOver = q.transientOver
  BY DEF IsQueue, Q!CollectUtil
<1>2. u = [f \in DOMAIN u |-> u[f]] /\ DOMAIN u = DOMAIN q
  BY DEF IsQueue, Q!CollectUtil
<1>3. n.samples = q.samples /\ n.transientOver = q.transientOver
  BY DEF IsQueue, Q!CollectLength
<1>4. n = [f \in DOMAIN n |-> n[f]] /\ DOMAIN n = DOMAIN q
  BY DEF IsQueue, Q!CollectLength
<1> HIDE DEF u, n
<1> QED  BY <1>1, <1>2, <1>3, <1>4 DEF IsQueue, Same, u, n

LEMMA FieldOK ==
    ASSUME NEW q, NEW x, IsQueue(q)
    PROVE  /\ Same([q EXCEPT !.queue = x], q)
           /\ Same([q EXCEPT !.dropped = x], q)
           /\ Same([q EXCEPT !.report = x], q)
           /\ Same([q EXCEPT !.batchNum = x], q)
  BY DEF IsQueue, Same

LEMMA RecordOK ==
    ASSUME NEW q, NEW t, NEW end, IsQueue(q)
    PROVE  Same(Q!recordStatistics(q, t, end), q)
<1> DEFINE u == Q!CollectUtil(q, IF end < t THEN 0 ELSE 1, t)
           r == Q!CollectLength(u, t)
           report == [batch |-> q.batchNum, linkUtilization |-> r.linkUtilization,
                      queueLength |-> r.queueLength, samples |-> r.samples]
<1>1. Same(u, q)
  BY CollectOK
<1>2. Same(r, u)
  BY <1>1, CollectOK DEF Same
<1>3. Q!recordStatistics(q, t, end) = [r EXCEPT !.report = report]
  BY DEF Q!recordStatistics
<1> HIDE DEF u, r, report
<1>4. Same([r EXCEPT !.report = report], r)
  BY <1>2, FieldOK DEF Same
<1> QED  BY <1>1, <1>2, <1>3, <1>4 DEF Same

(***************************************************************************)
(* The two functions of the statistics: whatever the queue was before, the *)
(* assertions at their end hold.                                           *)
(***************************************************************************)
LEMMA TransientOK ==
    ASSUME NEW q, NEW p, NEW t, IsQueue(q), BatchesLongEnough(p)
    PROVE  LET r == Q!detectTransient(q, p, t) IN
           IsQueue(r) /\ (r.transientOver \/ r.samples < p.transientRemoval)
<1> DEFINE r == Q!detectTransient(q, p, t)
<1> SUFFICES IsQueue(r) /\ (r.transientOver \/ r.samples < p.transientRemoval)
  OBVIOUS
<1>1. CASE ~q.transientOver /\ q.samples >= p.transientRemoval
  <2> DEFINE s == Q!resetStatistics(q, t)
  <2>1. IsQueue(s)
    BY ResetOK
  <2>2. r = [s EXCEPT !.transientOver = TRUE]
    BY <1>1 DEF Q!detectTransient
  <2> HIDE DEF s, r
  <2> QED  BY <2>1, <2>2 DEF IsQueue
<1>2. CASE ~(~q.transientOver /\ q.samples >= p.transientRemoval)
  <2>1. r = q
    BY <1>2 DEF Q!detectTransient
  <2>2. q.transientOver \/ q.samples < p.transientRemoval
    BY <1>2 DEF IsQueue, BatchesLongEnough
  <2> HIDE DEF r
  <2> QED  BY <2>1, <2>2
<1> QED  BY <1>1, <1>2

LEMMA DetectOK ==
    ASSUME NEW q, NEW p, NEW t, NEW end, IsQueue(q), BatchesLongEnough(p)
    PROVE  QueueOK(Q!detect(q, p, t, end), p)
<1> DEFINE r == Q!detectTransient(q, p, t)
           b == Q!detectBatch(r, p, t, end)
<1> SUFFICES QueueOK(b, p)
  BY DEF Q!detect
<1>1. IsQueue(r) /\ (r.transientOver \/ r.samples < p.transientRemoval)
  BY TransientOK
<1> HIDE DEF r
<1>2. CASE r.transientOver /\ p.batchLength > 0 /\ r.samples >= p.batchLength
  <2> DEFINE w == Q!recordStatistics(r, t, end)
             s == Q!resetStatistics(w, t)
  <2>1. Same(w, r)
    BY <1>1, RecordOK
  <2>2. IsQueue(s) /\ s.samples = 0 /\ s.transientOver = w.transientOver
    BY <2>1, ResetOK DEF Same
  <2>3. b = [s EXCEPT !.batchNum = @ + 1]
    BY <1>2 DEF Q!detectBatch
  <2> HIDE DEF s, b, w
  <2>4. Same(b, s)
    BY <2>2, <2>3, FieldOK
  <2>5. IsQueue(b) /\ b.samples = 0 /\ b.transientOver
    BY <1>2, <2>1, <2>2, <2>4 DEF Same
  <2>6. Q!Detected(b, p)
    BY <1>2, <2>5 DEF Q!Detected, BatchesLongEnough
  <2> QED  BY <2>5, <2>6 DEF QueueOK
<1>3. CASE ~(r.transientOver /\ p.batchLength > 0 /\ r.samples >= p.batchLength)
  <2>1. b = r
    BY <1>3 DEF Q!detectBatch
  <2>2. p.batchLength =< 0 \/ r.samples < p.batchLength
    <3>1. CASE r.transientOver
      BY <1>1, <1>3, <3>1 DEF IsQueue, BatchesLongEnough
    <3>2. CASE ~r.transientOver
      BY <1>1, <3>2 DEF IsQueue, BatchesLongEnough
    <3> QED  BY <3>1, <3>2
  <2> HIDE DEF b
  <2> QED  BY <1>1, <2>1, <2>2 DEF QueueOK, Q!Detected
<1> QED  BY <1>2, <1>3

(***************************************************************************)
(* The handler of a queue, for a message and for the timeout.              *)
(***************************************************************************)
LEMMA SampleOK ==
    ASSUME NEW q, IsQueue(q) PROVE IsQueue(Q!Sample(q))
<1> DEFINE s == Q!Sample(q)
<1> SUFFICES IsQueue(s)
  OBVIOUS
<1>1. s = [q EXCEPT !.samples = q.samples + 1]
  BY DEF Q!Sample
<1> HIDE DEF s
<1> QED  BY <1>1 DEF IsQueue

LEMMA OnTimeoutOK ==
    ASSUME NEW q, NEW p, NEW t, NEW end, QueueOK(q, p), BatchesLongEnough(p)
    PROVE  QueueOK(Q!OnTimeout(q, p, t, end).q, p)
<1>1. IsQueue(q)
  BY DEF QueueOK
<1>2. CASE q.queue # <<>>
  <2> DEFINE c == Q!CollectLength(q, t)
             s == [c EXCEPT !.queue = Tail(@)]
             d == Q!detect(Q!Sample(s), p, t, end)
  <2>1. Same(c, q)
    BY <1>1, CollectOK
  <2>2. IsQueue(s)
    BY <2>1, FieldOK DEF Same
  <2>3. QueueOK(d, p)
    BY <2>2, SampleOK, DetectOK
  <2>4. Q!OnTimeout(q, p, t, end).q = d
    BY <1>2 DEF Q!OnTimeout, Q!SendFirst
  <2> HIDE DEF c, s, d
  <2> QED  BY <2>3, <2>4
<1>3. CASE ~(q.queue # <<>>)
  <2>1. Same(Q!CollectUtil(q, 1, t), q)
    BY <1>1, CollectOK
  <2>2. Q!OnTimeout(q, p, t, end).q = Q!CollectUtil(q, 1, t)
    BY <1>3 DEF Q!OnTimeout, Q!Idle
  <2> QED  BY <2>1, <2>2 DEF QueueOK, Same, Q!Detected
<1> QED  BY <1>2, <1>3

LEMMA OnMessageOK ==
    ASSUME NEW q, NEW p, NEW t, NEW end, NEW msg, QueueOK(q, p), BatchesLongEnough(p)
    PROVE  QueueOK(Q!OnMessage(q, p, t, end, msg).q, p)
<1>1. IsQueue(q)
  BY DEF QueueOK
<1> DEFINE r == Q!OnMessage(q, p, t, end, msg).q
<1>2. CASE q.queue = <<>> /\ end =< t
  <2> DEFINE c == Q!CollectUtil(q, 0, t)
             d == Q!detect(Q!Sample(c), p, t, end)
  <2>1. Same(c, q)
    BY <1>1, CollectOK
  <2>2. QueueOK(d, p)
    BY <2>1, SampleOK, DetectOK DEF Same
  <2>3. r = d
    BY <1>2 DEF Q!OnMessage, Q!SendAtOnce
  <2> HIDE DEF c, d, r
  <2> QED  BY <2>2, <2>3 DEF r
<1>3. CASE ~(q.queue = <<>> /\ end =< t) /\ Q!HasRoom(q, p)
  <2> DEFINE c == Q!CollectLength(q, t)
             s == [c EXCEPT !.queue = Append(@, msg)]
  <2>1. Same(c, q)
    BY <1>1, CollectOK
  <2>2. Same(s, c)
    BY <2>1, FieldOK DEF Same
  <2>3. r = s
    BY <1>3 DEF Q!OnMessage, Q!Insert
  <2> HIDE DEF c, s, r
  <2>4. Same(r, q)
    BY <2>1, <2>2, <2>3 DEF Same
  <2> QED  BY <2>4 DEF QueueOK, Same, Q!Detected, r
<1>4. CASE ~(q.queue = <<>> /\ end =< t) /\ ~Q!HasRoom(q, p)
  <2>1. r = [q EXCEPT !.dropped = @ + 1]
    BY <1>4 DEF Q!OnMessage
  <2> HIDE DEF r
  <2>2. Same(r, q)
    BY <1>1, <2>1, FieldOK
  <2> QED  BY <2>2 DEF QueueOK, Same, Q!Detected, r
<1> QED  BY <1>2, <1>3, <1>4

(***************************************************************************)
(* The inductive invariant: it holds of every queue, with the parameters   *)
(* the simulation was started with.                                        *)
(***************************************************************************)
QueuesInv ==
    /\ par \in Parameters
    /\ DOMAIN queue = Link
    /\ \A l \in Link : QueueOK(queue[l], par)

LEMMA QueueStepOK ==
    ASSUME QueuesInv, NEW l, NEW r, QueueStep(l, r), l \in Link => QueueOK(r.q, par)
    PROVE  QueuesInv'
<1>1. queue' = [queue EXCEPT ![l] = r.q] /\ par' = par
  BY DEF QueueStep
<1>2. DOMAIN queue' = Link
  BY <1>1 DEF QueuesInv
<1>3. ASSUME NEW k \in Link PROVE QueueOK(queue'[k], par)
  BY <1>1 DEF QueuesInv
<1>4. \A k \in Link : QueueOK(queue'[k], par')
  BY <1>1, <1>3
<1> QED  BY <1>1, <1>2, <1>4 DEF QueuesInv

LEMMA BatchesStart ==
    ASSUME \A p \in Parameters : BatchesLongEnough(p)
    PROVE  Init => QueuesInv
<1> SUFFICES ASSUME Init PROVE QueuesInv
  OBVIOUS
<1>1. par \in Parameters /\ queue = [l \in Link |-> Q!NewQueue(par)]
  BY DEF Init
<1>2. QueueOK(Q!NewQueue(par), par)
  BY <1>1, NewQueueOK
<1> QED  BY <1>1, <1>2 DEF QueuesInv

LEMMA BatchesGoOn ==
    ASSUME \A p \in Parameters : BatchesLongEnough(p)
    PROVE  QueuesInv /\ [Next]_vars => QueuesInv'
<1> SUFFICES ASSUME QueuesInv, [Next]_vars PROVE QueuesInv'
  OBVIOUS
<1>1. BatchesLongEnough(par)
  BY DEF QueuesInv
<1>2. ASSUME UNCHANGED <<par, queue>> PROVE QueuesInv'
  BY <1>2 DEF QueuesInv
<1>3. CASE QueueMessage
  <2> DEFINE e == Head(fes)
             l == <<e.to[2], e.to[3]>>
             r == Q!OnMessage(queue[l], par, e.time, finishes[l], e.msg)
  <2>1. QueueStep(l, r)
    BY <1>3 DEF QueueMessage
  <2>2. l \in Link => QueueOK(r.q, par)
    BY <1>1, OnMessageOK DEF QueuesInv
  <2> HIDE DEF l, r
  <2> QED  BY <2>1, <2>2, QueueStepOK
<1>4. CASE QueueTimeout
  <2> DEFINE e == Head(fes)
             l == <<e.to[2], e.to[3]>>
             r == Q!OnTimeout(queue[l], par, e.time, finishes[l])
  <2>1. QueueStep(l, r)
    BY <1>4 DEF QueueTimeout
  <2>2. l \in Link => QueueOK(r.q, par)
    BY <1>1, OnTimeoutOK DEF QueuesInv
  <2> HIDE DEF l, r
  <2> QED  BY <2>1, <2>2, QueueStepOK
<1>5. CASE StackHandles
  BY <1>2, <1>5 DEF StackHandles, Network
<1>6. CASE DaemonHandles
  BY <1>2, <1>6 DEF DaemonHandles
<1>7. ASSUME NEW c \in Commands, ConPar(c[1], c[2]) PROVE QueuesInv'
  BY <1>2, <1>7 DEF ConPar
<1>8. ASSUME NEW s, NEW events, NEW asserted, SenderStep(s, events, asserted)
      PROVE  QueuesInv'
  BY <1>2, <1>8 DEF SenderStep, Network
<1>9. CASE SendNext
  BY <1>8, <1>9 DEF SendNext
<1>10. CASE Expire
  BY <1>8, <1>10 DEF Expire
<1>11. CASE ReceiveAck
  BY <1>8, <1>11 DEF ReceiveAck, Rejected, Acknowledged
<1>12. CASE ReceiveData
  BY <1>2, <1>12 DEF ReceiveData, Network
<1>13. CASE PingTimer
  BY <1>2, <1>13 DEF PingTimer, Network
<1>14. CASE ReceivePing
  BY <1>2, <1>14 DEF ReceivePing, Network
<1>15. CASE UNCHANGED vars
  BY <1>2, <1>15 DEF vars
<1> QED
  BY <1>3, <1>4, <1>5, <1>6, <1>7, <1>9, <1>10, <1>11, <1>12, <1>13, <1>14, <1>15 DEF Next

(***************************************************************************)
(* The assertions of detectTransient() and detectBatch() hold in every     *)
(* network, provided that no batch is shorter than the transient phase.    *)
(* (The .ini file in the repository has such parameters; the run batches   *)
(* of MCSimulation has others.)                                            *)
(***************************************************************************)
THEOREM BatchesEndInTimeTheorem ==
    ASSUME \A p \in Parameters : BatchesLongEnough(p)
    PROVE  Spec => []BatchesEndInTime
<1>1. Init => QueuesInv
  BY BatchesStart
<1>2. QueuesInv /\ [Next]_vars => QueuesInv'
  BY BatchesGoOn
<1>3. QueuesInv => BatchesEndInTime
  BY DEF QueuesInv, QueueOK, BatchesEndInTime
<1> QED  BY <1>1, <1>2, <1>3, PTL DEF Spec

----------------------------------------------------------------------------
(***************************************************************************)
(* The reference for routes: what the rounds of Distance compute.          *)
(***************************************************************************)
Pairs == Node \X Node

Unlinked == [p \in Pairs |-> IF p[1] = p[2] THEN 0 ELSE INFINITY]

Extended(c, w) ==
    [p \in Pairs |->
        R!Min({w[p]} \cup {R!getMetric(c, <<p[1], m>>) + w[<<m, p[2]>>] :
                             m \in {x \in Node : <<p[1], x>> \in Link}})]

Lengths(c, f, K) ==
    f = [k \in 0 .. K |-> IF k = 0 THEN Unlinked ELSE Extended(c, f[k - 1])]

LEMMA LengthsExist ==
    ASSUME NEW c, NEW K \in Nat PROVE \E f : Lengths(c, f, K)
<1> DEFINE Bad == {k \in Nat : ~ \E f : Lengths(c, f, k)}
<1> SUFFICES ASSUME Bad # {} PROVE FALSE
  OBVIOUS
<1>1. PICK m \in Bad : \A k \in Bad : m =< k
  BY Smallest
<1>2. CASE m = 0
  <2> DEFINE f == [k \in 0 .. 0 |-> Unlinked]
  <2>1. Lengths(c, f, 0)
    BY DEF Lengths
  <2> QED
    BY <1>1, <1>2, <2>1
<1>3. CASE m # 0
  <2>1. m \in Nat /\ m - 1 \in Nat /\ m - 1 \notin Bad
    BY <1>1, <1>3
  <2>2. PICK f : Lengths(c, f, m - 1)
    BY <2>1
  <2> DEFINE last == Extended(c, f[m - 1])
             g == [k \in 0 .. m |-> IF k = m THEN last ELSE f[k]]
  <2>3. \A k \in 0 .. m - 1 : f[k] = IF k = 0 THEN Unlinked ELSE Extended(c, f[k - 1])
    BY <2>2 DEF Lengths
  <2>4. ASSUME NEW k \in 0 .. m
        PROVE  g[k] = IF k = 0 THEN Unlinked ELSE Extended(c, g[k - 1])
    <3> HIDE DEF last
    <3>1. CASE k = m
      <4>1. g[k] = last /\ g[k - 1] = f[m - 1] /\ k # 0
        BY <1>3, <2>1, <3>1
      <4> QED
        BY <4>1 DEF last
    <3>2. CASE k # m
      <4>1. k \in 0 .. m - 1 /\ g[k] = f[k] /\ (k # 0 => g[k - 1] = f[k - 1])
        BY <2>1, <3>2
      <4> QED
        BY <2>3, <4>1
    <3> QED
      BY <3>1, <3>2
  <2>5. Lengths(c, g, m)
    BY <2>4, Zenon DEF Lengths
  <2> QED
    BY <1>1, <2>5
<1> QED
  BY <1>2, <1>3

LEMMA MetricType ==
    ASSUME NEW c \in [Link -> Int], NEW l \in Link PROVE R!getMetric(c, l) \in Nat \ {0}
BY DEF R!getMetric

LEMMA InfinityType == INFINITY \in Nat \ {0}
BY SimulationAssumption

Costs == [Pairs -> 0 .. INFINITY]

\* The best path of w, or a link and the best path behind it.
BestOf(c, v, w, a, b) ==
    \/ v[<<a, b>>] = w[<<a, b>>]
    \/ \E m \in Node : /\ <<a, m>> \in Link
                       /\ v[<<a, b>>] = R!getMetric(c, <<a, m>>) + w[<<m, b>>]

\* One round of the reference: the best first link, unless none is better.
LEMMA ExtendedFacts ==
    ASSUME NEW c \in [Link -> Int], NEW w \in Costs
    PROVE  LET v == Extended(c, w) IN
           /\ v \in Costs
           /\ \A p \in Pairs : v[p] =< w[p]
           /\ \A a, b, m \in Node : <<a, m>> \in Link =>
                 v[<<a, b>>] =< R!getMetric(c, <<a, m>>) + w[<<m, b>>]
           /\ \A a, b \in Node : BestOf(c, v, w, a, b)
<1> DEFINE v == Extended(c, w)
           Next1(a) == {x \in Node : <<a, x>> \in Link}
           S(a, b) == {w[<<a, b>>]} \cup {R!getMetric(c, <<a, m>>) + w[<<m, b>>] : m \in Next1(a)}
<1>1. ASSUME NEW a \in Node, NEW b \in Node
      PROVE  v[<<a, b>>] \in S(a, b) /\ \A y \in S(a, b) : v[<<a, b>>] =< y
  <2>1. v[<<a, b>>] = R!Min(S(a, b))
    BY DEF Extended, Pairs
  <2>2. S(a, b) \subseteq Nat /\ S(a, b) # {}
    <3>1. w[<<a, b>>] \in Nat
      BY InfinityType DEF Costs, Pairs
    <3>2. ASSUME NEW m \in Next1(a) PROVE R!getMetric(c, <<a, m>>) + w[<<m, b>>] \in Nat
      <4>1. w[<<m, b>>] \in Nat
        BY InfinityType DEF Costs, Pairs
      <4>2. R!getMetric(c, <<a, m>>) \in Nat
        BY MetricType
      <4> QED
        BY <4>1, <4>2
    <3> QED
      BY <3>1, <3>2
  <2> HIDE DEF S, v
  <2>3. \E x \in S(a, b) : \A y \in S(a, b) : x =< y
    BY <2>2, Smallest
  <2> QED
    BY <2>1, <2>3 DEF R!Min
<1>2. ASSUME NEW a \in Node, NEW b \in Node PROVE w[<<a, b>>] \in S(a, b)
  OBVIOUS
<1>3. ASSUME NEW a \in Node, NEW b \in Node, NEW m \in Node, <<a, m>> \in Link
      PROVE  R!getMetric(c, <<a, m>>) + w[<<m, b>>] \in S(a, b)
  BY <1>3
<1>4. ASSUME NEW a \in Node, NEW b \in Node, NEW y \in S(a, b)
      PROVE  \/ y = w[<<a, b>>]
             \/ \E m \in Node : <<a, m>> \in Link /\ y = R!getMetric(c, <<a, m>>) + w[<<m, b>>]
  OBVIOUS
<1>5. ASSUME NEW a \in Node, NEW b \in Node, NEW y \in S(a, b) PROVE y \in Nat
  <2>1. CASE y = w[<<a, b>>]
    BY <2>1, InfinityType DEF Costs, Pairs
  <2>2. CASE \E m \in Node : <<a, m>> \in Link /\ y = R!getMetric(c, <<a, m>>) + w[<<m, b>>]
    <3>1. PICK m \in Node : <<a, m>> \in Link /\ y = R!getMetric(c, <<a, m>>) + w[<<m, b>>]
      BY <2>2
    <3>2. w[<<m, b>>] \in Nat
      BY InfinityType DEF Costs, Pairs
    <3>3. R!getMetric(c, <<a, m>>) \in Nat
      BY <3>1, MetricType
    <3> QED
      BY <3>1, <3>2, <3>3
  <2> QED
    BY <1>4, <2>1, <2>2
<1> HIDE DEF S
<1>6. ASSUME NEW p \in Pairs PROVE v[p] \in 0 .. INFINITY /\ v[p] =< w[p]
  <2>1. PICK a \in Node, b \in Node : p = <<a, b>>
    BY DEF Pairs
  <2>2. w[p] \in 0 .. INFINITY /\ INFINITY \in Nat
    BY InfinityType DEF Costs
  <2> HIDE DEF v
  <2>3. v[p] \in Nat /\ v[p] =< w[p]
    BY <1>1, <1>2, <1>5, <2>1
  <2> QED
    BY <2>2, <2>3
<1>7. v \in Costs
  <2>1. v = [p \in Pairs |-> v[p]]
    BY DEF Extended
  <2> HIDE DEF v
  <2> QED
    BY <1>6, <2>1 DEF Costs
<1> HIDE DEF v
<1>8. \A a, b \in Node : BestOf(c, v, w, a, b)
  BY <1>1, <1>4 DEF BestOf
<1> QED
  BY <1>1, <1>3, <1>6, <1>7, <1>8 DEF v

LEMMA LengthRounds ==
    ASSUME NEW c \in [Link -> Int], NEW K \in Nat, NEW f, Lengths(c, f, K)
    PROVE  /\ f[0] = Unlinked
           /\ \A k \in 0 .. K : f[k] \in Costs
           /\ \A k \in 1 .. K : f[k - 1] \in Costs /\ f[k] = Extended(c, f[k - 1])
<1>1. \A k \in 0 .. K : f[k] = IF k = 0 THEN Unlinked ELSE Extended(c, f[k - 1])
  BY DEF Lengths
<1>2. f[0] = Unlinked
  BY <1>1
<1>3. \A k \in 1 .. K : f[k] = Extended(c, f[k - 1]) /\ k - 1 \in 0 .. K
  BY <1>1
<1>4. Unlinked \in Costs
  BY InfinityType DEF Unlinked, Costs
<1> DEFINE Bad == {k \in 0 .. K : f[k] \notin Costs}
<1>5. ASSUME Bad # {} PROVE FALSE
  <2>1. Bad \subseteq Nat
    OBVIOUS
  <2>2. PICK m \in Bad : \A k \in Bad : m =< k
    BY <1>5, <2>1, Smallest
  <2>3. m # 0
    BY <1>2, <1>4, <2>2
  <2>4. m \in 1 .. K /\ m - 1 \in 0 .. K /\ m - 1 < m
    BY <2>2, <2>3
  <2>5. f[m - 1] \in Costs
    BY <2>2, <2>4
  <2>6. f[m] \in Costs
    BY <1>3, <2>4, <2>5, ExtendedFacts
  <2> QED
    BY <2>2, <2>6
<1>6. \A k \in 0 .. K : f[k] \in Costs
  BY <1>5
<1> QED
  BY <1>2, <1>3, <1>6

\* One round, for two nodes.
LEMMA LengthStep ==
    ASSUME NEW c \in [Link -> Int], NEW K \in Nat, NEW f, Lengths(c, f, K), NEW k \in 1 .. K,
           NEW a \in Node, NEW b \in Node
    PROVE  /\ f[k][<<a, b>>] \in Nat /\ f[k - 1][<<a, b>>] \in Nat
           /\ f[k][<<a, b>>] =< f[k - 1][<<a, b>>]
           /\ \A m \in Node : <<a, m>> \in Link =>
                 f[k][<<a, b>>] =< R!getMetric(c, <<a, m>>) + f[k - 1][<<m, b>>]
           /\ BestOf(c, f[k], f[k - 1], a, b)
<1> DEFINE v == f[k]  w == f[k - 1]
<1>1. v \in Costs /\ w \in Costs /\ v = Extended(c, w)
  BY LengthRounds
<1>2. <<a, b>> \in Pairs
  BY DEF Pairs
<1> HIDE DEF v, w
<1>3. /\ \A p \in Pairs : v[p] =< w[p]
      /\ \A m \in Node : <<a, m>> \in Link =>
            v[<<a, b>>] =< R!getMetric(c, <<a, m>>) + w[<<m, b>>]
      /\ BestOf(c, v, w, a, b)
  BY <1>1, ExtendedFacts
<1>4. v[<<a, b>>] \in Nat /\ w[<<a, b>>] \in Nat
  BY <1>1, <1>2, InfinityType DEF Costs
<1> QED
  BY <1>2, <1>3, <1>4 DEF v, w

LEMMA LengthType ==
    ASSUME NEW c \in [Link -> Int], NEW K \in Nat, NEW f, Lengths(c, f, K), NEW k \in 0 .. K,
           NEW a \in Node, NEW b \in Node
    PROVE  /\ f[k][<<a, b>>] \in 0 .. INFINITY /\ f[k][<<a, b>>] \in Nat
           /\ f[0][<<a, b>>] = IF a = b THEN 0 ELSE INFINITY
<1>1. <<a, b>> \in Pairs
  BY DEF Pairs
<1>2. f[k] \in Costs /\ f[0] = Unlinked
  BY LengthRounds
<1>3. f[k][<<a, b>>] \in 0 .. INFINITY
  BY <1>1, <1>2 DEF Costs
<1>4. f[0][<<a, b>>] = IF a = b THEN 0 ELSE INFINITY
  BY <1>1, <1>2 DEF Unlinked
<1> QED
  BY <1>3, <1>4, InfinityType

\* A path may also be extended at its end.
LEMMA LastLink ==
    ASSUME NEW c \in [Link -> Int], NEW K \in Nat, NEW f, Lengths(c, f, K)
    PROVE  \A k \in 1 .. K : \A a, b, d \in Node : <<b, d>> \in Link =>
              f[k][<<a, d>>] =< f[k - 1][<<a, b>>] + R!getMetric(c, <<b, d>>)
<1> DEFINE Good(k) == \A a, b, d \in Node : <<b, d>> \in Link =>
                         f[k][<<a, d>>] =< f[k - 1][<<a, b>>] + R!getMetric(c, <<b, d>>)
           Bad == {k \in 1 .. K : ~Good(k)}
<1>1. ASSUME Bad # {} PROVE FALSE
  <2>1. Bad \subseteq Nat
    OBVIOUS
  <2>2. PICK k \in Bad : \A i \in Bad : k =< i
    BY <1>1, <2>1, Smallest
  <2>3. k \in 1 .. K /\ k \in 0 .. K /\ k - 1 \in 0 .. K
    BY <2>2
  <2>4. k # 1 => Good(k - 1) /\ k - 1 \in 1 .. K
    BY <2>2, <2>3
  <2>5. ASSUME NEW a \in Node, NEW b \in Node, NEW d \in Node, <<b, d>> \in Link
        PROVE  f[k][<<a, d>>] =< f[k - 1][<<a, b>>] + R!getMetric(c, <<b, d>>)
    <3> DEFINE last == R!getMetric(c, <<b, d>>)
    <3>1. last \in Nat \ {0}
      BY <2>5, MetricType
    <3>2. /\ f[k][<<a, d>>] \in Nat /\ f[k - 1][<<a, b>>] \in Nat /\ f[k - 1][<<a, d>>] \in Nat
          /\ f[k][<<a, d>>] =< f[k - 1][<<a, d>>]
      BY <2>3, LengthStep
    <3>3. CASE k = 1
      <4>1. f[0][<<a, b>>] = IF a = b THEN 0 ELSE INFINITY
        BY LengthType, <2>3
      <4>2. CASE a = b
        <5>1. f[k][<<a, d>>] =< last + f[k - 1][<<d, d>>]
          <6>1. <<a, d>> \in Link /\ last = R!getMetric(c, <<a, d>>)
            BY <2>5, <4>2
          <6> HIDE DEF last
          <6> QED
            BY <2>3, <6>1, LengthStep
        <5>2. f[0][<<d, d>>] = 0 /\ f[k - 1][<<d, d>>] = 0 /\ f[k - 1][<<a, b>>] = 0
          BY <2>3, <3>3, <4>1, <4>2, LengthType
        <5> HIDE DEF last
        <5> QED
          BY <3>1, <3>2, <5>1, <5>2 DEF last
      <4>3. CASE a # b
        <5>1. f[k][<<a, d>>] =< INFINITY /\ INFINITY \in Nat
          BY <2>3, LengthType, InfinityType
        <5> HIDE DEF last
        <5>2. f[k - 1][<<a, b>>] = INFINITY
          BY <3>3, <4>1, <4>3
        <5>3. f[k][<<a, d>>] =< f[k - 1][<<a, b>>] + last
          BY <3>1, <3>2, <5>1, <5>2
        <5> QED
          BY <5>3 DEF last
      <4> QED
        BY <4>2, <4>3
    <3>4. CASE k # 1
      <4> DEFINE j == k - 1
      <4>1. j \in 1 .. K /\ j \in 0 .. K /\ Good(j)
        BY <2>4, <3>4
      <4>2. f[j][<<a, d>>] =< f[j - 1][<<a, b>>] + last
        BY <2>5, <4>1
      <4>3. BestOf(c, f[j], f[j - 1], a, b)
        BY <4>1, LengthStep
      <4>4. CASE f[j][<<a, b>>] = f[j - 1][<<a, b>>]
        <5> HIDE DEF last
        <5>1. f[k][<<a, d>>] =< f[j][<<a, b>>] + last
          BY <3>1, <3>2, <4>2, <4>4
        <5> QED
          BY <5>1 DEF last
      <4>5. ASSUME NEW m \in Node, <<a, m>> \in Link,
                   f[j][<<a, b>>] = R!getMetric(c, <<a, m>>) + f[j - 1][<<m, b>>]
            PROVE  f[k][<<a, d>>] =< f[j][<<a, b>>] + last
        <5> DEFINE first == R!getMetric(c, <<a, m>>)
        <5>1. first \in Nat
          BY <4>5, MetricType
        <5>2. f[k][<<a, d>>] =< first + f[j][<<m, d>>]
          BY <2>3, <4>5, LengthStep
        <5>3. f[j][<<m, d>>] =< f[j - 1][<<m, b>>] + last
          BY <2>5, <4>1
        <5>4. f[j][<<m, d>>] \in Nat /\ f[j - 1][<<m, b>>] \in Nat
          BY <4>1, LengthStep
        <5>5. f[j][<<a, b>>] = first + f[j - 1][<<m, b>>]
          BY <4>5
        <5> HIDE DEF first, last, j
        <5> QED
          BY <3>1, <3>2, <5>1, <5>2, <5>3, <5>4, <5>5
      <4> QED
        BY <4>3, <4>4, <4>5 DEF BestOf
    <3> QED
      BY <3>3, <3>4
  <2>6. Good(k)
    BY <2>5
  <2> QED
    BY <2>2, <2>6
<1> QED
  BY <1>1

\* Distances that no link can improve are no longer than any path.
LEMMA NoShorterPath ==
    ASSUME NEW c \in [Link -> Int], NEW K \in Nat, NEW f, Lengths(c, f, K),
           NEW D \in [Node -> Nat], \A n \in Node : D[n] =< INFINITY,
           \A l \in Link : D[l[2]] =< D[l[1]] + R!getMetric(c, l)
    PROVE  \A k \in 0 .. K : \A a, b \in Node : D[b] =< D[a] + f[k][<<a, b>>]
<1> DEFINE Good(k) == \A a, b \in Node : D[b] =< D[a] + f[k][<<a, b>>]
           Bad == {k \in 0 .. K : ~Good(k)}
<1>1. ASSUME Bad # {} PROVE FALSE
  <2>1. Bad \subseteq Nat
    OBVIOUS
  <2>2. PICK k \in Bad : \A i \in Bad : k =< i
    BY <1>1, <2>1, Smallest
  <2>3. k \in 0 .. K
    BY <2>2
  <2>4. k # 0 => k - 1 \in 0 .. K /\ k \in 1 .. K /\ Good(k - 1)
    BY <2>2, <2>3
  <2>5. ASSUME NEW a \in Node, NEW b \in Node PROVE D[b] =< D[a] + f[k][<<a, b>>]
    <3>1. D[a] \in Nat /\ D[b] \in Nat /\ D[b] =< INFINITY /\ INFINITY \in Nat
      BY InfinityType
    <3>2. CASE k = 0
      <4>1. f[0][<<a, b>>] = IF a = b THEN 0 ELSE INFINITY
        BY <2>3, LengthType
      <4> QED
        BY <3>1, <3>2, <4>1
    <3>3. CASE k # 0
      <4>1. D[b] =< D[a] + f[k - 1][<<a, b>>]
        BY <2>4, <3>3
      <4>2. /\ f[k][<<a, b>>] \in Nat /\ f[k - 1][<<a, b>>] \in Nat
            /\ BestOf(c, f[k], f[k - 1], a, b)
        BY <2>4, <3>3, LengthStep
      <4>3. ASSUME NEW m \in Node, <<a, m>> \in Link,
                   f[k][<<a, b>>] = R!getMetric(c, <<a, m>>) + f[k - 1][<<m, b>>]
            PROVE  D[b] =< D[a] + f[k][<<a, b>>]
        <5> DEFINE first == R!getMetric(c, <<a, m>>)
        <5>1. first \in Nat
          BY <4>3, MetricType
        <5>2. D[m] =< D[a] + first /\ D[m] \in Nat
          BY <4>3
        <5>3. D[b] =< D[m] + f[k - 1][<<m, b>>] /\ f[k - 1][<<m, b>>] \in Nat
          BY <2>4, <3>3, LengthStep
        <5>4. f[k][<<a, b>>] = first + f[k - 1][<<m, b>>]
          BY <4>3
        <5> HIDE DEF first
        <5> QED
          BY <3>1, <4>2, <5>1, <5>2, <5>3, <5>4
      <4> QED
        BY <4>1, <4>2, <4>3 DEF BestOf
    <3> QED
      BY <3>2, <3>3
  <2>6. Good(k)
    BY <2>5
  <2> QED
    BY <2>2, <2>6
<1> QED
  BY <1>1

----------------------------------------------------------------------------
(***************************************************************************)
(* Dijkstra's algorithm.  Shorter: the way over the node that is handled is*)
(* shorter than the best one so far.                                       *)
(***************************************************************************)
SearchType == [N : SUBSET Node, D : [Node -> 0 .. INFINITY], P : [Node -> Node \cup {NoRoute}],
               closest : Node, stuck : BOOLEAN]

Shorter(c, d, n) ==
    /\ <<d.closest, n>> \in Link /\ n \in d.N \ {d.closest}
    /\ d.D[d.closest] + R!getMetric(c, <<d.closest, n>>) < d.D[n]

Nearest(d) ==
    d.closest \in d.N => d.D[d.closest] < INFINITY /\ \A n \in d.N : d.D[d.closest] =< d.D[n]

\* No node is left that can be reached.
Blocked(d) == d.closest \notin d.N => \A n \in d.N : d.D[n] = INFINITY

LEMMA RoundDoes ==
    ASSUME NEW c \in [Link -> Int], NEW src \in Node, NEW d \in SearchType, d.closest \in d.N
    PROVE  LET r == R!DijkstraRound(c, src, d) IN
           /\ r \in SearchType /\ r.N = d.N \ {d.closest} /\ r.stuck = d.stuck
           /\ \A n \in Node :
                 IF Shorter(c, d, n)
                    THEN /\ r.D[n] = d.D[d.closest] + R!getMetric(c, <<d.closest, n>>)
                         /\ r.P[n] = IF d.closest = src THEN n ELSE d.P[d.closest]
                    ELSE r.D[n] = d.D[n] /\ r.P[n] = d.P[n]
           /\ Nearest(r) /\ Blocked(r)
<1> DEFINE r == R!DijkstraRound(c, src, d)
           N == d.N \ {d.closest}
           D == [n \in Node |-> R!Relax(c, src, d, n).D]
           P == [n \in Node |-> R!Relax(c, src, d, n).P]
           best == {n \in N : D[n] < INFINITY /\ \A m \in N : D[n] =< D[m]}
           next == IF best = {} THEN d.closest ELSE R!Min(best)
<1>1. r = [d EXCEPT !.N = N, !.D = D, !.P = P, !.closest = next]
  BY DEF R!DijkstraRound
<1>2. /\ d.N \subseteq Node /\ d.D \in [Node -> 0 .. INFINITY] /\ d.closest \in Node
      /\ d.P \in [Node -> Node \cup {NoRoute}] /\ d.D[d.closest] \in Nat /\ INFINITY \in Nat
  BY InfinityType DEF SearchType
<1>3. ASSUME NEW n \in Node
      PROVE  IF Shorter(c, d, n)
                THEN /\ D[n] = d.D[d.closest] + R!getMetric(c, <<d.closest, n>>)
                     /\ P[n] = IF d.closest = src THEN n ELSE d.P[d.closest]
                ELSE D[n] = d.D[n] /\ P[n] = d.P[n]
  BY DEF R!Relax, Shorter
<1>4. ASSUME NEW n \in Node PROVE D[n] \in 0 .. INFINITY /\ P[n] \in Node \cup {NoRoute}
  <2>1. CASE Shorter(c, d, n)
    <3>1. R!getMetric(c, <<d.closest, n>>) \in Nat
      BY <2>1, MetricType DEF Shorter
    <3>2. d.D[d.closest] + R!getMetric(c, <<d.closest, n>>) < d.D[n] /\ d.D[n] \in 0 .. INFINITY
      BY <1>2, <2>1 DEF Shorter
    <3> DEFINE x == R!getMetric(c, <<d.closest, n>>)
    <3>3. D[n] = d.D[d.closest] + x /\ P[n] \in Node \cup {NoRoute}
      BY <1>2, <1>3, <2>1
    <3> HIDE DEF x, D, P
    <3> QED
      BY <1>2, <3>1, <3>2, <3>3 DEF x
  <2>2. CASE ~Shorter(c, d, n)
    BY <1>2, <1>3, <2>2
  <2> QED
    BY <2>1, <2>2
<1>5. D \in [Node -> 0 .. INFINITY] /\ P \in [Node -> Node \cup {NoRoute}]
  BY <1>4
<1> HIDE DEF D, P
<1>6. best = {} \/ (next \in best /\ best \subseteq Node)
  <2>1. CASE best # {}
    <3>1. best \subseteq Nat /\ best \subseteq Node
      BY <1>2, NodesAssumption
    <3> HIDE DEF best
    <3>2. \E x \in best : \A y \in best : x =< y
      BY <2>1, <3>1, Smallest
    <3>3. R!Min(best) \in best
      BY <3>2 DEF R!Min
    <3> QED
      BY <2>1, <3>1, <3>3
  <2> QED
    BY <2>1
<1>7. next \in Node
  BY <1>2, <1>6
<1>8. next \in N => D[next] < INFINITY /\ \A n \in N : D[next] =< D[n]
  BY <1>6
<1>13. ASSUME next \notin N PROVE \A n \in N : D[n] = INFINITY
  <2> SUFFICES ASSUME NEW x \in N, D[x] # INFINITY PROVE FALSE
    OBVIOUS
  <2> DEFINE Near == {n \in N : D[n] < INFINITY}
             Values == {D[n] : n \in Near}
  <2>1. N \subseteq Node /\ \A n \in N : D[n] \in 0 .. INFINITY
    BY <1>2, <1>5
  <2>2. x \in Near
    BY <1>2, <2>1
  <2>3. Values \subseteq Nat /\ Values # {}
    BY <1>2, <2>1, <2>2
  <2>4. PICK v \in Values : \A w \in Values : v =< w
    BY <2>3, Smallest
  <2>5. PICK n \in Near : v = D[n]
    OBVIOUS
  <2>6. ASSUME NEW m \in N PROVE D[n] =< D[m]
    <3>1. CASE m \in Near
      BY <2>4, <2>5, <3>1
    <3>2. CASE m \notin Near
      <4>1. D[m] = INFINITY /\ D[n] \in 0 .. INFINITY
        BY <1>2, <2>1, <3>2
      <4> QED
        BY <1>2, <4>1
    <3> QED
      BY <3>1, <3>2
  <2>7. n \in best
    BY <2>6
  <2>8. next \in best
    BY <1>6, <2>7
  <2> QED
    BY <1>13, <2>8
<1> HIDE DEF best, next
<1>9. r \in SearchType
  BY <1>1, <1>2, <1>5, <1>7 DEF SearchType
<1>10. r.N = N /\ r.D = D /\ r.P = P /\ r.closest = next /\ r.stuck = d.stuck
  BY <1>1 DEF SearchType
<1> HIDE DEF r
<1>11. Nearest(r)
  BY <1>8, <1>10 DEF Nearest
<1>14. Blocked(r)
  BY <1>10, <1>13 DEF Blocked
<1>12. \A n \in Node :
                 IF Shorter(c, d, n)
                    THEN /\ r.D[n] = d.D[d.closest] + R!getMetric(c, <<d.closest, n>>)
                         /\ r.P[n] = IF d.closest = src THEN n ELSE d.P[d.closest]
                    ELSE r.D[n] = d.D[n] /\ r.P[n] = d.P[n]
  BY <1>3, <1>10
<1> QED
  BY <1>9, <1>10, <1>11, <1>12, <1>14 DEF r

(***************************************************************************)
(* What holds after k rounds.  The nodes that are handled are nearer than  *)
(* the others, and no link from them improves a distance; each distance is *)
(* that of a path, which starts with the next hop.                         *)
(***************************************************************************)
HandledAreNear(c, d, src) ==
    /\ d.D[src] = 0
    /\ \A m \in Node \ d.N : d.D[m] < INFINITY /\ \A n \in d.N : d.D[m] =< d.D[n]
    /\ \A l \in Link : l[1] \notin d.N => d.D[l[2]] =< d.D[l[1]] + R!getMetric(c, l)

OnAPath(c, d, src, w) ==
    \A m \in Node \ {src} : d.D[m] < INFINITY =>
        /\ d.P[m] \in Node /\ <<src, d.P[m]>> \in Link
        /\ R!getMetric(c, <<src, d.P[m]>>) + w[<<d.P[m], m>>] =< d.D[m]

Searched(c, d, src, f, k) ==
    /\ d \in SearchType
    /\ Nearest(d) /\ Blocked(d) /\ HandledAreNear(c, d, src)
    /\ d.stuck => d.closest \notin d.N /\ d.N # {}
    /\ ~d.stuck =>
          /\ Cardinality(d.N) = Cardinality(Node) - k
          /\ k = 0 => d.closest = src /\ d.N = Node /\ \A m \in Node \ {src} : d.D[m] = INFINITY
          /\ k # 0 => src \notin d.N /\ OnAPath(c, d, src, f[k - 1])

LEMMA HandlesOne ==
    ASSUME NEW c \in [Link -> Int], NEW src \in Node, NEW d \in SearchType, d.closest \in d.N,
           Nearest(d), HandledAreNear(c, d, src)
    PROVE  HandledAreNear(c, R!DijkstraRound(c, src, d), src)
<1> DEFINE r == R!DijkstraRound(c, src, d)
           k == d.closest
           x == d.D[k]
<1>1. /\ r \in SearchType /\ r.N = d.N \ {k}
      /\ \A n \in Node :
            IF Shorter(c, d, n) THEN r.D[n] = x + R!getMetric(c, <<k, n>>) ELSE r.D[n] = d.D[n]
  BY RoundDoes
<1>2. /\ \A n \in Node : d.D[n] \in Nat /\ r.D[n] \in Nat
      /\ d.N \subseteq Node /\ k \in Node /\ x \in Nat /\ INFINITY \in Nat
  BY <1>1, InfinityType DEF SearchType
<1>3. x < INFINITY /\ \A n \in d.N : x =< d.D[n]
  BY DEF Nearest
<1>4. ASSUME NEW n \in Node
      PROVE  /\ r.D[n] =< d.D[n] /\ (n \notin d.N \/ n = k => r.D[n] = d.D[n])
             /\ n \in d.N => x =< r.D[n]
  <2>1. CASE Shorter(c, d, n)
    <3> DEFINE y == R!getMetric(c, <<k, n>>)
    <3>1. y \in Nat
      BY <2>1, MetricType DEF Shorter
    <3>2. r.D[n] = x + y /\ x + y < d.D[n] /\ n \in d.N /\ n # k
      BY <1>1, <2>1 DEF Shorter
    <3> HIDE DEF y, x, r
    <3> QED
      BY <1>2, <3>1, <3>2
  <2>2. CASE ~Shorter(c, d, n)
    <3>1. r.D[n] = d.D[n]
      BY <1>1, <2>2
    <3> HIDE DEF x, r
    <3> QED
      BY <1>2, <1>3, <3>1
  <2> QED
    BY <2>1, <2>2
<1> HIDE DEF r
<1>5. r.D[src] = 0
  BY <1>2, <1>4 DEF HandledAreNear
<1>6. ASSUME NEW m \in Node \ r.N
      PROVE  r.D[m] < INFINITY /\ \A n \in r.N : r.D[m] =< r.D[n]
  <2>1. CASE m = k
    BY <1>1, <1>2, <1>3, <1>4, <2>1
  <2>2. CASE m # k
    <3>1. m \in Node \ d.N
      BY <1>1, <2>2
    <3>2. r.D[m] = d.D[m] /\ d.D[m] < INFINITY /\ d.D[m] =< x
      BY <1>4, <3>1 DEF HandledAreNear
    <3> HIDE DEF x
    <3> QED
      BY <1>1, <1>2, <1>4, <3>2
  <2> QED
    BY <2>1, <2>2
<1>7. ASSUME NEW l \in Link, l[1] \notin r.N
      PROVE  r.D[l[2]] =< r.D[l[1]] + R!getMetric(c, l)
  <2> DEFINE y == R!getMetric(c, l)
  <2>0. l = <<l[1], l[2]>> /\ l[1] \in Node /\ l[2] \in Node
    BY DEF Link
  <2>1. y \in Nat
    BY MetricType
  <2>2. CASE l[1] = k
    <3>1. r.D[k] = x
      BY <1>2, <1>4
    <3>2. CASE Shorter(c, d, l[2])
      <4>1. r.D[l[2]] = x + y
        BY <1>1, <2>0, <2>2, <3>2
      <4> QED
        BY <1>2, <2>1, <2>2, <3>1, <4>1
    <3>3. CASE ~Shorter(c, d, l[2])
      <4>1. \/ l[2] \notin d.N
            \/ l[2] = k
            \/ l[2] \in d.N /\ ~(x + y < d.D[l[2]])
        BY <2>0, <2>2, <3>3 DEF Shorter
      <4>2. l[2] \notin d.N => d.D[l[2]] =< x
        BY <2>0 DEF HandledAreNear
      <4> HIDE DEF x, y
      <4>3. d.D[l[2]] =< x + y
        <5>1. CASE l[2] \notin d.N
          BY <1>2, <2>0, <2>1, <4>2, <5>1
        <5>2. CASE l[2] = k
          BY <1>2, <2>1, <5>2 DEF x
        <5>3. CASE l[2] \in d.N /\ ~(x + y < d.D[l[2]])
          BY <1>2, <2>0, <2>1, <5>3
        <5> QED
          BY <4>1, <5>1, <5>2, <5>3
      <4>4. r.D[l[2]] =< d.D[l[2]] /\ r.D[l[2]] \in Nat /\ d.D[l[2]] \in Nat
        BY <1>2, <1>4, <2>0
      <4>5. r.D[l[2]] =< x + y
        BY <1>2, <2>1, <4>3, <4>4
      <4> QED
        BY <2>2, <3>1, <4>5 DEF y
    <3> QED
      BY <3>2, <3>3
  <2>3. CASE l[1] # k
    <3>1. l[1] \notin d.N
      BY <1>1, <1>7, <2>3
    <3>2. d.D[l[2]] =< d.D[l[1]] + y
      BY <3>1 DEF HandledAreNear
    <3>3. r.D[l[1]] = d.D[l[1]] /\ r.D[l[2]] =< d.D[l[2]]
      BY <1>4, <2>0, <3>1
    <3>4. r.D[l[2]] \in Nat /\ d.D[l[2]] \in Nat /\ d.D[l[1]] \in Nat
      BY <1>2, <2>0
    <3> HIDE DEF y
    <3>5. r.D[l[2]] =< r.D[l[1]] + y
      BY <2>1, <3>2, <3>3, <3>4
    <3> QED
      BY <3>5 DEF y
  <2> QED
    BY <2>2, <2>3
<1> QED
  BY <1>5, <1>6, <1>7 DEF HandledAreNear, r

LEMMA FirstRound ==
    ASSUME NEW c \in [Link -> Int], NEW K \in Nat \ {0}, NEW f, Lengths(c, f, K),
           NEW src \in Node, NEW d \in SearchType,
           d.closest = src, src \in d.N, d.D[src] = 0, \A m \in Node \ {src} : d.D[m] = INFINITY
    PROVE  OnAPath(c, R!DijkstraRound(c, src, d), src, f[0])
<1> DEFINE r == R!DijkstraRound(c, src, d)
<1>1. \A n \in Node :
         IF Shorter(c, d, n)
            THEN r.D[n] = d.D[src] + R!getMetric(c, <<src, n>>) /\ r.P[n] = n
            ELSE r.D[n] = d.D[n]
  BY RoundDoes
<1> HIDE DEF r
<1> SUFFICES ASSUME NEW m \in Node \ {src}, r.D[m] < INFINITY
             PROVE  /\ r.P[m] \in Node /\ <<src, r.P[m]>> \in Link
                    /\ R!getMetric(c, <<src, r.P[m]>>) + f[0][<<r.P[m], m>>] =< r.D[m]
  BY DEF OnAPath, r
<1>2. Shorter(c, d, m)
  <2> SUFFICES ASSUME ~Shorter(c, d, m) PROVE FALSE
    OBVIOUS
  <2>1. r.D[m] = d.D[m] /\ d.D[m] = INFINITY
    BY <1>1
  <2> QED
    BY <2>1, InfinityType
<1> DEFINE x == R!getMetric(c, <<src, m>>)
<1>3. r.D[m] = 0 + x /\ r.P[m] = m /\ <<src, m>> \in Link
  BY <1>1, <1>2 DEF Shorter
<1>4. x \in Nat
  BY <1>3, MetricType
<1>5. f[0][<<m, m>>] = 0
  BY LengthType
<1> HIDE DEF x
<1>6. x + f[0][<<m, m>>] =< r.D[m]
  BY <1>3, <1>4, <1>5
<1> QED
  BY <1>3, <1>6 DEF x

LEMMA NextRound ==
    ASSUME NEW c \in [Link -> Int], NEW K \in Nat, NEW f, Lengths(c, f, K), NEW k \in 1 .. K,
           NEW src \in Node, NEW d \in SearchType,
           d.closest \in d.N, d.closest # src, Nearest(d), OnAPath(c, d, src, f[k - 1])
    PROVE  OnAPath(c, R!DijkstraRound(c, src, d), src, f[k])
<1> DEFINE r == R!DijkstraRound(c, src, d)
           e == d.closest
           x == d.D[e]
<1>1. /\ r \in SearchType
      /\ \A n \in Node :
            IF Shorter(c, d, n)
               THEN r.D[n] = x + R!getMetric(c, <<e, n>>) /\ r.P[n] = d.P[e]
               ELSE r.D[n] = d.D[n] /\ r.P[n] = d.P[n]
  BY RoundDoes
<1>2. x \in Nat /\ e \in Node /\ \A n \in Node : d.D[n] \in Nat
  BY InfinityType DEF SearchType
<1> HIDE DEF r
<1> SUFFICES ASSUME NEW m \in Node \ {src}, r.D[m] < INFINITY
             PROVE  /\ r.P[m] \in Node /\ <<src, r.P[m]>> \in Link
                    /\ R!getMetric(c, <<src, r.P[m]>>) + f[k][<<r.P[m], m>>] =< r.D[m]
  BY DEF OnAPath, r
<1>3. CASE Shorter(c, d, m)
  <2> DEFINE h == d.P[e]
             first == R!getMetric(c, <<src, h>>)
             last == R!getMetric(c, <<e, m>>)
  <2>1. x < INFINITY
    BY DEF Nearest
  <2>2. h \in Node /\ <<src, h>> \in Link /\ first + f[k - 1][<<h, e>>] =< x
    BY <1>2, <2>1 DEF OnAPath
  <2>3. <<e, m>> \in Link /\ first \in Nat /\ last \in Nat
    BY <1>3, <2>2, MetricType DEF Shorter
  <2>4. f[k][<<h, m>>] =< f[k - 1][<<h, e>>] + last
    BY <1>2, <2>2, <2>3, LastLink
  <2>5. f[k][<<h, m>>] \in Nat /\ f[k - 1][<<h, e>>] \in Nat
    <3>1. k \in 0 .. K /\ k - 1 \in 0 .. K
      OBVIOUS
    <3> HIDE DEF h
    <3> QED
      BY <1>2, <2>2, <3>1, LengthType
  <2>6. r.D[m] = x + last /\ r.P[m] = h
    BY <1>1, <1>3
  <2> HIDE DEF first, last, h, x
  <2>7. first + f[k][<<h, m>>] =< r.D[m]
    BY <1>2, <2>2, <2>3, <2>4, <2>5, <2>6
  <2> QED
    BY <2>2, <2>6, <2>7 DEF first
<1>4. CASE ~Shorter(c, d, m)
  <2> DEFINE h == d.P[m]
             first == R!getMetric(c, <<src, h>>)
  <2>1. r.D[m] = d.D[m] /\ r.P[m] = h
    BY <1>1, <1>4
  <2>2. h \in Node /\ <<src, h>> \in Link /\ first + f[k - 1][<<h, m>>] =< d.D[m]
    BY <2>1 DEF OnAPath
  <2>3. first \in Nat
    BY <2>2, MetricType
  <2> HIDE DEF h
  <2>4. f[k][<<h, m>>] =< f[k - 1][<<h, m>>] /\ f[k][<<h, m>>] \in Nat /\ f[k - 1][<<h, m>>] \in Nat
    BY <2>2, LengthStep
  <2> HIDE DEF first
  <2>5. first + f[k][<<h, m>>] =< r.D[m]
    BY <1>2, <2>1, <2>2, <2>3, <2>4
  <2> QED
    BY <2>1, <2>2, <2>5 DEF first
<1> QED
  BY <1>3, <1>4

LEMMA NodesCounted == Cardinality(Node) \in Nat /\ IsFiniteSet(Node)
BY NodesAssumption, FS_CardinalityType

LEMMA SearchStarts ==
    ASSUME NEW c \in [Link -> Int], NEW src \in Node, NEW f
    PROVE  Searched(c, R!DijkstraInit(src), src, f, 0)
<1> DEFINE d == R!DijkstraInit(src)
<1>1. d = [N |-> Node, D |-> [n \in Node |-> IF n = src THEN 0 ELSE INFINITY],
           P |-> [n \in Node |-> NoRoute], closest |-> src, stuck |-> FALSE]
  BY DEF R!DijkstraInit
<1>2. d \in SearchType
  BY <1>1, InfinityType DEF SearchType
<1>3. /\ d.N = Node /\ d.closest = src /\ d.stuck = FALSE
      /\ \A n \in Node : d.D[n] = IF n = src THEN 0 ELSE INFINITY
  BY <1>1
<1> HIDE DEF d
<1>4. Nearest(d)
  BY <1>3, InfinityType DEF Nearest
<1>5. HandledAreNear(c, d, src)
  <2>1. \A l \in Link : l[1] \in Node
    BY DEF Link
  <2> QED
    BY <1>3, <2>1 DEF HandledAreNear
<1>6. Cardinality(d.N) = Cardinality(Node) - 0
  BY <1>3, NodesCounted
<1>7. Blocked(d)
  BY <1>3 DEF Blocked
<1> QED
  BY <1>2, <1>3, <1>4, <1>5, <1>6, <1>7 DEF Searched, d

LEMMA SearchGoesOn ==
    ASSUME NEW c \in [Link -> Int], NEW src \in Node, NEW K \in Nat, NEW f, Lengths(c, f, K),
           K = Cardinality(Node), NEW k \in 0 .. K - 1, NEW d, Searched(c, d, src, f, k)
    PROVE  Searched(c, R!DijkstraRound(c, src, d), src, f, k + 1)
<1> DEFINE r == R!DijkstraRound(c, src, d)
<1>1. d \in SearchType
  BY DEF Searched
<1>2. CASE d.closest \notin d.N
  <2>1. r = [d EXCEPT !.stuck = TRUE]
    BY <1>2 DEF R!DijkstraRound
  <2> HIDE DEF r
  <2>2. /\ r \in SearchType /\ r.stuck /\ r.closest = d.closest /\ r.N = d.N /\ r.D = d.D
        /\ r.P = d.P
    BY <1>1, <2>1 DEF SearchType
  <2>3. d.N # {}
    <3>1. CASE d.stuck
      BY <3>1 DEF Searched
    <3>2. CASE ~d.stuck
      <4>1. Cardinality(d.N) = Cardinality(Node) - k
        BY <3>2 DEF Searched
      <4>2. Cardinality(d.N) # 0
        BY <4>1
      <4> QED
        BY <4>2, FS_EmptySet
    <3> QED
      BY <3>1, <3>2
  <2>4. Nearest(r) /\ Blocked(r) /\ HandledAreNear(c, r, src)
    BY <2>2 DEF Searched, Nearest, Blocked, HandledAreNear
  <2> QED
    BY <1>2, <2>2, <2>3, <2>4 DEF Searched, r
<1>3. CASE d.closest \in d.N
  <2>1. ~d.stuck /\ d.stuck = FALSE
    BY <1>1, <1>3 DEF Searched, SearchType
  <2>2. Nearest(d) /\ HandledAreNear(c, d, src) /\ Cardinality(d.N) = Cardinality(Node) - k
    BY <2>1 DEF Searched
  <2>3. r \in SearchType /\ r.N = d.N \ {d.closest} /\ r.stuck = d.stuck /\ Nearest(r)
        /\ Blocked(r)
    BY <1>1, <1>3, RoundDoes
  <2>4. HandledAreNear(c, r, src)
    BY <1>1, <1>3, <2>2, HandlesOne
  <2>5. Cardinality(r.N) = Cardinality(Node) - (k + 1)
    <3>1. IsFiniteSet(d.N)
      BY <1>1, NodesCounted, FS_Subset DEF SearchType
    <3>2. Cardinality(r.N) = Cardinality(d.N) - 1
      BY <1>3, <2>3, <3>1, Counting
    <3> HIDE DEF r
    <3> QED
      BY <2>2, <3>2, NodesCounted
  <2>6. src \notin r.N /\ OnAPath(c, r, src, f[k])
    <3>1. CASE k = 0
      <4>1. d.closest = src /\ \A m \in Node \ {src} : d.D[m] = INFINITY
        BY <2>1, <3>1 DEF Searched
      <4>2. d.D[src] = 0
        BY <2>2 DEF HandledAreNear
      <4>3. K \in Nat \ {0}
        BY <3>1
      <4>4. OnAPath(c, r, src, f[0])
        BY <1>1, <1>3, <4>1, <4>2, <4>3, FirstRound
      <4> QED
        BY <2>3, <3>1, <4>1, <4>4
    <3>2. CASE k # 0
      <4>1. src \notin d.N /\ OnAPath(c, d, src, f[k - 1]) /\ k \in 1 .. K
        BY <2>1, <3>2 DEF Searched
      <4>2. d.closest # src
        BY <1>3, <4>1
      <4>3. OnAPath(c, r, src, f[k])
        BY <1>1, <1>3, <2>2, <4>1, <4>2, NextRound
      <4> QED
        BY <2>3, <4>1, <4>3
    <3> QED
      BY <3>1, <3>2
  <2> HIDE DEF r
  <2>7. k + 1 # 0 /\ k + 1 - 1 = k
    OBVIOUS
  <2> QED
    BY <2>1, <2>3, <2>4, <2>5, <2>6, <2>7 DEF Searched, r
<1> QED
  BY <1>2, <1>3

\* The next hop found for a node starts a shortest path to it.
LEMMA FoundShortest ==
    ASSUME NEW c \in [Link -> Int], NEW src \in Node, NEW K \in Nat \ {0}, NEW f, Lengths(c, f, K),
           K = Cardinality(Node), NEW d, Searched(c, d, src, f, K), ~d.stuck,
           NEW dest \in Node \ {src}
    PROVE  /\ d.P[dest] \in Node /\ <<src, d.P[dest]>> \in Link
           /\ f[K][<<src, dest>>] < INFINITY
           /\ f[K][<<src, dest>>]
                = R!getMetric(c, <<src, d.P[dest]>>) + f[K][<<d.P[dest], dest>>]
<1> DEFINE h == d.P[dest]
           first == R!getMetric(c, <<src, h>>)
<1>1. /\ d \in SearchType /\ HandledAreNear(c, d, src) /\ OnAPath(c, d, src, f[K - 1])
      /\ Cardinality(d.N) = K - K
  BY DEF Searched
<1>2. d.N = {}
  <2>1. IsFiniteSet(d.N) /\ Cardinality(d.N) = 0
    BY <1>1, NodesCounted, FS_Subset DEF SearchType
  <2> QED
    BY <2>1, FS_EmptySet
<1>3. /\ \A n \in Node : d.D[n] \in Nat /\ d.D[n] < INFINITY
      /\ d.D \in [Node -> Nat]
  BY <1>1, <1>2, InfinityType DEF HandledAreNear, SearchType
<1>4. d.D[src] = 0 /\ \A l \in Link : d.D[l[2]] =< d.D[l[1]] + R!getMetric(c, l)
  BY <1>1, <1>2 DEF HandledAreNear
<1>5. /\ h \in Node /\ <<src, h>> \in Link
      /\ first + f[K - 1][<<h, dest>>] =< d.D[dest]
  BY <1>1, <1>3 DEF OnAPath
<1>6. first \in Nat /\ d.D[h] =< 0 + first
  <2>1. d.D[<<src, h>>[2]] =< d.D[<<src, h>>[1]] + first
    BY <1>4, <1>5
  <2> QED
    BY <1>4, <1>5, <2>1, MetricType
<1> HIDE DEF h
<1>7. /\ d.D[dest] =< d.D[src] + f[K][<<src, dest>>]
      /\ d.D[dest] =< d.D[h] + f[K][<<h, dest>>]
  <2>1. \A k \in 0 .. K : \A a, b \in Node : d.D[b] =< d.D[a] + f[k][<<a, b>>]
    <3>1. \A n \in Node : d.D[n] =< INFINITY
      BY <1>3, InfinityType
    <3> QED
      BY <1>3, <1>4, <3>1, NoShorterPath
  <2> QED
    BY <1>5, <2>1
<1>8. /\ f[K][<<h, dest>>] =< f[K - 1][<<h, dest>>]
      /\ f[K][<<h, dest>>] \in Nat /\ f[K - 1][<<h, dest>>] \in Nat
  BY <1>5, LengthStep
<1>9. f[K][<<src, dest>>] =< first + f[K - 1][<<h, dest>>] /\ f[K][<<src, dest>>] \in Nat
  BY <1>5, LengthStep
<1> HIDE DEF first
<1>10. f[K][<<src, dest>>] = first + f[K][<<h, dest>>]
  BY <1>3, <1>4, <1>5, <1>6, <1>7, <1>8, <1>9
<1>11. f[K][<<src, dest>>] < INFINITY
  BY <1>3, <1>5, <1>6, <1>8, <1>9, InfinityType
<1> QED
  BY <1>5, <1>10, <1>11 DEF h, first

\* A node that is left when the search is stuck has no path to it.
LEMMA FoundNone ==
    ASSUME NEW c \in [Link -> Int], NEW src \in Node, NEW K \in Nat \ {0}, NEW f, Lengths(c, f, K),
           NEW d, Searched(c, d, src, f, K), d.stuck
    PROVE  \E n \in Node \ {src} : f[K][<<src, n>>] >= INFINITY
<1>1. d \in SearchType /\ HandledAreNear(c, d, src) /\ Blocked(d)
  BY DEF Searched
<1>2. PICK n : n \in d.N
  BY DEF Searched
<1>3. /\ d.N \subseteq Node /\ d.D \in [Node -> 0 .. INFINITY] /\ INFINITY \in Nat \ {0}
      /\ \A m \in d.N : d.D[m] = INFINITY
  BY <1>1, InfinityType DEF Searched, SearchType, Blocked
<1>4. d.D[src] = 0 /\ n # src
  BY <1>1, <1>2, <1>3 DEF HandledAreNear
<1>5. d.D \in [Node -> Nat] /\ \A m \in Node : d.D[m] =< INFINITY
  BY <1>3
<1>6. ASSUME NEW l \in Link PROVE d.D[l[2]] =< d.D[l[1]] + R!getMetric(c, l)
  <2>1. l[1] \in Node /\ l[2] \in Node /\ R!getMetric(c, l) \in Nat
    BY MetricType DEF Link
  <2>2. CASE l[1] \in d.N
    <3>1. d.D[l[1]] = INFINITY /\ d.D[l[2]] =< INFINITY /\ d.D[l[2]] \in Nat
      BY <1>3, <1>5, <2>1, <2>2
    <3> QED
      BY <1>3, <2>1, <3>1
  <2>3. CASE l[1] \notin d.N
    BY <1>1, <2>3 DEF HandledAreNear
  <2> QED
    BY <2>2, <2>3
<1>7. \A k \in 0 .. K : \A a, b \in Node : d.D[b] =< d.D[a] + f[k][<<a, b>>]
  BY <1>5, <1>6, NoShorterPath
<1>8. n \in Node \ {src} /\ d.D[n] =< d.D[src] + f[K][<<src, n>>] /\ d.D[n] = INFINITY
  BY <1>2, <1>3, <1>4, <1>7
<1>9. f[K][<<src, n>>] \in Nat
  BY <1>8, LengthType
<1>10. f[K][<<src, n>>] >= INFINITY
  BY <1>3, <1>4, <1>8, <1>9
<1> QED
  BY <1>8, <1>10

\* What the search ends with.
LEMMA SearchEnds ==
    ASSUME NEW c \in [Link -> Int], NEW src \in Node
    PROVE  LET K == Cardinality(Node) IN
           K \in Nat \ {0} /\ \E f : /\ Lengths(c, f, K) /\ R!Distance(c) = f[K]
                                     /\ Searched(c, R!doDijkstra(c, src), src, f, K)
<1> DEFINE K == Cardinality(Node)
           g == CHOOSE h : Rounds(c, src, h, K)
           f == CHOOSE h : Lengths(c, h, K)
<1>1. K \in Nat \ {0}
  BY NodesCounted, FS_EmptySet
<1>2. Rounds(c, src, g, K) /\ Lengths(c, f, K)
  BY <1>1, RoundsExist, LengthsExist
<1>3. R!Cardinality(Node) = Cardinality(Node)
  BY Zenon DEF R!Cardinality, Cardinality
<1>4. R!doDijkstra(c, src) = g[K]
  BY <1>3, Zenon DEF R!doDijkstra, Rounds
<1>5. R!Distance(c) = f[K]
  BY <1>3, Zenon DEF R!Distance, Lengths, Unlinked, Extended, Pairs
<1> HIDE DEF f, g
<1>6. \A k \in 0 .. K :
          g[k] = IF k = 0 THEN R!DijkstraInit(src) ELSE R!DijkstraRound(c, src, g[k - 1])
  BY <1>2 DEF Rounds
<1> HIDE DEF K
<1> DEFINE Bad == {k \in 0 .. K : ~Searched(c, g[k], src, f, k)}
<1>7. ASSUME Bad # {} PROVE FALSE
  <2>1. Bad \subseteq Nat
    BY <1>1
  <2>2. PICK m \in Bad : \A k \in Bad : m =< k
    BY <1>7, <2>1, Smallest
  <2>3. CASE m = 0
    <3>1. g[0] = R!DijkstraInit(src)
      BY <1>1, <1>6
    <3> QED
      BY <2>2, <2>3, <3>1, SearchStarts
  <2>4. CASE m # 0
    <3> DEFINE j == m - 1
    <3>1. j \in 0 .. K - 1 /\ j \in 0 .. K /\ j < m /\ j + 1 = m
      BY <1>1, <2>2, <2>4
    <3>2. Searched(c, g[j], src, f, j) /\ g[m] = R!DijkstraRound(c, src, g[j])
      BY <1>6, <2>2, <2>4, <3>1
    <3> HIDE DEF j
    <3>3. Searched(c, g[m], src, f, j + 1)
      <4>1. K = Cardinality(Node)
        BY DEF K
      <4> QED
        BY <1>1, <1>2, <3>1, <3>2, <4>1, SearchGoesOn
    <3> QED
      BY <2>2, <3>1, <3>3
  <2> QED
    BY <2>3, <2>4
<1>8. Searched(c, g[K], src, f, K)
  BY <1>1, <1>7
<1> QED
  BY <1>1, <1>2, <1>4, <1>5, <1>8 DEF K

(***************************************************************************)
(* What doDijkstra finds is right: unless it runs into its assert(0), the  *)
(* next hop to every other node starts a path as short as the reference    *)
(* (Bellman and Ford) says, in every network and for all costs.            *)
(***************************************************************************)
THEOREM DijkstraShortest ==
    ASSUME NEW c \in [Link -> Int], NEW src \in Node, ~R!doDijkstra(c, src).stuck,
           NEW dest \in Node \ {src}
    PROVE  /\ R!doDijkstra(c, src).P[dest] \in Node
           /\ R!StartsShortest(c, src, dest, R!doDijkstra(c, src).P[dest])
<1> DEFINE K == Cardinality(Node)
           d == R!doDijkstra(c, src)
<1>1. PICK f : Lengths(c, f, K) /\ R!Distance(c) = f[K] /\ Searched(c, d, src, f, K)
  BY SearchEnds
<1>2. K \in Nat \ {0} /\ K = Cardinality(Node) /\ ~d.stuck
  BY SearchEnds
<1> HIDE DEF K, d
<1>3. /\ d.P[dest] \in Node /\ <<src, d.P[dest]>> \in Link
      /\ f[K][<<src, dest>>] = R!getMetric(c, <<src, d.P[dest]>>) + f[K][<<d.P[dest], dest>>]
  BY <1>1, <1>2, FoundShortest
<1> QED
  BY <1>1, <1>3 DEF R!StartsShortest, d

(***************************************************************************)
(* doDijkstra runs into its assert(0) exactly when it looks for the routes *)
(* of a node from which another cannot be reached at a cost below INFINITY.*)
(***************************************************************************)
THEOREM DijkstraAsserts ==
    ASSUME NEW c \in [Link -> Int], NEW src \in Node
    PROVE  R!doDijkstra(c, src).stuck
             <=> \E n \in Node \ {src} : R!Distance(c)[<<src, n>>] >= INFINITY
<1> DEFINE K == Cardinality(Node)
           d == R!doDijkstra(c, src)
<1>1. PICK f : Lengths(c, f, K) /\ R!Distance(c) = f[K] /\ Searched(c, d, src, f, K)
  BY SearchEnds
<1>2. K \in Nat \ {0} /\ K = Cardinality(Node)
  BY SearchEnds
<1> HIDE DEF K, d
<1>3. d.stuck => \E n \in Node \ {src} : f[K][<<src, n>>] >= INFINITY
  BY <1>1, <1>2, FoundNone
<1>4. ASSUME ~d.stuck, NEW n \in Node \ {src} PROVE ~(f[K][<<src, n>>] >= INFINITY)
  <2>1. f[K][<<src, n>>] < INFINITY
    BY <1>1, <1>2, <1>4, FoundShortest
  <2>2. f[K][<<src, n>>] \in Nat
    BY <1>1, <1>2, LengthType
  <2> QED
    BY <2>1, <2>2, InfinityType
<1> QED
  BY <1>1, <1>3, <1>4 DEF d

----------------------------------------------------------------------------
(***************************************************************************)
(* Routes while they change.  What handlers that know nothing of routes do *)
(* to the list: no event for a stack or an application is taken out, and   *)
(* what they add has no priority over others, but for timeouts of links.   *)
(***************************************************************************)
Extends(new, s) ==
    /\ IsList(new)
    /\ \A e \in ToSet(s) : e.to[1] \in {"stack", "appl"} => e \in ToSet(new)
    /\ \A e \in ToSet(new) : e \in ToSet(s) \/ e.prio >= 0 \/ e.to[1] = "timeout"

LEMMA ExtendsSelf ==
    ASSUME NEW s, IsList(s) PROVE Extends(s, s)
BY DEF Extends

LEMMA PutKeeps ==
    ASSUME NEW r, NEW s, Extends(s, r), NEW e, e.time \in Int, e.prio \in Int,
           e.prio >= 0 \/ e.to[1] = "timeout"
    PROVE  Extends(scheduleAt(s, e), r)
<1> DEFINE new == scheduleAt(s, e)
<1>1. IsList(new) /\ ToSet(new) = ToSet(s) \cup {e}
  BY ScheduleAt DEF Extends
<1> HIDE DEF new
<1> QED
  BY <1>1 DEF Extends, new

LEMMA CancelKeeps ==
    ASSUME NEW r, NEW s, Extends(s, r), NEW to, to[1] \notin {"stack", "appl"}
    PROVE  Extends(cancelEvent(s, to), r)
<1> DEFINE new == cancelEvent(s, to)
<1>1. /\ IsList(new) /\ ToSet(new) \subseteq ToSet(s)
      /\ \A e \in ToSet(s) : e.to # to => e \in ToSet(new)
  BY Cancelled DEF Extends
<1> HIDE DEF new
<1> QED
  BY <1>1 DEF Extends, new

LEMMA TimerKeeps ==
    ASSUME NEW r, NEW s, Extends(s, r), NEW t \in Int, NEW to
    PROVE  Extends(scheduleAt(s, Event(t, 0, to, <<>>)), r)
<1> DEFINE e == Event(t, 0, to, <<>>)
<1>1. e.time = t /\ e.prio = 0
  BY DEF Event
<1> HIDE DEF e
<1> QED
  BY <1>1, PutKeeps DEF e

LEMMA SendKeeps ==
    ASSUME NEW r, NEW s, Extends(s, r), NEW t \in Int, NEW n, NEW a, NEW p
    PROVE  Extends(scheduleAt(s, ToStack(t, n, a, p)), r)
<1> DEFINE e == ToStack(t, n, a, p)
<1>1. e.time = t /\ e.prio = 0
  BY DEF Event, ToStack
<1> HIDE DEF e
<1> QED
  BY <1>1, PutKeeps DEF e

LEMMA WokenKeeps ==
    ASSUME NEW r, NEW s, Extends(s, r), NEW t \in Int
    PROVE  Extends(Woken(s, t), r)
BY TimerKeeps DEF Woken

----------------------------------------------------------------------------
(***************************************************************************)
(* The invariant: only the notification of a change has priority, on its   *)
(* way through a stack to its routing daemon, and while routes are not     *)
(* current, one of this very time is under way.                            *)
(***************************************************************************)
IsNotice(e) ==
    \/ e.to[1] = "stack" /\ e.to[2] \in Node /\ e.to[3] = Local /\ e.msg = Notice
    \/ e.to[1] = "appl" /\ e.to[3] = RoutingDaemon

Current ==
    \A n \in Node : \A dest \in Node \ {n} : R!StartsShortest(cost, n, dest, routes[n][dest])

Foregoing(s) == \A e \in ToSet(s) : e.prio >= 0 \/ e.to[1] = "timeout" \/ IsNotice(e)

Noticed(s, t) == \E e \in ToSet(s) : IsNotice(e) /\ e.prio < 0 /\ e.time = t

RouteInv ==
    /\ cost \in [Link -> Int]
    /\ ~aborted => Foregoing(fes) /\ (Current \/ Noticed(fes, now))

\* While none of the daemons is at work.
LEMMA RoutesWait ==
    ASSUME SimInv, RouteInv, NEW kind, Arrives(kind), ~IsNotice(Head(fes)),
           Extends(fes', Tail(fes)), now' = Head(fes).time, UNCHANGED <<cost, routes>>
    PROVE  RouteInv'
<1> DEFINE h == Head(fes)
           s == Tail(fes)
<1>1. /\ ~aborted /\ fes # <<>> /\ h.time \in Int /\ h.time >= now
      /\ ToSet(fes) = {h} \cup ToSet(s)
      /\ \A e \in ToSet(s) : NotAfter(h, e)
  BY NextEvent DEF Arrives, SimInv
<1>2. now \in Int
  BY ParametersType DEF SimInv, TimeOK
<1>3. Foregoing(fes) /\ (Current \/ Noticed(fes, now)) /\ cost' \in [Link -> Int]
  BY <1>1 DEF RouteInv
<1> HIDE DEF s
<1>4. Foregoing(fes')
  BY <1>1, <1>3 DEF Foregoing, Extends, s
<1>5. Current <=> Current'
  BY DEF Current
<1>6. ASSUME Noticed(fes, now) PROVE Noticed(fes', now')
  <2>1. PICK e \in ToSet(fes) : IsNotice(e) /\ e.prio < 0 /\ e.time = now
    BY <1>6 DEF Noticed
  <2>2. e \in ToSet(s) /\ NotAfter(h, e)
    BY <1>1, <2>1
  <2>3. h.time = now
    BY <1>1, <1>2, <2>1, <2>2 DEF NotAfter
  <2>4. e \in ToSet(fes')
    BY <2>1, <2>2 DEF Extends, IsNotice, s
  <2> QED
    BY <2>1, <2>3, <2>4 DEF Noticed
<1>7. Foregoing(fes)' /\ Noticed(fes, now)' <=> Foregoing(fes') /\ Noticed(fes', now')
  BY DEF Foregoing, Noticed, IsNotice
<1> QED
  BY <1>3, <1>4, <1>5, <1>6, <1>7 DEF RouteInv

LEMMA TailKept ==
    ASSUME SimInv, NEW kind, Arrives(kind)
    PROVE  /\ Extends(Tail(fes), Tail(fes)) /\ Head(fes).time \in Int
           /\ EventOK(Head(fes)) /\ Head(fes).to[1] = kind /\ par \in Parameters
BY Handled, ExtendsSelf DEF SameTimeouts, ListOK

LEMMA TimersPlain == timer0[1] = "timer0" /\ timer1[1] = "timer1"
BY DEF timer0, timer1

LEMMA SenderRoutes ==
    ASSUME SimInv, RouteInv, NEW kind, Arrives(kind), ~IsNotice(Head(fes)),
           NEW s, NEW events, NEW asserted, SenderStep(s, events, asserted),
           Extends(events, Tail(fes))
    PROVE  RouteInv'
<1>1. fes' = events /\ now' = Head(fes).time /\ UNCHANGED <<cost, routes>>
  BY DEF SenderStep, Pass, Network
<1> QED
  BY <1>1, RoutesWait

LEMMA SendNextRoutes ==
    ASSUME SimInv, RouteInv, SendNext PROVE RouteInv'
<1> DEFINE t == Head(fes).time
           s == Tail(fes)
           seqNo == snd.nextSendSeqNo
           buffer == [i \in DOMAIN snd.packetBuffer \cup {seqNo} |->
                        IF i = seqNo THEN t + par.timeout ELSE snd.packetBuffer[i]]
           first == t + par.timeout < snd.timerExpiration
           again == IF seqNo + 1 >= snd.lastAckSeqNo + par.window
                       THEN Never ELSE t + par.interval
           sent == scheduleAt(s, ToStack(t, Source, GoBackNSender, Data(seqNo)))
           cancelled == cancelEvent(sent, timer1)
           timed == IF first THEN scheduleAt(cancelled, Event(t + par.timeout, 0, timer1, <<>>))
                    ELSE sent
           events == IF again = Never THEN timed
                     ELSE scheduleAt(timed, Event(again, 0, timer0, <<>>))
           expiration == IF first THEN t + par.timeout ELSE snd.timerExpiration
           new == [snd EXCEPT !.packetBuffer = buffer, !.nextSendSeqNo = seqNo + 1,
                              !.nextSendTime = again, !.timerExpiration = expiration]
           asserted == /\ t = snd.nextSendTime
                       /\ seqNo < snd.lastAckSeqNo + par.window
                       /\ \A i \in DOMAIN snd.packetBuffer : seqNo >= Min(DOMAIN snd.packetBuffer)
                       /\ Cardinality(DOMAIN buffer) =< par.window
<1>1. Arrives("timer0") /\ SenderStep(new, events, asserted)
  BY DEF SendNext
<1> HIDE DEF asserted, new
<1>2. Extends(s, s) /\ t \in Int /\ ~IsNotice(Head(fes)) /\ par \in Parameters
  BY <1>1, TailKept DEF IsNotice
<1>3. t + par.timeout \in Int /\ again \in Int
  BY <1>2, ParametersType, SourceFacts
<1> HIDE DEF t, again, first, s
<1>4. Extends(sent, s)
  BY <1>2, SendKeeps
<1> HIDE DEF sent
<1>5. Extends(cancelled, s)
  BY <1>4, TimersPlain, CancelKeeps
<1> HIDE DEF cancelled
<1>6. Extends(timed, s)
  BY <1>3, <1>4, <1>5, TimerKeeps
<1> HIDE DEF timed
<1>7. Extends(events, s)
  BY <1>3, <1>6, TimerKeeps
<1> HIDE DEF events
<1> QED
  BY <1>1, <1>2, <1>7, SenderRoutes DEF s

LEMMA ExpireRoutes ==
    ASSUME SimInv, RouteInv, Expire PROVE RouteInv'
<1> DEFINE t == Head(fes).time
           s == Tail(fes)
           new == [snd EXCEPT !.nextSendTime = WokenAt(t), !.nextSendSeqNo = snd.lastAckSeqNo,
                              !.timerExpiration = Never,
                              !.packetBuffer = [i \in DOMAIN snd.packetBuffer |-> Never]]
           events == cancelEvent(Woken(s, t), timer1)
           asserted == t = snd.timerExpiration
<1>1. Arrives("timer1") /\ SenderStep(new, events, asserted)
  BY DEF Expire
<1> HIDE DEF asserted, new
<1>2. Extends(s, s) /\ t \in Int /\ ~IsNotice(Head(fes))
  BY <1>1, TailKept DEF IsNotice
<1> HIDE DEF t, s
<1>3. Extends(Woken(s, t), s)
  BY <1>2, WokenKeeps
<1>4. Extends(events, s)
  BY <1>3, TimersPlain, CancelKeeps
<1> HIDE DEF events
<1> QED
  BY <1>1, <1>2, <1>4, SenderRoutes DEF s

LEMMA AckRoutes ==
    ASSUME SimInv, RouteInv, ReceiveAck PROVE RouteInv'
<1> DEFINE t == Head(fes).time
           s == Tail(fes)
           p == Head(fes).msg
           e == p.seqNo
<1>1. Arrives("appl") /\ Head(fes).to = <<"appl", Source, GoBackNSender>>
  BY DEF ReceiveAck
<1>2. Extends(s, s) /\ t \in Int /\ ~IsNotice(Head(fes))
  BY <1>1, TailKept DEF IsNotice, GoBackNSender, RoutingDaemon
<1>3. CASE SenderStep(snd, s, p.id = "ack")
  BY <1>1, <1>2, <1>3, SenderRoutes
<1>4. CASE Rejected(t)
  <2> DEFINE new == [snd EXCEPT !.nextSendTime = WokenAt(t), !.nextSendSeqNo = snd.lastAckSeqNo]
             events == Woken(s, t)
  <2>1. SenderStep(new, events, TRUE)
    BY <1>4 DEF Rejected
  <2> HIDE DEF new, t, s
  <2>2. Extends(events, s)
    BY <1>2, WokenKeeps
  <2> HIDE DEF events
  <2> QED
    BY <1>1, <1>2, <2>1, <2>2, SenderRoutes DEF s
<1>5. CASE Acknowledged(t, e)
  <2> DEFINE buffer == [i \in DOMAIN snd.packetBuffer \ (snd.lastAckSeqNo .. e - 1) |->
                           snd.packetBuffer[i]]
             waiting == snd.nextSendSeqNo > e
             expiration == IF ~waiting THEN Never ELSE IF e \in DOMAIN buffer THEN buffer[e] ELSE -1
             idle == cancelEvent(s, timer1)
             timed == IF waiting THEN scheduleAt(idle, Event(expiration, 0, timer1, <<>>)) ELSE idle
             last == Max({snd.nextSendSeqNo, e})
             new == [snd EXCEPT !.packetBuffer = buffer, !.lastAckSeqNo = e,
                                !.nextSendSeqNo = last,
                                !.timerExpiration = expiration,
                                !.nextSendTime = WokenAt(t)]
             events == Woken(timed, t)
             asserted == /\ e > snd.lastAckSeqNo
                         /\ snd.lastAckSeqNo .. e - 1 \subseteq DOMAIN snd.packetBuffer
                         /\ waiting => expiration > t /\ expiration > 0
  <2>1. SenderStep(new, events, asserted)
    BY <1>5 DEF Acknowledged
  <2> HIDE DEF new, asserted
  <2>2. buffer \in Buffer
    BY BufferType DEF SimInv, NodesOK, SenderType
  <2> HIDE DEF buffer
  <2>3. expiration \in Int
    <3>1. \A i \in DOMAIN buffer : buffer[i] \in Int
      BY <2>2, BufferType
    <3> QED
      BY <3>1, SourceFacts
  <2> HIDE DEF expiration, waiting, t, s
  <2>4. Extends(idle, s)
    BY <1>2, TimersPlain, CancelKeeps
  <2> HIDE DEF idle
  <2>5. Extends(timed, s)
    BY <2>3, <2>4, TimerKeeps
  <2> HIDE DEF timed
  <2>6. Extends(events, s)
    BY <1>2, <2>5, WokenKeeps
  <2> HIDE DEF events
  <2> QED
    BY <1>1, <1>2, <2>1, <2>6, SenderRoutes DEF s
<1> QED
  BY <1>3, <1>4, <1>5 DEF ReceiveAck

LEMMA DataRoutes ==
    ASSUME SimInv, RouteInv, ReceiveData PROVE RouteInv'
<1> DEFINE h == Head(fes)
           s == Tail(fes)
<1>1. /\ Arrives("appl") /\ h.to = <<"appl", Sink, GoBackNReceiver>> /\ now' = h.time
      /\ UNCHANGED <<cost, routes>>
      /\ fes' = s \/ \E p : fes' = scheduleAt(s, ToStack(h.time, Sink, GoBackNReceiver, p))
  BY DEF ReceiveData, Network, Pass
<1>2. Extends(s, s) /\ h.time \in Int /\ ~IsNotice(h)
  BY <1>1, TailKept DEF IsNotice, GoBackNReceiver, RoutingDaemon
<1>3. Extends(fes', s)
  <2> HIDE DEF h, s
  <2> QED
    BY <1>1, <1>2, SendKeeps
<1> QED
  BY <1>1, <1>2, <1>3, RoutesWait

LEMMA WaitRoutes ==
    ASSUME SimInv, NEW n, NEW a \in PingType, NEW t \in Int, NEW r, NEW events,
           Extends(events, r), Wait(n, a, t, events)
    PROVE  Extends(fes', r)
<1> DEFINE due == a.nextSend =< t
           next == IF due THEN t + par.pingInterval ELSE a.nextSend
           to == <<"pingtimer", n>>
           idle == cancelEvent(events, to)
           pinged == IF due THEN scheduleAt(idle, ToStack(t, n, PingPongAppl,
                                                          Ping(n, a.lastSentSeqNo + 1))) ELSE idle
<1>1. fes' = IF next = Never THEN pinged ELSE scheduleAt(pinged, Event(next, 0, to, <<>>))
  BY DEF Wait
<1>2. next \in Int /\ to[1] = "pingtimer"
  BY ParametersType DEF PingType, SimInv, TimeOK
<1> HIDE DEF due, next, to
<1>3. Extends(idle, r)
  BY <1>2, CancelKeeps
<1> HIDE DEF idle
<1>4. Extends(pinged, r)
  BY <1>3, SendKeeps
<1> HIDE DEF pinged
<1> QED
  BY <1>1, <1>2, <1>4, TimerKeeps

LEMMA PingTimerRoutes ==
    ASSUME SimInv, RouteInv, PingTimer PROVE RouteInv'
<1> DEFINE h == Head(fes)
           s == Tail(fes)
           n == h.to[2]
<1>1. /\ Arrives("pingtimer") /\ now' = h.time /\ UNCHANGED <<cost, routes>>
      /\ Wait(n, ping[n], h.time, s)
  BY DEF PingTimer, Network, Pass
<1>2. Extends(s, s) /\ h.time \in Int /\ ~IsNotice(h) /\ EventOK(h) /\ h.to[1] = "pingtimer"
  BY <1>1, TailKept DEF IsNotice
<1>3. ping[n] \in PingType
  <2>1. n \in Node
    <3> HIDE DEF h
    <3> QED
      BY <1>2, Kinds
  <2> QED
    BY <2>1 DEF SimInv, NodesOK
<1>4. Extends(fes', s)
  <2> HIDE DEF h, s, n
  <2> QED
    BY <1>1, <1>2, <1>3, WaitRoutes
<1> QED
  BY <1>1, <1>2, <1>4, RoutesWait

LEMMA PingRoutes ==
    ASSUME SimInv, RouteInv, ReceivePing PROVE RouteInv'
<1> DEFINE h == Head(fes)
           s == Tail(fes)
           n == h.to[2]
           p == h.msg
           a == IF p.reply THEN [ping[n] EXCEPT !.received = @ + 1] ELSE ping[n]
           events == IF p.reply THEN s
                     ELSE scheduleAt(s, ToStack(h.time, n, PingPongAppl, Pong(p)))
<1>1. /\ Arrives("appl") /\ h.to[3] = PingPongAppl /\ now' = h.time
      /\ UNCHANGED <<cost, routes>> /\ Wait(n, a, h.time, events)
  <2>1. Arrives("appl") /\ h.to[3] = PingPongAppl /\ Pass /\ UNCHANGED <<Network, snd, rcv>>
    BY DEF ReceivePing
  <2>2. Wait(n, a, h.time, events)
    BY DEF ReceivePing
  <2> QED
    BY <2>1, <2>2 DEF Network, Pass
<1>2. Extends(s, s) /\ h.time \in Int /\ ~IsNotice(h) /\ EventOK(h) /\ h.to[1] = "appl"
  BY <1>1, TailKept DEF IsNotice, PingPongAppl, RoutingDaemon
<1>3. a \in PingType
  <2>1. n \in Node
    <3> HIDE DEF h
    <3> QED
      BY <1>2, Kinds
  <2>2. ping[n] \in PingType
    BY <2>1 DEF SimInv, NodesOK
  <2> DEFINE x == ping[n].received + 1
  <2>3. x \in Int
    BY <2>2 DEF PingType
  <2> HIDE DEF x
  <2>4. [ping[n] EXCEPT !.received = x] \in PingType
    BY <2>2, <2>3 DEF PingType
  <2> QED
    BY <2>2, <2>4 DEF x
<1>4. Extends(fes', s)
  <2> HIDE DEF h, s, n, a
  <2>1. Extends(events, s)
    BY <1>2, SendKeeps
  <2> HIDE DEF events
  <2> QED
    BY <1>1, <1>2, <1>3, <2>1, WaitRoutes
<1> QED
  BY <1>1, <1>2, <1>4, RoutesWait

LEMMA QueueRoutes ==
    ASSUME SimInv, RouteInv, NEW kind, kind \in {"queue", "timeout"}, Arrives(kind),
           NEW l \in Link, NEW r, QueueStep(l, r),
           r.send = <<>> \/ \E m \in Message : r.send = <<m>>
    PROVE  RouteInv'
<1> DEFINE h == Head(fes)
           t == h.time
           s == Tail(fes)
<1>1. now' = t /\ Transmit(l, r) /\ UNCHANGED <<cost, routes>>
  BY DEF QueueStep
<1>2. Extends(s, s) /\ t \in Int /\ ~IsNotice(h)
  BY TailKept DEF IsNotice
<1>3. CASE r.send = <<>>
  <2>1. fes' = s
    BY <1>1, <1>3 DEF Transmit
  <2> QED
    BY <1>1, <1>2, <2>1, RoutesWait
<1>4. CASE \E m \in Message : r.send = <<m>>
  <2>1. PICK m \in Message : r.send = <<m>>
    BY <1>4
  <2>2. r.send # <<>> /\ Head(r.send) = m
    BY <2>1
  <2> DEFINE D == IF l \in errorLinks /\ faults < par.faults THEN BOOLEAN ELSE {FALSE}
             msg(b) == [Head(r.send) EXCEPT !.bitError = @ \/ b]
             end(b) == t + duration[l][msg(b).id]
  <2>3. PICK b \in D :
          fes' = scheduleAt(scheduleAt(s, Event(end(b) + delay[l], 0, <<"stack", l[2], FromNet>>,
                                                msg(b))),
                            TimeoutEvent(end(b), l))
    BY <1>1, <2>2 DEF Transmit
  <2>4. msg(b).id = m.id
    BY <2>2 DEF Message
  <2> DEFINE u == end(b)
             v == u + delay[l]
             p == msg(b)
             e == Event(v, 0, <<"stack", l[2], FromNet>>, p)
             f == TimeoutEvent(u, l)
             mid == scheduleAt(s, e)
  <2>5. u \in Int /\ v \in Int
    <3>1. m.id \in {"data", "ack", "ping"}
      BY DEF Message
    <3>2. duration[l][m.id] \in Nat \ {0} /\ delay[l] \in Nat
      BY <3>1, SimulationAssumption
    <3> HIDE DEF msg, t
    <3> QED
      BY <1>2, <2>4, <3>2
  <2>6. fes' = scheduleAt(mid, f)
    BY <2>3
  <2> HIDE DEF u, v, p, D, msg, end, s
  <2>7. e.time = v /\ e.prio = 0
    BY DEF Event
  <2>8. f.time = u /\ f.prio \in Int /\ f.to[1] = "timeout"
    BY DEF TimeoutEvent, Event, INT_MIN
  <2> HIDE DEF e, f
  <2>9. Extends(mid, s)
    BY <1>2, <2>5, <2>7, PutKeeps
  <2> HIDE DEF mid
  <2>10. Extends(fes', s)
    BY <2>5, <2>6, <2>8, <2>9, PutKeeps
  <2> QED
    BY <1>1, <1>2, <2>10, RoutesWait DEF s
<1> QED
  BY <1>3, <1>4

LEMMA MessageRoutes ==
    ASSUME SimInv, RouteInv, QueueMessage PROVE RouteInv'
<1>1. PICK l \in Link :
        LET h == Head(fes)
            r == Q!OnMessage(queue[l], par, h.time, finishes[l], h.msg)
        IN  /\ Arrives("queue") /\ QueueStep(l, r)
            /\ r.send = <<>> \/ \E m \in Message : r.send = <<m>>
  BY MessageHandler
<1> DEFINE r == Q!OnMessage(queue[l], par, Head(fes).time, finishes[l], Head(fes).msg)
<1>2. /\ Arrives("queue") /\ QueueStep(l, r)
      /\ r.send = <<>> \/ \E m \in Message : r.send = <<m>>
  BY <1>1
<1> HIDE DEF r
<1> QED
  BY <1>2, QueueRoutes

LEMMA TimeoutRoutes ==
    ASSUME SimInv, RouteInv, QueueTimeout PROVE RouteInv'
<1>1. PICK l \in Link :
        LET h == Head(fes)
            r == Q!OnTimeout(queue[l], par, h.time, finishes[l])
        IN  /\ Arrives("timeout") /\ QueueStep(l, r)
            /\ r.send = <<>> \/ \E m \in Message : r.send = <<m>>
  BY TimeoutHandler
<1> DEFINE r == Q!OnTimeout(queue[l], par, Head(fes).time, finishes[l])
<1>2. /\ Arrives("timeout") /\ QueueStep(l, r)
      /\ r.send = <<>> \/ \E m \in Message : r.send = <<m>>
  BY <1>1
<1> HIDE DEF r
<1> QED
  BY <1>2, QueueRoutes

\* All daemons compute their routes from the costs the links have now.
LEMMA ComputedCurrent ==
    ASSUME NEW c \in [Link -> Int], NEW n \in Node, ~R!doDijkstra(c, n).stuck,
           NEW table, NEW dest \in Node \ {n}
    PROVE  R!StartsShortest(c, n, dest, R!calculateRoutes(c, n, table)[dest])
<1> DEFINE P == R!doDijkstra(c, n).P
<1>1. P[dest] \in Node /\ R!StartsShortest(c, n, dest, P[dest])
  BY DijkstraShortest
<1>2. R!calculateRoutes(c, n, table) = [m \in Node |-> IF P[m] = NoRoute THEN table[m] ELSE P[m]]
  BY DEF R!calculateRoutes
<1> HIDE DEF P
<1>3. P[dest] # NoRoute
  BY <1>1, NodesAssumption DEF NoRoute
<1>4. R!calculateRoutes(c, n, table)[dest] = P[dest]
  BY <1>2, <1>3
<1> QED
  BY <1>1, <1>4

LEMMA DaemonRoutes ==
    ASSUME SimInv, RouteInv, DaemonHandles PROVE RouteInv'
<1> DEFINE s == Tail(fes)
<1>1. /\ Arrives("appl") /\ fes' = s /\ cost' = cost
      /\ routes' = [n \in Node |-> R!calculateRoutes(cost, n, routes[n])]
      /\ ~aborted' => \A n \in Node : ~R!doDijkstra(cost, n).stuck
  BY DEF DaemonHandles
<1>2. cost \in [Link -> Int] /\ Foregoing(fes) /\ ToSet(s) \subseteq ToSet(fes)
  BY <1>1, NextEvent DEF RouteInv, Arrives, SimInv
<1>3. Foregoing(fes)'
  BY <1>1, <1>2 DEF Foregoing, IsNotice
<1>4. ASSUME ~aborted' PROVE Current'
  <2> SUFFICES ASSUME NEW n \in Node, NEW dest \in Node \ {n}
               PROVE  R!StartsShortest(cost, n, dest, routes'[n][dest])
    BY <1>1 DEF Current
  <2>1. routes'[n] = R!calculateRoutes(cost, n, routes[n])
    BY <1>1
  <2> QED
    BY <1>1, <1>2, <1>4, <2>1, ComputedCurrent
<1> QED
  BY <1>1, <1>2, <1>3, <1>4 DEF RouteInv

LEMMA ConParRoutes ==
    ASSUME SimInv, RouteInv, NEW l \in Link, NEW value \in Int, ConPar(l, value)
    PROVE  RouteInv'
<1> DEFINE e == LinkChanged(now, l[1])
<1>1. /\ ~aborted /\ fes' = scheduleAt(fes, e) /\ now' = now
      /\ cost' = [cost EXCEPT ![l] = value]
  BY DEF ConPar
<1>2. l[1] \in Node /\ now \in Int
  BY ParametersType DEF Link, SimInv, TimeOK
<1>3. /\ e.time = now /\ e.prio = -1 /\ e.to = <<"stack", l[1], Local>> /\ e.msg = Notice
  BY DEF LinkChanged, Event, Notice
<1> HIDE DEF e
<1>4. ToSet(fes') = ToSet(fes) \cup {e}
  BY <1>1, <1>2, <1>3, ScheduleAt DEF SimInv, TimeOK, ListOK
<1>5. IsNotice(e) /\ e.prio < 0 /\ e.time = now
  BY <1>2, <1>3 DEF IsNotice
<1>6. Foregoing(fes)' /\ Noticed(fes, now)'
  BY <1>1, <1>4, <1>5 DEF RouteInv, Foregoing, Noticed, IsNotice
<1>7. cost' \in [Link -> Int]
  BY <1>1 DEF RouteInv
<1> QED
  BY <1>6, <1>7 DEF RouteInv

\* A stack hands the notification to its routing daemon.
LEMMA NoticeDelivered ==
    ASSUME NEW n \in Node, NEW table
    PROVE  \E o : /\ handleMessage(n, Local, Notice, table).out = <<o>>
                  /\ o.to = <<"appl", n, RoutingDaemon>>
<1>1. Notice.destAppl = RoutingDaemon /\ RoutingDaemon \in appls[n]
  BY SimulationAssumption DEF Notice, NetworkPacket
<1>2. Originated(n, Local, Notice) = Notice
  BY DEF Originated
<1> HIDE DEF Notice
<1>3. handleMessage(n, Local, Notice, table) = deliverLocally(n, Notice)
  BY <1>2 DEF handleMessage
<1> DEFINE o == [to |-> <<"appl", n, RoutingDaemon>>,
                 msg |-> IF Notice.destNode = n
                            THEN [Notice EXCEPT !.destNode = Nobody, !.destAppl = Nobody]
                            ELSE Notice]
<1>4. deliverLocally(n, Notice) = Sent(<<o>>)
  BY <1>1 DEF deliverLocally
<1>5. o.to = <<"appl", n, RoutingDaemon>>
  OBVIOUS
<1> HIDE DEF o
<1>6. handleMessage(n, Local, Notice, table).out = <<o>>
  BY <1>3, <1>4 DEF Sent
<1> QED
  BY <1>5, <1>6

LEMMA StackRoutes ==
    ASSUME SimInv, RouteInv, StackHandles PROVE RouteInv'
<1> DEFINE h == Head(fes)
           s == Tail(fes)
           out == handleMessage(h.to[2], h.to[3], h.msg, routes[h.to[2]]).out
           sent == {Event(h.time, h.prio, o.to, o.msg) : o \in ToSet(out)}
<1>1. Arrives("stack") /\ ~aborted /\ fes # <<>> /\ now' = h.time /\ UNCHANGED <<cost, routes>>
  BY DEF StackHandles, Arrives, Pass, Network
<1>2. /\ IsList(fes') /\ ToSet(fes') = ToSet(s) \cup sent
      /\ \A e \in sent : e.time = h.time /\ e.prio = h.prio
  BY StackSends
<1>3. /\ h.to[1] = "stack" /\ h.time \in Int /\ h.time >= now /\ now \in Int /\ EventOK(h)
      /\ ToSet(fes) = {h} \cup ToSet(s)
      /\ \A e \in ToSet(s) : NotAfter(h, e)
  BY <1>1, NextEvent, ParametersType DEF SimInv, TimeOK, Arrives
<1>4. Foregoing(fes) /\ (Current \/ Noticed(fes, now)) /\ cost' \in [Link -> Int]
  BY <1>1 DEF RouteInv
<1>5. CASE IsNotice(h)
  <2>1. h.to[2] \in Node /\ h.to[3] = Local /\ h.msg = Notice
    BY <1>3, <1>5 DEF IsNotice
  <2>2. PICK o : out = <<o>> /\ o.to = <<"appl", h.to[2], RoutingDaemon>>
    <3> DEFINE n == h.to[2]  table == routes[n]
    <3>1. out = handleMessage(n, Local, Notice, table).out
      BY <2>1
    <3> HIDE DEF n, table
    <3>2. \E o : /\ handleMessage(n, Local, Notice, table).out = <<o>>
                /\ o.to = <<"appl", n, RoutingDaemon>>
      BY <2>1, NoticeDelivered DEF n
    <3> HIDE DEF out
    <3> QED
      BY <3>1, <3>2 DEF n
  <2> DEFINE f == Event(h.time, h.prio, o.to, o.msg)
  <2>3. sent = {f}
    <3>1. ToSet(out) = {o}
      <4> HIDE DEF out, f
      <4> QED
        BY <2>2 DEF ToSet
    <3> HIDE DEF out, f
    <3> QED
      BY <3>1 DEF f
  <2>4. IsNotice(f) /\ f.time = h.time /\ f.prio = h.prio
    BY <2>2 DEF Event, IsNotice
  <2> HIDE DEF f, sent, out, s, h
  <2>5. Foregoing(fes)'
    BY <1>2, <1>3, <1>4, <2>3, <2>4 DEF Foregoing, IsNotice
  <2>6. ASSUME Noticed(fes, now) PROVE Noticed(fes, now)'
    <3>1. PICK e \in ToSet(fes) : IsNotice(e) /\ e.prio < 0 /\ e.time = now
      BY <2>6 DEF Noticed
    <3>2. CASE e = h
      <4>1. f \in ToSet(fes') /\ IsNotice(f) /\ f.prio < 0 /\ f.time = now'
        BY <1>1, <1>2, <2>3, <2>4, <3>1, <3>2
      <4> QED
        BY <4>1 DEF Noticed, IsNotice
    <3>3. CASE e # h
      <4>1. e \in ToSet(s) /\ NotAfter(h, e)
        BY <1>3, <3>1, <3>3
      <4>2. h.time = now
        BY <1>3, <3>1, <4>1 DEF NotAfter
      <4> QED
        BY <1>1, <1>2, <3>1, <4>1, <4>2 DEF Noticed, IsNotice
    <3> QED
      BY <3>2, <3>3
  <2>7. Current <=> Current'
    BY <1>1 DEF Current
  <2> QED
    BY <1>4, <2>5, <2>6, <2>7 DEF RouteInv
<1>6. CASE ~IsNotice(h)
  <2>1. h.prio >= 0
    BY <1>3, <1>4, <1>6 DEF Foregoing
  <2> HIDE DEF sent, out
  <2>2. Extends(fes', s)
    <3> HIDE DEF h, s
    <3> QED
      BY <1>2, <2>1 DEF Extends
  <2> QED
    BY <1>1, <1>6, <2>2, RoutesWait
<1> QED
  BY <1>5, <1>6

LEMMA RouteStarts == Init => RouteInv
<1> SUFFICES ASSUME Init PROVE RouteInv
  OBVIOUS
<1>1. /\ par \in Parameters /\ fes = InitialEvents
      /\ cost = [l \in Link |-> 1]
      /\ routes = [n \in Node |-> R!calculateRoutes(cost, n, [m \in Node |-> NoRoute])]
      /\ ~aborted => \A n \in Node : ~R!doDijkstra(cost, n).stuck
  BY DEF Init
<1>2. cost \in [Link -> Int]
  BY <1>1
<1>3. Foregoing(fes)
  <2>1. \A i \in DOMAIN fes : fes[i].prio = 0
    BY <1>1, FirstEvents
  <2> QED
    BY <2>1, SetIndex DEF Foregoing
<1>4. ASSUME ~aborted PROVE Current
  <2> SUFFICES ASSUME NEW n \in Node, NEW dest \in Node \ {n}
               PROVE  R!StartsShortest(cost, n, dest, routes[n][dest])
    BY DEF Current
  <2>1. routes[n] = R!calculateRoutes(cost, n, [m \in Node |-> NoRoute])
    BY <1>1
  <2>2. ~R!doDijkstra(cost, n).stuck
    BY <1>1, <1>4
  <2> QED
    BY <1>2, <2>1, <2>2, ComputedCurrent
<1> QED
  BY <1>2, <1>3, <1>4 DEF RouteInv

LEMMA RoutesGoOn == SimInv /\ RouteInv /\ [Next]_vars => RouteInv'
<1> SUFFICES ASSUME SimInv, RouteInv, [Next]_vars PROVE RouteInv'
  OBVIOUS
<1>1. CASE StackHandles
  BY <1>1, StackRoutes
<1>2. CASE DaemonHandles
  BY <1>2, DaemonRoutes
<1>3. CASE QueueMessage
  BY <1>3, MessageRoutes
<1>4. CASE QueueTimeout
  BY <1>4, TimeoutRoutes
<1>5. ASSUME NEW c \in Commands, ConPar(c[1], c[2]) PROVE RouteInv'
  <2>1. c[1] \in Link /\ c[2] \in Int
    BY SimulationAssumption
  <2> QED
    BY <1>5, <2>1, ConParRoutes
<1>6. CASE SendNext
  BY <1>6, SendNextRoutes
<1>7. CASE Expire
  BY <1>7, ExpireRoutes
<1>8. CASE ReceiveAck
  BY <1>8, AckRoutes
<1>9. CASE ReceiveData
  BY <1>9, DataRoutes
<1>10. CASE PingTimer
  BY <1>10, PingTimerRoutes
<1>11. CASE ReceivePing
  BY <1>11, PingRoutes
<1>12. CASE UNCHANGED vars
  BY <1>12 DEF vars, RouteInv, Current, Foregoing, Noticed, IsNotice
<1> QED
  BY <1>1, <1>2, <1>3, <1>4, <1>5, <1>6, <1>7, <1>8, <1>9, <1>10, <1>11, <1>12 DEF Next

(***************************************************************************)
(* In every network, whatever costs are typed into the stacks and when: a  *)
(* stack that is about to forward a packet has a route that starts a       *)
(* shortest path for the costs the links have by then.  The notification   *)
(* of a change has priority over all packets of its time and keeps it when *)
(* the stack hands it to the daemon (NetworkStack::handleMessage), and the *)
(* daemon then computes the routes of all stacks (FakedRoutingDaemon).     *)
(***************************************************************************)
THEOREM ShortestRoutes == Spec => [](aborted \/ RoutesCurrentWhenUsed)
<1>1. SimInv /\ RouteInv => aborted \/ RoutesCurrentWhenUsed
  <2> DEFINE h == Head(fes)
             n == h.to[2]
             dest == h.msg.destNode
  <2> SUFFICES ASSUME SimInv, RouteInv, ~aborted, fes # <<>>, h.to[1] = "stack",
                      dest \in Node \ {n}
               PROVE  R!StartsShortest(cost, n, dest, routes[n][dest])
    BY DEF RoutesCurrentWhenUsed
  <2>1. /\ EventOK(h) /\ h.time \in Int /\ h.time >= now /\ now \in Int
        /\ ToSet(fes) = {h} \cup ToSet(Tail(fes))
        /\ \A e \in ToSet(Tail(fes)) : NotAfter(h, e)
    BY NextEvent, ParametersType DEF SimInv, TimeOK
  <2>2. n \in Node /\ h.prio \in Int
    <3> HIDE DEF h
    <3> QED
      BY <2>1, Kinds DEF EventOK
  <2>3. ~IsNotice(h)
    <3>1. Notice.destNode = Nobody /\ Nobody \notin Node
      BY NodesAssumption DEF Notice, NetworkPacket, Nobody
    <3> QED
      BY <3>1 DEF IsNotice
  <2>4. h.prio >= 0
    BY <2>1, <2>3 DEF RouteInv, Foregoing
  <2>5. ~Noticed(fes, now)
    <3> SUFFICES ASSUME NEW e \in ToSet(fes), IsNotice(e), e.prio < 0, e.time = now
                 PROVE  FALSE
      BY DEF Noticed
    <3>1. NotAfter(h, e)
      BY <2>1, <2>3
    <3>2. e.prio \in Int
      BY DEF SimInv, TimeOK, ListOK, EventOK
    <3> QED
      BY <2>1, <2>2, <2>4, <3>1, <3>2 DEF NotAfter
  <2> QED
    BY <2>2, <2>5 DEF RouteInv, Current
<1> QED
  BY <1>1, InitInv, StepInv, RouteStarts, RoutesGoOn, PTL DEF Spec

----------------------------------------------------------------------------
(***************************************************************************)
(* The order of a list of events, and how many of a kind are in it.        *)
(***************************************************************************)
Precedes(s, a, b) == \E i, j \in DOMAIN s : i < j /\ s[i] = a /\ s[j] = b

HowMany(s, T) == Cardinality({i \in DOMAIN s : s[i] \in T})

One(condition) == IF condition THEN 1 ELSE 0

\* "new" is s without its element at k.
WithoutAt(new, s, k) ==
    /\ Len(s) \in Nat /\ DOMAIN s = 1 .. Len(s) /\ k \in 1 .. Len(s)
    /\ DOMAIN new = 1 .. Len(s) - 1
    /\ \A i \in 1 .. Len(s) - 1 : new[i] = IF i < k THEN s[i] ELSE s[i + 1]

LEMMA WithoutOrder ==
    ASSUME NEW new, NEW s, NEW k, WithoutAt(new, s, k), NEW a, NEW b, Precedes(new, a, b)
    PROVE  Precedes(s, a, b)
<1>1. PICK i \in 1 .. Len(s) - 1, j \in 1 .. Len(s) - 1 : i < j /\ new[i] = a /\ new[j] = b
  BY DEF Precedes, WithoutAt
<1> DEFINE at(x) == IF x < k THEN x ELSE x + 1
<1>2. ASSUME NEW x \in 1 .. Len(s) - 1 PROVE at(x) \in DOMAIN s /\ new[x] = s[at(x)]
  BY DEF WithoutAt
<1>3. at(i) < at(j)
  BY <1>1 DEF WithoutAt
<1> QED
  BY <1>1, <1>2, <1>3 DEF Precedes

LEMMA WithoutCount ==
    ASSUME NEW new, NEW s, NEW k, WithoutAt(new, s, k), NEW T
    PROVE  /\ HowMany(new, T) \in Nat
           /\ HowMany(s, T) = HowMany(new, T) + One(s[k] \in T)
<1> DEFINE n == Len(s)
           I == {i \in 1 .. n : s[i] \in T}
           J == {i \in 1 .. n - 1 : new[i] \in T}
           f == [i \in J |-> IF i < k THEN i ELSE i + 1]
<1>1. n \in Nat /\ DOMAIN s = 1 .. n /\ DOMAIN new = 1 .. n - 1 /\ k \in 1 .. n
  BY DEF WithoutAt
<1>2. HowMany(s, T) = Cardinality(I) /\ HowMany(new, T) = Cardinality(J)
  BY <1>1 DEF HowMany
<1>3. IsFiniteSet(I) /\ IsFiniteSet(J)
  <2>1. IsFiniteSet(1 .. n) /\ IsFiniteSet(1 .. n - 1)
    BY <1>1, FS_Interval
  <2> QED
    BY <2>1, FS_Subset
<1>4. f \in [J -> I \ {k}]
  <2> SUFFICES ASSUME NEW i \in J PROVE (IF i < k THEN i ELSE i + 1) \in I \ {k}
    OBVIOUS
  <2>1. i \in 1 .. n - 1 /\ new[i] \in T /\ new[i] = IF i < k THEN s[i] ELSE s[i + 1]
    BY DEF WithoutAt
  <2> QED
    BY <1>1, <2>1
<1>5. \A x, y \in J : f[x] = f[y] => x = y
  BY <1>1
<1>6. ASSUME NEW y \in I \ {k} PROVE \E x \in J : f[x] = y
  <2> DEFINE x == IF y < k THEN y ELSE y - 1
  <2>1. x \in 1 .. n - 1 /\ (x < k <=> y < k) /\ (~(y < k) => x + 1 = y)
    BY <1>1
  <2>2. new[x] = s[y]
    BY <1>1, <2>1 DEF WithoutAt
  <2> QED
    BY <2>1, <2>2
<1> HIDE DEF I, J, f
<1>7. ExistsBijection(J, I \ {k})
  <2>1. f \in Injection(J, I \ {k})
    BY <1>4, <1>5 DEF Injection, IsInjective
  <2>2. f \in Surjection(J, I \ {k})
    BY <1>4, <1>6 DEF Surjection
  <2> QED
    BY <2>1, <2>2 DEF ExistsBijection, Bijection
<1>8. Cardinality(I \ {k}) = Cardinality(J) /\ Cardinality(J) \in Nat /\ Cardinality(I) \in Nat
  BY <1>3, <1>7, FS_Bijection, FS_CardinalityType
<1>9. Cardinality(I \ {k}) = IF k \in I THEN Cardinality(I) - 1 ELSE Cardinality(I)
  BY <1>3, FS_RemoveElement
<1>10. k \in I <=> s[k] \in T
  BY <1>1 DEF I
<1> QED
  BY <1>2, <1>8, <1>9, <1>10 DEF One

\* Taking the first event from a list, leaving one out, and putting one in.
LEMMA TailWithout ==
    ASSUME NEW s, IsList(s), s # <<>>
    PROVE  WithoutAt(Tail(s), s, 1) /\ s[1] = Head(s)
<1>1. Len(s) \in Nat \ {0} /\ DOMAIN s = 1 .. Len(s) /\ Head(s) = s[1]
  BY DEF IsList
<1>2. Len(Tail(s)) = Len(s) - 1 /\ DOMAIN Tail(s) = 1 .. Len(s) - 1
      /\ \A i \in 1 .. Len(s) - 1 : Tail(s)[i] = s[i + 1]
  BY <1>1, HeadTailProperties DEF IsList
<1> QED
  BY <1>1, <1>2 DEF WithoutAt

LEMMA PutWithout ==
    ASSUME NEW s, IsList(s), NEW e, e.time \in Int, e.prio \in Int
    PROVE  \E k : WithoutAt(s, scheduleAt(s, e), k) /\ scheduleAt(s, e)[k] = e
<1> DEFINE events == <<e>>
           new == scheduleAt(s, e)
           n == Len(s)
<1>1. ToSet(events) = {e} /\ events \in Seq({e}) /\ Len(events) = 1 /\ events # <<>> /\ events[1] = e
  BY DEF ToSet
<1>2. new = scheduleAll(s, events)
  BY DEF scheduleAt
<1> HIDE DEF events
<1>3. PICK k \in 0 .. n :
         /\ new \in Seq(ToSet(s) \cup {e})
         /\ Len(new) = n + 1
         /\ \A i \in 1 .. k : new[i] = s[i]
         /\ \A i \in 1 .. 1 : new[k + i] = events[i]
         /\ \A i \in k + 1 .. n : new[1 + i] = s[i]
  <2>1. PICK k \in 0 .. n :
           LET u == scheduleAll(s, events)  m == Len(events) IN
           /\ u \in Seq(ToSet(s) \cup ToSet(events))
           /\ Len(u) = Len(s) + m
           /\ \A i \in 1 .. k : u[i] = s[i] /\ NotAfter(s[i], events[1])
           /\ \A i \in 1 .. m : u[k + i] = events[i]
           /\ \A i \in k + 1 .. Len(s) : u[m + i] = s[i] /\ ~NotAfter(s[i], events[1])
    BY <1>1, Scheduled
  <2> QED
    BY <1>1, <1>2, <2>1
<1> HIDE DEF new
<1>4. n \in Nat /\ DOMAIN s = 1 .. n /\ DOMAIN new = 1 .. n + 1
  BY <1>3 DEF IsList
<1>5. new[k + 1] = e /\ k + 1 \in 1 .. n + 1
  BY <1>1, <1>3, <1>4
<1>6. ASSUME NEW i \in 1 .. n PROVE s[i] = IF i < k + 1 THEN new[i] ELSE new[i + 1]
  BY <1>3, <1>4
<1>7. WithoutAt(s, new, k + 1)
  BY <1>3, <1>4, <1>5, <1>6 DEF WithoutAt
<1> QED
  BY <1>5, <1>7 DEF new

LEMMA CancelWithout ==
    ASSUME NEW s, IsList(s), NEW to
    PROVE  \/ cancelEvent(s, to) = s
           \/ \E k : WithoutAt(cancelEvent(s, to), s, k) /\ s[k].to = to
<1> DEFINE new == cancelEvent(s, to)
<1>1. Len(s) \in Nat /\ DOMAIN s = 1 .. Len(s)
  BY DEF IsList
<1> HIDE DEF new
<1>2. ASSUME NEW k \in 1 .. Len(s), s[k].to = to,
             new \in Seq(ToSet(s)) /\ Len(new) = Len(s) - 1 /\ DOMAIN new = 1 .. Len(s) - 1,
             \A i \in 1 .. k - 1 : new[i] = s[i],
             \A i \in k .. Len(s) - 1 : new[i] = s[i + 1]
      PROVE  WithoutAt(new, s, k)
  <2>1. \A i \in 1 .. Len(s) - 1 : new[i] = IF i < k THEN s[i] ELSE s[i + 1]
    BY <1>1, <1>2
  <2> QED
    BY <1>1, <1>2, <2>1 DEF WithoutAt
<1> QED
  BY <1>2, CancelledAt DEF new

\* Events that are scheduled precede those they are put before, and no others.
LEMMA PutOrder ==
    ASSUME NEW s, IsList(s), NEW events, events \in Seq(ToSet(events)), Together(events),
           \A e \in ToSet(events) : e.time \in Int /\ e.prio \in Int,
           NEW a, NEW b, Precedes(scheduleAll(s, events), a, b)
    PROVE  \/ Precedes(s, a, b) \/ b \in ToSet(events)
           \/ (a \in ToSet(events) /\ ~NotAfter(b, a))
<1> DEFINE new == scheduleAll(s, events)
           n == Len(s)
           m == Len(events)
<1>1. CASE events = <<>>
  BY <1>1 DEF scheduleAll
<1>2. CASE events # <<>>
  <2>1. PICK k \in 0 .. n :
           /\ new \in Seq(ToSet(s) \cup ToSet(events))
           /\ Len(new) = n + m
           /\ \A i \in 1 .. k : new[i] = s[i] /\ NotAfter(s[i], events[1])
           /\ \A i \in 1 .. m : new[k + i] = events[i]
           /\ \A i \in k + 1 .. n : new[m + i] = s[i] /\ ~NotAfter(s[i], events[1])
    BY <1>2, Scheduled
  <2>2. n \in Nat /\ DOMAIN s = 1 .. n /\ m \in Nat \ {0} /\ DOMAIN events = 1 .. m
    BY <1>2 DEF IsList
  <2> HIDE DEF new
  <2>3. DOMAIN new = 1 .. n + m
    BY <2>1, <2>2
  <2>4. PICK i \in 1 .. n + m, j \in 1 .. n + m : i < j /\ new[i] = a /\ new[j] = b
    BY <2>3 DEF Precedes, new
  <2> DEFINE at(x) == IF x =< k THEN x ELSE x - m
  <2>5. ASSUME NEW x \in 1 .. n + m, x =< k \/ x > k + m
        PROVE  at(x) \in 1 .. n /\ new[x] = s[at(x)]
    <3>1. CASE x =< k
      BY <2>1, <2>2, <3>1
    <3>2. CASE x > k + m
      <4>1. x - m \in k + 1 .. n /\ m + (x - m) = x /\ ~(x =< k)
        BY <2>2, <3>2
      <4>2. new[m + (x - m)] = s[x - m]
        BY <2>1, <4>1
      <4> QED
        BY <2>2, <4>1, <4>2
    <3> QED
      BY <2>5, <3>1, <3>2
  <2>6. ASSUME NEW x \in 1 .. n + m, ~(x =< k \/ x > k + m)
        PROVE  /\ new[x] \in ToSet(events)
               /\ new[x].time = events[1].time /\ new[x].prio = events[1].prio
    <3> DEFINE y == x - k
    <3>1. y \in 1 .. m /\ k + y = x /\ 1 \in 1 .. m
      BY <2>2, <2>6
    <3> HIDE DEF y
    <3>2. new[x] = events[y]
      BY <2>1, <3>1
    <3>3. events[y] \in ToSet(events)
      BY <2>2, <3>1, IndexInSet
    <3>4. events[y].time = events[1].time /\ events[y].prio = events[1].prio
      BY <2>2, <3>1 DEF Together
    <3> QED
      BY <3>1, <3>2, <3>3, <3>4
  <2>7. CASE ~(j =< k \/ j > k + m)
    BY <2>4, <2>6, <2>7
  <2>8. CASE (j =< k \/ j > k + m) /\ (i =< k \/ i > k + m)
    <3>1. at(i) < at(j)
      BY <2>2, <2>4, <2>8
    <3>2. at(i) \in 1 .. n /\ a = s[at(i)] /\ at(j) \in 1 .. n /\ b = s[at(j)]
      BY <2>4, <2>5, <2>8
    <3> HIDE DEF at
    <3> QED
      BY <2>2, <3>1, <3>2 DEF Precedes
  <2>9. CASE (j =< k \/ j > k + m) /\ ~(i =< k \/ i > k + m)
    <3>1. j - m \in k + 1 .. n /\ m + (j - m) = j
      BY <2>2, <2>4, <2>9
    <3>2. new[m + (j - m)] = s[j - m] /\ ~NotAfter(s[j - m], events[1])
      BY <2>1, <3>1
    <3>3. ~NotAfter(b, events[1])
      BY <2>4, <3>1, <3>2
    <3>4. a \in ToSet(events) /\ a.time = events[1].time /\ a.prio = events[1].prio
      BY <2>4, <2>6, <2>9
    <3>5. ~NotAfter(b, a)
      BY <3>3, <3>4 DEF NotAfter
    <3> QED
      BY <3>4, <3>5
  <2> QED
    BY <2>7, <2>8, <2>9
<1> QED
  BY <1>1, <1>2

----------------------------------------------------------------------------
(***************************************************************************)
(* What a handler does to the packets in the list: "new" has those of s,   *)
(* and the ones of E, each once, put where they belong.  The timers N that *)
(* it starts may be put before others.                                     *)
(***************************************************************************)
Carries(e) == e.to[1] \in {"stack", "queue", "appl"}

Adds(new, s, E, N) ==
    /\ IsList(new) /\ IsList(s)
    /\ \A e : Carries(e) => (e \in ToSet(new) <=> e \in ToSet(s) \cup E)
    /\ ToSet(new) \subseteq ToSet(s) \cup E \cup N
    /\ \A a, b : Carries(a) /\ Precedes(new, a, b)
                 => \/ Precedes(s, a, b) \/ b \in E \cup N
                    \/ (a \in E /\ ~NotAfter(b, a))

Gains(new, s, E, N) ==
    /\ Adds(new, s, E, N)
    /\ IsFiniteSet(E)
    /\ \A T : (\A e \in T : Carries(e))
              => HowMany(new, T) = HowMany(s, T) + Cardinality(E \cap T)

LEMMA CountType ==
    ASSUME NEW s, IsList(s), NEW T PROVE HowMany(s, T) \in Nat
<1>1. DOMAIN s = 1 .. Len(s) /\ Len(s) \in Nat
  BY DEF IsList
<1>2. IsFiniteSet(1 .. Len(s))
  BY <1>1, FS_Interval
<1>3. IsFiniteSet({i \in DOMAIN s : s[i] \in T})
  BY <1>1, <1>2, FS_Subset
<1> QED
  BY <1>3, FS_CardinalityType DEF HowMany

LEMMA GainsNothing ==
    ASSUME NEW s, IsList(s) PROVE Gains(s, s, {}, {})
<1>1. \A T : {} \cap T = {} /\ HowMany(s, T) \in Nat
  BY CountType
<1>2. Cardinality({}) = 0 /\ IsFiniteSet({})
  BY FS_EmptySet
<1>3. \A T : HowMany(s, T) = HowMany(s, T) + Cardinality({} \cap T)
  BY <1>1, <1>2
<1> QED
  BY <1>2, <1>3 DEF Gains, Adds

LEMMA PutOne ==
    ASSUME NEW s, IsList(s), NEW e, e.time \in Int, e.prio \in Int
    PROVE  LET new == scheduleAt(s, e) IN
           /\ IsList(new) /\ ToSet(new) = ToSet(s) \cup {e}
           /\ \A T : HowMany(new, T) = HowMany(s, T) + One(e \in T)
           /\ \A a, b : Precedes(new, a, b)
                        => Precedes(s, a, b) \/ b = e \/ (a = e /\ ~NotAfter(b, a))
<1> DEFINE new == scheduleAt(s, e)
           events == <<e>>
<1>1. IsList(new) /\ ToSet(new) = ToSet(s) \cup {e}
  BY ScheduleAt
<1>2. \A T : HowMany(new, T) = HowMany(s, T) + One(e \in T)
  <2>1. PICK k : WithoutAt(s, new, k) /\ new[k] = e
    BY PutWithout
  <2> HIDE DEF new
  <2> QED
    BY <2>1, WithoutCount
<1>3. /\ ToSet(events) = {e} /\ events \in Seq({e}) /\ Together(events)
      /\ new = scheduleAll(s, events)
  BY DEF ToSet, Together, scheduleAt
<1> HIDE DEF new, events
<1>4. ASSUME NEW a, NEW b, Precedes(new, a, b)
      PROVE  Precedes(s, a, b) \/ b = e \/ (a = e /\ ~NotAfter(b, a))
  BY <1>3, <1>4, PutOrder
<1> QED
  BY <1>1, <1>2, <1>4 DEF new

LEMMA TimerGains ==
    ASSUME NEW r, NEW s, NEW E, NEW N, Gains(s, r, E, N), NEW e, e.time \in Int, e.prio \in Int,
           ~Carries(e)
    PROVE  Gains(scheduleAt(s, e), r, E, N \cup {e})
<1> DEFINE new == scheduleAt(s, e)
<1>1. /\ IsList(new) /\ ToSet(new) = ToSet(s) \cup {e}
      /\ \A T : HowMany(new, T) = HowMany(s, T) + One(e \in T)
      /\ \A a, b : Precedes(new, a, b)
                   => Precedes(s, a, b) \/ b = e \/ (a = e /\ ~NotAfter(b, a))
  BY PutOne DEF Gains, Adds
<1> HIDE DEF new
<1>2. ASSUME NEW T, \A f \in T : Carries(f)
      PROVE  HowMany(new, T) = HowMany(r, T) + Cardinality(E \cap T)
  <2>1. e \notin T /\ HowMany(s, T) \in Nat
    BY <1>2, CountType DEF Gains, Adds
  <2>2. HowMany(new, T) = HowMany(s, T)
    BY <1>1, <2>1 DEF One
  <2> QED
    BY <1>2, <2>2 DEF Gains, Adds
<1>3. ASSUME NEW a, NEW b, Carries(a), Precedes(new, a, b)
      PROVE  \/ Precedes(r, a, b) \/ b \in E \cup (N \cup {e}) \/ (a \in E /\ ~NotAfter(b, a))
  <2>1. Precedes(s, a, b) \/ b = e
    BY <1>1, <1>3
  <2>2. Precedes(s, a, b) => Precedes(r, a, b) \/ b \in E \cup N \/ (a \in E /\ ~NotAfter(b, a))
    BY <1>3 DEF Gains, Adds
  <2> QED
    BY <2>1, <2>2
<1>4. \A f : Carries(f) => (f \in ToSet(new) <=> f \in ToSet(r) \cup E)
  BY <1>1 DEF Gains, Adds
<1> QED
  BY <1>1, <1>2, <1>3, <1>4 DEF Gains, Adds, new

LEMMA PacketGains ==
    ASSUME NEW r, NEW s, NEW E, NEW N, Gains(s, r, E, N), NEW e, e.time \in Int, e.prio \in Int,
           Carries(e), e \notin E
    PROVE  Gains(scheduleAt(s, e), r, E \cup {e}, N)
<1> DEFINE new == scheduleAt(s, e)
<1>1. /\ IsList(new) /\ ToSet(new) = ToSet(s) \cup {e}
      /\ \A T : HowMany(new, T) = HowMany(s, T) + One(e \in T)
      /\ \A a, b : Precedes(new, a, b)
                   => Precedes(s, a, b) \/ b = e \/ (a = e /\ ~NotAfter(b, a))
  BY PutOne DEF Gains, Adds
<1> HIDE DEF new
<1>2. ASSUME NEW T, \A f \in T : Carries(f)
      PROVE  HowMany(new, T) = HowMany(r, T) + Cardinality((E \cup {e}) \cap T)
  <2>1. HowMany(s, T) = HowMany(r, T) + Cardinality(E \cap T) /\ HowMany(r, T) \in Nat
    BY <1>2, CountType DEF Gains, Adds
  <2>2. IsFiniteSet(E \cap T) /\ Cardinality(E \cap T) \in Nat
    BY FS_Intersection, FS_CardinalityType DEF Gains
  <2>3. (E \cup {e}) \cap T = IF e \in T THEN (E \cap T) \cup {e} ELSE E \cap T
    OBVIOUS
  <2>4. Cardinality((E \cap T) \cup {e}) = Cardinality(E \cap T) + 1
    BY <2>2, FS_AddElement
  <2>5. Cardinality((E \cup {e}) \cap T) = Cardinality(E \cap T) + One(e \in T)
    <3>1. CASE e \in T
      BY <2>3, <2>4, <3>1 DEF One
    <3>2. CASE e \notin T
      BY <2>2, <2>3, <3>2 DEF One
    <3> QED
      BY <3>1, <3>2
  <2>6. HowMany(new, T) = HowMany(s, T) + One(e \in T) /\ One(e \in T) \in Nat
    BY <1>1 DEF One
  <2> QED
    BY <2>1, <2>2, <2>5, <2>6
<1>3. ASSUME NEW a, NEW b, Carries(a), Precedes(new, a, b)
      PROVE  \/ Precedes(r, a, b) \/ b \in (E \cup {e}) \cup N
             \/ (a \in E \cup {e} /\ ~NotAfter(b, a))
  <2>1. Precedes(s, a, b) \/ b = e \/ (a = e /\ ~NotAfter(b, a))
    BY <1>1, <1>3
  <2>2. Precedes(s, a, b) => Precedes(r, a, b) \/ b \in E \cup N \/ (a \in E /\ ~NotAfter(b, a))
    BY <1>3 DEF Gains, Adds
  <2> QED
    BY <2>1, <2>2
<1>4. \A f : Carries(f) => (f \in ToSet(new) <=> f \in ToSet(r) \cup (E \cup {e}))
  BY <1>1 DEF Gains, Adds
<1>5. IsFiniteSet(E \cup {e})
  BY FS_AddElement DEF Gains
<1> QED
  BY <1>1, <1>2, <1>3, <1>4, <1>5 DEF Gains, Adds, new

LEMMA CancelGains ==
    ASSUME NEW r, NEW s, NEW E, NEW N, Gains(s, r, E, N), NEW to,
           to[1] \notin {"stack", "queue", "appl"}
    PROVE  Gains(cancelEvent(s, to), r, E, N)
<1> DEFINE new == cancelEvent(s, to)
<1>1. /\ IsList(new) /\ ToSet(new) \subseteq ToSet(s)
      /\ \A e \in ToSet(s) : e.to # to => e \in ToSet(new)
  BY Cancelled DEF Gains, Adds
<1>2. CASE new = s
  BY <1>2
<1>3. ASSUME NEW k, WithoutAt(new, s, k), s[k].to = to
      PROVE  Gains(new, r, E, N)
  <2> HIDE DEF new
  <2>1. ~Carries(s[k])
    BY <1>3 DEF Carries
  <2>2. ASSUME NEW T, \A f \in T : Carries(f)
        PROVE  HowMany(new, T) = HowMany(r, T) + Cardinality(E \cap T)
    <3>1. s[k] \notin T
      BY <2>1, <2>2
    <3>2. HowMany(s, T) = HowMany(new, T) + One(s[k] \in T) /\ HowMany(new, T) \in Nat
      BY <1>3, WithoutCount
    <3>3. HowMany(s, T) = HowMany(new, T)
      BY <3>1, <3>2 DEF One
    <3> QED
      BY <2>2, <3>3 DEF Gains, Adds
  <2>3. \A a, b : Precedes(new, a, b) => Precedes(s, a, b)
    BY <1>3, WithoutOrder
  <2>4. \A f : Carries(f) => (f \in ToSet(new) <=> f \in ToSet(r) \cup E)
    BY <1>1 DEF Gains, Adds, Carries
  <2> QED
    BY <1>1, <2>2, <2>3, <2>4 DEF Gains, Adds
<1> HIDE DEF new
<1>4. IsList(s)
  BY DEF Gains, Adds
<1> QED
  BY <1>2, <1>3, <1>4, CancelWithout DEF new

----------------------------------------------------------------------------
(***************************************************************************)
(* The handlers of the applications.                                       *)
(***************************************************************************)
TimersOf(N, tos) == \A e \in N : e.to \in tos /\ e.prio = 0

LEMMA HandledList ==
    ASSUME SimInv, NEW kind, Arrives(kind)
    PROVE  /\ Gains(Tail(fes), Tail(fes), {}, {}) /\ Head(fes).time \in Int
           /\ EventOK(Head(fes)) /\ Head(fes).to[1] = kind /\ par \in Parameters
           /\ IsList(fes) /\ fes # <<>> /\ ~aborted
BY Handled, GainsNothing DEF SameTimeouts, ListOK, SimInv, TimeOK

LEMMA SendGains ==
    ASSUME NEW r, NEW s, NEW E, NEW N, Gains(s, r, E, N), NEW t \in Int, NEW n, NEW a, NEW p,
           ToStack(t, n, a, p) \notin E
    PROVE  Gains(scheduleAt(s, ToStack(t, n, a, p)), r, E \cup {ToStack(t, n, a, p)}, N)
<1> DEFINE e == ToStack(t, n, a, p)
<1>1. e.time = t /\ e.prio = 0 /\ e.to[1] = "stack"
  BY DEF Event, ToStack
<1> HIDE DEF e
<1> QED
  BY <1>1, PacketGains DEF e, Carries

LEMMA StartGains ==
    ASSUME NEW r, NEW s, NEW E, NEW N, Gains(s, r, E, N), NEW t \in Int, NEW to,
           to[1] \notin {"stack", "queue", "appl"}
    PROVE  /\ Gains(scheduleAt(s, Event(t, 0, to, <<>>)), r, E, N \cup {Event(t, 0, to, <<>>)})
           /\ Event(t, 0, to, <<>>).to = to /\ Event(t, 0, to, <<>>).prio = 0
           /\ Event(t, 0, to, <<>>).time = t
<1> DEFINE e == Event(t, 0, to, <<>>)
<1>1. e.time = t /\ e.prio = 0 /\ e.to = to
  BY DEF Event
<1> HIDE DEF e
<1>2. ~Carries(e)
  BY <1>1 DEF Carries
<1> QED
  BY <1>1, <1>2, TimerGains DEF e

LEMMA WokenGains ==
    ASSUME NEW r, NEW s, NEW E, NEW N, Gains(s, r, E, N), NEW t \in Int
    PROVE  \E e : /\ e.to = timer0 /\ e.prio = 0
                  /\ Gains(Woken(s, t), r, E, N \cup {e}) \/ Gains(Woken(s, t), r, E, N)
<1> DEFINE e == Event(t, 0, timer0, <<>>)
<1>0. timer0[1] \notin {"stack", "queue", "appl"}
  BY TimersPlain
<1>1. Gains(scheduleAt(s, e), r, E, N \cup {e}) /\ e.to = timer0 /\ e.prio = 0
  BY <1>0, StartGains
<1>2. Woken(s, t) = scheduleAt(s, e) \/ Woken(s, t) = s
  BY DEF Woken
<1> HIDE DEF e
<1> QED
  BY <1>1, <1>2

LEMMA SendNextGains ==
    ASSUME SimInv, SendNext
    PROVE  \E N : /\ Gains(fes', Tail(fes), {ToStack(Head(fes).time, Source, GoBackNSender,
                                                     Data(snd.nextSendSeqNo))}, N)
                  /\ TimersOf(N, {timer0, timer1})
                  /\ \A e \in N : e.to = timer1 => e.time = Head(fes).time + par.timeout
<1> DEFINE t == Head(fes).time
           s == Tail(fes)
           seqNo == snd.nextSendSeqNo
           buffer == [i \in DOMAIN snd.packetBuffer \cup {seqNo} |->
                        IF i = seqNo THEN t + par.timeout ELSE snd.packetBuffer[i]]
           first == t + par.timeout < snd.timerExpiration
           again == IF seqNo + 1 >= snd.lastAckSeqNo + par.window
                       THEN Never ELSE t + par.interval
           packet == ToStack(t, Source, GoBackNSender, Data(seqNo))
           sent == scheduleAt(s, packet)
           cancelled == cancelEvent(sent, timer1)
           e1 == Event(t + par.timeout, 0, timer1, <<>>)
           e0 == Event(again, 0, timer0, <<>>)
           timed == IF first THEN scheduleAt(cancelled, e1) ELSE sent
           events == IF again = Never THEN timed ELSE scheduleAt(timed, e0)
           expiration == IF first THEN t + par.timeout ELSE snd.timerExpiration
           new == [snd EXCEPT !.packetBuffer = buffer, !.nextSendSeqNo = seqNo + 1,
                              !.nextSendTime = again, !.timerExpiration = expiration]
           asserted == /\ t = snd.nextSendTime
                       /\ seqNo < snd.lastAckSeqNo + par.window
                       /\ \A i \in DOMAIN snd.packetBuffer : seqNo >= Min(DOMAIN snd.packetBuffer)
                       /\ Cardinality(DOMAIN buffer) =< par.window
<1>1. Arrives("timer0") /\ SenderStep(new, events, asserted)
  BY DEF SendNext
<1> HIDE DEF asserted, new
<1>8. fes' = events
  BY <1>1 DEF SenderStep
<1>2. Gains(s, s, {}, {}) /\ t \in Int /\ par \in Parameters
  BY <1>1, HandledList
<1>3. t + par.timeout \in Int /\ again \in Int
  BY <1>2, ParametersType, SourceFacts
<1> HIDE DEF t, again, first, s
<1>4. Gains(sent, s, {packet}, {})
  <2>1. Gains(sent, s, {} \cup {packet}, {})
    BY <1>2, SendGains
  <2> QED
    BY <2>1
<1> HIDE DEF sent, packet
<1>5. Gains(cancelled, s, {packet}, {})
  BY <1>4, TimersPlain, CancelGains
<1> HIDE DEF cancelled
<1>7. timer0[1] \notin {"stack", "queue", "appl"} /\ timer1[1] \notin {"stack", "queue", "appl"}
  BY TimersPlain
<1>6. /\ Gains(scheduleAt(cancelled, e1), s, {packet}, {} \cup {e1})
      /\ e1.to = timer1 /\ e1.prio = 0 /\ e1.time = t + par.timeout
  BY <1>3, <1>5, <1>7, StartGains
<1>9. PICK M : Gains(timed, s, {packet}, M) /\ M \subseteq {e1}
  <2>1. Gains(timed, s, {packet}, {} \cup {e1}) \/ Gains(timed, s, {packet}, {})
    BY <1>4, <1>6
  <2> HIDE DEF timed, e1
  <2>2. {} \cup {e1} \subseteq {e1} /\ {} \subseteq {e1}
    OBVIOUS
  <2> QED
    BY <2>1, <2>2
<1> HIDE DEF timed, e1
<1>10. /\ Gains(scheduleAt(timed, e0), s, {packet}, M \cup {e0})
       /\ e0.to = timer0 /\ e0.prio = 0
  BY <1>3, <1>9, <1>7, StartGains
<1> HIDE DEF e0
<1>11. PICK N : Gains(events, s, {packet}, N) /\ N \subseteq {e0, e1}
  <2>1. Gains(events, s, {packet}, M \cup {e0}) \/ Gains(events, s, {packet}, M)
    BY <1>9, <1>10
  <2> HIDE DEF events
  <2> QED
    BY <1>9, <2>1
<1> HIDE DEF events
<1>12. \A e \in N : e.to \in {timer0, timer1} /\ e.prio = 0 /\ (e.to = timer1 => e.time = t + par.timeout)
  BY <1>6, <1>10, <1>11, TwoTimers
<1> QED
  BY <1>8, <1>11, <1>12 DEF TimersOf, packet, t, s

LEMMA ExpireGains ==
    ASSUME SimInv, Expire
    PROVE  \E N : Gains(fes', Tail(fes), {}, N) /\ TimersOf(N, {timer0})
<1> DEFINE t == Head(fes).time
           s == Tail(fes)
           new == [snd EXCEPT !.nextSendTime = WokenAt(t), !.nextSendSeqNo = snd.lastAckSeqNo,
                              !.timerExpiration = Never,
                              !.packetBuffer = [i \in DOMAIN snd.packetBuffer |-> Never]]
           events == cancelEvent(Woken(s, t), timer1)
           asserted == t = snd.timerExpiration
<1>1. Arrives("timer1") /\ SenderStep(new, events, asserted)
  BY DEF Expire
<1> HIDE DEF asserted, new
<1>2. Gains(s, s, {}, {}) /\ t \in Int
  BY <1>1, HandledList
<1>3. fes' = events
  BY <1>1 DEF SenderStep
<1> HIDE DEF t, s
<1>4. PICK e : /\ e.to = timer0 /\ e.prio = 0
               /\ Gains(Woken(s, t), s, {}, {} \cup {e}) \/ Gains(Woken(s, t), s, {}, {})
  BY <1>2, WokenGains
<1>5. PICK N : Gains(Woken(s, t), s, {}, N) /\ TimersOf(N, {timer0})
  BY <1>4 DEF TimersOf
<1>6. Gains(events, s, {}, N)
  BY <1>5, TimersPlain, CancelGains
<1> QED
  BY <1>3, <1>5, <1>6 DEF s

\* An acknowledgement, and what the sender makes of it.
LEMMA AckGains ==
    ASSUME SimInv, ReceiveAck
    PROVE  LET h == Head(fes)  e == h.msg.seqNo IN
           \E N :
           /\ Gains(fes', Tail(fes), {}, N) /\ TimersOf(N, {timer0, timer1})
           /\ \/ /\ snd' = snd /\ (\A f \in N : f.to # timer1)
                 /\ h.msg.bitError \/ h.msg.id # "ack"
              \/ /\ snd' = [snd EXCEPT !.nextSendTime = WokenAt(h.time),
                                       !.nextSendSeqNo = snd.lastAckSeqNo]
                 /\ (\A f \in N : f.to # timer1) /\ e = snd.lastAckSeqNo
              \/ /\ snd'.lastAckSeqNo = e /\ e # snd.lastAckSeqNo
                 /\ ~aborted' => e > snd.lastAckSeqNo /\ \A f \in N : f.to = timer1 => f.time > h.time
<1> DEFINE t == Head(fes).time
           s == Tail(fes)
           p == Head(fes).msg
           e == p.seqNo
<1>1. Arrives("appl") /\ Head(fes).to = <<"appl", Source, GoBackNSender>>
  BY DEF ReceiveAck
<1>2. Gains(s, s, {}, {}) /\ t \in Int
  BY <1>1, HandledList
<1>3. CASE (p.bitError \/ p.id # "ack") /\ SenderStep(snd, s, p.id = "ack")
  <2>1. fes' = s /\ snd' = snd
    BY <1>3 DEF SenderStep
  <2>2. TimersOf({}, {timer0, timer1}) /\ \A f \in {} : f.to # timer1
    BY DEF TimersOf
  <2> QED
    BY <1>2, <1>3, <2>1, <2>2
<1>4. CASE e = snd.lastAckSeqNo /\ Rejected(t)
  <2> DEFINE new == [snd EXCEPT !.nextSendTime = WokenAt(t), !.nextSendSeqNo = snd.lastAckSeqNo]
             events == Woken(s, t)
  <2>1. SenderStep(new, events, TRUE)
    BY <1>4 DEF Rejected
  <2>2. fes' = events /\ snd' = new
    BY <2>1 DEF SenderStep
  <2> HIDE DEF new, t, s
  <2>3. PICK f : /\ f.to = timer0 /\ f.prio = 0
                 /\ Gains(Woken(s, t), s, {}, {} \cup {f}) \/ Gains(Woken(s, t), s, {}, {})
    BY <1>2, WokenGains
  <2>4. PICK N : Gains(events, s, {}, N) /\ TimersOf(N, {timer0, timer1}) /\ \A g \in N : g.to # timer1
    BY <2>3, TwoTimers DEF TimersOf
  <2> QED
    BY <1>4, <2>2, <2>4 DEF s, t, new
<1>5. CASE e # snd.lastAckSeqNo /\ Acknowledged(t, e)
  <2> DEFINE buffer == [i \in DOMAIN snd.packetBuffer \ (snd.lastAckSeqNo .. e - 1) |->
                           snd.packetBuffer[i]]
             waiting == snd.nextSendSeqNo > e
             expiration == IF ~waiting THEN Never ELSE IF e \in DOMAIN buffer THEN buffer[e] ELSE -1
             idle == cancelEvent(s, timer1)
             e1 == Event(expiration, 0, timer1, <<>>)
             timed == IF waiting THEN scheduleAt(idle, e1) ELSE idle
             last == Max({snd.nextSendSeqNo, e})
             new == [snd EXCEPT !.packetBuffer = buffer, !.lastAckSeqNo = e,
                                !.nextSendSeqNo = last,
                                !.timerExpiration = expiration,
                                !.nextSendTime = WokenAt(t)]
             events == Woken(timed, t)
             asserted == /\ e > snd.lastAckSeqNo
                         /\ snd.lastAckSeqNo .. e - 1 \subseteq DOMAIN snd.packetBuffer
                         /\ waiting => expiration > t /\ expiration > 0
  <2>1. SenderStep(new, events, asserted)
    BY <1>5 DEF Acknowledged
  <2>2. buffer \in Buffer /\ snd \in SenderType
    BY BufferType DEF SimInv, NodesOK, SenderType
  <2> HIDE DEF buffer
  <2>3. expiration \in Int
    <3>1. \A i \in DOMAIN buffer : buffer[i] \in Int
      BY <2>2, BufferType
    <3> QED
      BY <3>1, SourceFacts
  <2> HIDE DEF expiration, waiting, last
  <2>4. new.lastAckSeqNo = e
    BY <2>2 DEF SenderType
  <2> HIDE DEF new
  <2>5. fes' = events /\ snd'.lastAckSeqNo = e /\ (~aborted' => asserted)
    BY <2>1, <2>4 DEF SenderStep
  <2> HIDE DEF t, s
  <2>6. Gains(idle, s, {}, {})
    BY <1>2, TimersPlain, CancelGains
  <2> HIDE DEF idle
  <2>13. timer1[1] \notin {"stack", "queue", "appl"}
    BY TimersPlain
  <2>7. /\ Gains(scheduleAt(idle, e1), s, {}, {} \cup {e1})
        /\ e1.to = timer1 /\ e1.prio = 0 /\ e1.time = expiration
    BY <2>3, <2>6, <2>13, StartGains
  <2>8. PICK M : Gains(timed, s, {}, M) /\ M \subseteq {e1} /\ (waiting \/ M = {})
    <3>1. (waiting /\ Gains(timed, s, {}, {} \cup {e1})) \/ Gains(timed, s, {}, {})
      BY <2>6, <2>7
    <3> HIDE DEF timed, e1
    <3>2. {} \cup {e1} \subseteq {e1} /\ {} \subseteq {e1}
      OBVIOUS
    <3> QED
      BY <3>1, <3>2
  <2> HIDE DEF timed, e1
  <2>9. PICK e0 : /\ e0.to = timer0 /\ e0.prio = 0
                  /\ Gains(events, s, {}, M \cup {e0}) \/ Gains(events, s, {}, M)
    BY <1>2, <2>8, WokenGains
  <2> HIDE DEF events
  <2>10. PICK N : Gains(events, s, {}, N) /\ M \subseteq N /\ N \subseteq M \cup {e0}
    BY <2>9
  <2>11. TimersOf(N, {timer0, timer1})
    BY <2>7, <2>8, <2>9, <2>10 DEF TimersOf
  <2>12. ASSUME ~aborted', NEW f \in N, f.to = timer1 PROVE f.time > t
    <3>1. f = e1 /\ waiting
      BY <2>8, <2>9, <2>10, <2>12, TwoTimers
    <3> QED
      BY <2>5, <2>7, <2>12, <3>1
  <2> QED
    BY <1>5, <2>5, <2>10, <2>11, <2>12 DEF s, t
<1> QED
  BY <1>3, <1>4, <1>5 DEF ReceiveAck

\* An acknowledgement of the receiver, if it sends one.
LEMMA DataGains ==
    ASSUME SimInv, ReceiveData
    PROVE  LET h == Head(fes)
               last == rcv.lastReceivedSeqNo
               E(i) == {ToStack(h.time, Sink, GoBackNReceiver, Ack(h.msg, i))}
           IN  /\ last \in Nat \cup {-1} /\ h.msg \in Message
               /\ \/ rcv' = rcv /\ Gains(fes', Tail(fes), {}, {})
                  \/ rcv' = rcv /\ Gains(fes', Tail(fes), E(last + 1), {})
                  \/ /\ rcv'.lastReceivedSeqNo = last + 1 /\ h.msg.seqNo = last + 1
                     /\ Gains(fes', Tail(fes), E(last + 2), {})
<1> DEFINE h == Head(fes)
           t == h.time
           s == Tail(fes)
           p == h.msg
           last == rcv.lastReceivedSeqNo
           next == ~p.bitError /\ p.seqNo = last + 1
           gap == ~p.bitError /\ par.sendNack /\ p.seqNo = last + 2
           e(i) == ToStack(t, Sink, GoBackNReceiver, Ack(p, i))
<1>1. /\ Arrives("appl") /\ h.to = <<"appl", Sink, GoBackNReceiver>>
      /\ rcv' = [lastReceivedSeqNo |-> IF next THEN last + 1 ELSE last]
      /\ fes' = IF next \/ gap THEN scheduleAt(s, e(IF next THEN last + 2 ELSE last + 1)) ELSE s
  BY DEF ReceiveData
<1>2. Gains(s, s, {}, {}) /\ t \in Int /\ EventOK(h)
  BY <1>1, HandledList
<1>3. rcv \in [lastReceivedSeqNo : Nat \cup {-1}] /\ last \in Nat \cup {-1}
  BY DEF SimInv, NodesOK
<1>4. p \in Message
  <2>1. h.to[1] = "appl" /\ h.to[3] = GoBackNReceiver
    BY <1>1
  <2> HIDE DEF h
  <2>2. h.msg \in Message \/ h.to[3] = RoutingDaemon
    BY <1>2, <2>1, Kinds
  <2> QED
    BY <2>1, <2>2 DEF GoBackNReceiver, RoutingDaemon
<1> HIDE DEF s, t, p
<1>5. ASSUME NEW i PROVE Gains(scheduleAt(s, e(i)), s, {e(i)}, {})
  <2> HIDE DEF e
  <2>1. e(i) = ToStack(t, Sink, GoBackNReceiver, Ack(p, i)) /\ e(i) \notin {}
    BY DEF e
  <2>2. Gains(scheduleAt(s, e(i)), s, {} \cup {e(i)}, {})
    BY <1>2, <2>1, SendGains
  <2> QED
    BY <2>2
<1> HIDE DEF e
<1>6. CASE next
  BY <1>1, <1>3, <1>4, <1>5, <1>6 DEF e, s, t, p
<1>7. CASE ~next /\ gap
  <2>1. rcv' = rcv
    BY <1>1, <1>3, <1>7
  <2>2. fes' = scheduleAt(s, e(last + 1))
    BY <1>1, <1>7
  <2> QED
    BY <1>3, <1>4, <1>5, <2>1, <2>2 DEF e, s, t, p
<1>8. CASE ~next /\ ~gap
  <2>1. rcv' = rcv
    BY <1>1, <1>3, <1>8
  <2>2. fes' = s
    BY <1>1, <1>8
  <2> QED
    BY <1>2, <1>3, <1>4, <2>1, <2>2 DEF s, p
<1> QED
  BY <1>6, <1>7, <1>8

\* What the activity of a node does to the list, and to its variables a.
Waits(n, a, t, r, E) ==
    \E N : \E i \in Nat :
       /\ TimersOf(N, {<<"pingtimer", n>>})
       /\ \/ /\ n \in Pingers /\ Ping(n, i) \in Message
             /\ Gains(fes', r, E \cup {ToStack(t, n, PingPongAppl, Ping(n, i))}, N)
             /\ \E x : ping' = [ping EXCEPT ![n] = x] /\ x.sent = a.sent + 1 /\ x.received = a.received
          \/ Gains(fes', r, E, N) /\ ping' = [ping EXCEPT ![n] = a]

\* The activity of PingPongAppl sends a ping, if it is time.
LEMMA WaitGains ==
    ASSUME SimInv, NEW n \in Node, NEW a \in PingType, n \notin Pingers => a.nextSend = Never,
           NEW t \in Int, t =< par.limit,
           NEW r, NEW events, NEW E, Gains(events, r, E, {}), Wait(n, a, t, events),
           \A i : ToStack(t, n, PingPongAppl, Ping(n, i)) \notin E
    PROVE  Waits(n, a, t, r, E)
<1> DEFINE due == a.nextSend =< t
           next == IF due THEN t + par.pingInterval ELSE a.nextSend
           to == <<"pingtimer", n>>
           i == a.lastSentSeqNo + 1
           p == Ping(n, i)
           idle == cancelEvent(events, to)
           e == ToStack(t, n, PingPongAppl, p)
           f == Event(next, 0, to, <<>>)
           pinged == IF due THEN scheduleAt(idle, e) ELSE idle
           b == [a EXCEPT !.lastSentSeqNo = @ + 1, !.sent = @ + 1, !.nextSend = next]
<1>1. /\ ping' = [ping EXCEPT ![n] = IF due THEN b ELSE a]
      /\ fes' = IF next = Never THEN pinged ELSE scheduleAt(pinged, f)
  BY DEF Wait
<1>2. /\ a.nextSend \in Int /\ i \in Nat /\ a.sent \in Int
  BY DEF PingType
<1>3. par \in Parameters /\ par.pingInterval \in Nat /\ par.limit < Never /\ par.limit \in Nat
  BY ParametersType DEF SimInv, TimeOK
<1>4. next \in Int
  BY <1>2, <1>3
<1>5. due => n \in Pingers
  BY <1>2, <1>3, SourceFacts
<1>6. due => p \in Message
  <2>1. due => par.pingDest[n] \in Int
    BY <1>3, <1>5, ParametersAssumption DEF Pingers
  <2> QED
    BY <1>2, <2>1, SourceFacts, PacketType DEF Ping
<1>7. to[1] \notin {"stack", "queue", "appl"} /\ to = <<"pingtimer", n>>
  OBVIOUS
<1>8. b.sent = a.sent + 1 /\ b.received = a.received
  BY DEF PingType
<1> HIDE DEF due, next, b, to
<1>9. Gains(idle, r, E, {})
  BY <1>7, CancelGains
<1> HIDE DEF idle
<1>10. e \notin E
  OBVIOUS
<1>11. Gains(scheduleAt(idle, e), r, E \cup {e}, {})
  BY <1>9, <1>10, SendGains
<1> HIDE DEF e, p
<1>12. PICK F : /\ Gains(pinged, r, F, {})
                /\ (F = E \cup {e} /\ due) \/ (F = E /\ ~due)
  BY <1>9, <1>11
<1> HIDE DEF pinged
<1>13. Gains(scheduleAt(pinged, f), r, F, {} \cup {f}) /\ f.to = to /\ f.prio = 0
  <2> DEFINE N == {}
             g == Event(next, 0, to, <<>>)
  <2>1. Gains(pinged, r, F, N)
    BY <1>12
  <2> HIDE DEF N, f
  <2>2. Gains(scheduleAt(pinged, g), r, F, N \cup {g}) /\ g.to = to /\ g.prio = 0
    <3>1. to[1] \notin {"stack", "queue", "appl"}
      BY <1>7
    <3>2. /\ Gains(scheduleAt(pinged, Event(next, 0, to, <<>>)), r, F,
                   N \cup {Event(next, 0, to, <<>>)})
          /\ Event(next, 0, to, <<>>).to = to /\ Event(next, 0, to, <<>>).prio = 0
      BY <1>4, <2>1, <3>1, StartGains
    <3> QED
      BY <3>2
  <2>3. g = f
    BY DEF f
  <2> QED
    BY <2>2, <2>3 DEF N
<1> HIDE DEF f
<1>14. PICK N : Gains(fes', r, F, N) /\ TimersOf(N, {to})
  <2>1. TimersOf({}, {to}) /\ TimersOf({} \cup {f}, {to})
    BY <1>13 DEF TimersOf
  <2> QED
    BY <1>1, <1>12, <1>13, <2>1
<1>15. CASE F = E \cup {e} /\ due
  <2>1. ping' = [ping EXCEPT ![n] = b]
    BY <1>1, <1>15
  <2> HIDE DEF i
  <2>2. i \in Nat /\ e = ToStack(t, n, PingPongAppl, Ping(n, i)) /\ Ping(n, i) \in Message /\ n \in Pingers
    BY <1>2, <1>5, <1>6, <1>15 DEF e, p
  <2>3. Gains(fes', r, E \cup {ToStack(t, n, PingPongAppl, Ping(n, i))}, N)
        /\ TimersOf(N, {<<"pingtimer", n>>})
    BY <1>7, <1>14, <1>15, <2>2
  <2> QED
    BY <1>8, <2>1, <2>2, <2>3 DEF Waits
<1>16. CASE F = E /\ ~due
  <2>1. ping' = [ping EXCEPT ![n] = a]
    BY <1>1, <1>16
  <2> HIDE DEF i
  <2>2. Gains(fes', r, E, N) /\ TimersOf(N, {<<"pingtimer", n>>})
    BY <1>7, <1>14, <1>16
  <2> QED
    BY <1>2, <2>1, <2>2 DEF Waits
<1> QED
  BY <1>12, <1>15, <1>16

LEMMA PingTimerGains ==
    ASSUME SimInv, PingTimer
    PROVE  LET n == Head(fes).to[2] IN n \in Node /\ Waits(n, ping[n], Head(fes).time, Tail(fes), {})
<1> DEFINE h == Head(fes)
           t == h.time
           s == Tail(fes)
           n == h.to[2]
<1>1. Arrives("pingtimer") /\ Wait(n, ping[n], t, s)
  BY DEF PingTimer
<1>2. Gains(s, s, {}, {}) /\ t \in Int /\ t =< par.limit /\ EventOK(h) /\ h.to[1] = "pingtimer"
  BY <1>1, HandledList DEF Arrives
<1>3. n \in Node
  <2> HIDE DEF h
  <2> QED
    BY <1>2, Kinds
<1> HIDE DEF h
<1>4. ping[n] \in PingType /\ (n \notin Pingers => ping[n].nextSend = Never)
  BY <1>3 DEF SimInv, NodesOK
<1> HIDE DEF s, t, n
<1>5. Waits(n, ping[n], t, s, {})
  BY <1>1, <1>2, <1>3, <1>4, WaitGains
<1> QED
  BY <1>3, <1>5 DEF n, t, s, h

LEMMA PingGains ==
    ASSUME SimInv, ReceivePing
    PROVE  LET n == Head(fes).to[2]  p == Head(fes).msg IN
           /\ n \in Node /\ p \in Message
           /\ IF p.reply
                 THEN Waits(n, [ping[n] EXCEPT !.received = @ + 1], Head(fes).time, Tail(fes), {})
                 ELSE Waits(n, ping[n], Head(fes).time, Tail(fes),
                            {ToStack(Head(fes).time, n, PingPongAppl, Pong(p))})
<1> DEFINE h == Head(fes)
           t == h.time
           s == Tail(fes)
           n == h.to[2]
           p == h.msg
           a == IF p.reply THEN [ping[n] EXCEPT !.received = @ + 1] ELSE ping[n]
           e == ToStack(t, n, PingPongAppl, Pong(p))
           events == IF p.reply THEN s ELSE scheduleAt(s, e)
           E == IF p.reply THEN {} ELSE {e}
<1>1. Arrives("appl") /\ h.to[3] = PingPongAppl /\ Wait(n, a, t, events)
  BY DEF ReceivePing
<1>2. Gains(s, s, {}, {}) /\ t \in Int /\ t =< par.limit /\ EventOK(h) /\ h.to[1] = "appl"
  BY <1>1, HandledList DEF Arrives
<1>3. n \in Node /\ p \in Message
  <2> HIDE DEF h
  <2>1. h.to[2] \in Node /\ (h.msg \in Message \/ h.to[3] = RoutingDaemon)
    BY <1>2, Kinds
  <2> QED
    BY <1>1, <2>1 DEF PingPongAppl, RoutingDaemon
<1> HIDE DEF h
<1>4. ping[n] \in PingType /\ (n \notin Pingers => ping[n].nextSend = Never)
  BY <1>3 DEF SimInv, NodesOK
<1> HIDE DEF n, p
<1>5. a \in PingType /\ (n \notin Pingers => a.nextSend = Never)
  <2> DEFINE x == ping[n].received + 1
  <2>1. x \in Int
    BY <1>4 DEF PingType
  <2> HIDE DEF x
  <2>2. LET b == [ping[n] EXCEPT !.received = x] IN b \in PingType /\ b.nextSend = ping[n].nextSend
    BY <1>4, <2>1 DEF PingType
  <2>3. a = ping[n] \/ a = [ping[n] EXCEPT !.received = x]
    BY DEF x
  <2> QED
    BY <1>4, <2>2, <2>3
<1> HIDE DEF t, s
<1>6. Gains(scheduleAt(s, e), s, {e}, {})
  <2>1. ToStack(t, n, PingPongAppl, Pong(p)) \notin {}
    OBVIOUS
  <2>2. Gains(scheduleAt(s, ToStack(t, n, PingPongAppl, Pong(p))), s,
              {} \cup {ToStack(t, n, PingPongAppl, Pong(p))}, {})
    BY <1>2, <2>1, SendGains
  <2> QED
    BY <2>2
<1>7. \A i : ToStack(t, n, PingPongAppl, Ping(n, i)) # e
  <2>1. Pong(p).reply = TRUE /\ e.msg = Pong(p)
    BY <1>3 DEF Pong, Message, ToStack, Event
  <2>2. \A i : Ping(n, i).reply = FALSE /\ ToStack(t, n, PingPongAppl, Ping(n, i)).msg = Ping(n, i)
    BY DEF Ping, NetworkPacket, ToStack, Event
  <2> HIDE DEF e
  <2> QED
    BY <2>1, <2>2
<1>8. Gains(events, s, E, {}) /\ \A i : ToStack(t, n, PingPongAppl, Ping(n, i)) \notin E
  <2> HIDE DEF e
  <2> QED
    BY <1>2, <1>6, <1>7
<1> HIDE DEF e
<1>10. Wait(n, a, t, events)
  BY <1>1 DEF n, p, t, s, e
<1> HIDE DEF events, E, a
<1>9. Waits(n, a, t, s, E)
  BY <1>2, <1>3, <1>5, <1>8, <1>10, WaitGains
<1> QED
  BY <1>3, <1>9 DEF n, t, s, h, p, a, E, e

LEMMA ConParGains ==
    ASSUME SimInv, NEW l \in Link, NEW value, ConPar(l, value)
    PROVE  /\ Gains(fes', fes, {LinkChanged(now, l[1])}, {})
           /\ LET e == LinkChanged(now, l[1]) IN
              e.to = <<"stack", l[1], Local>> /\ e.msg = Notice /\ e.prio = -1 /\ l[1] \in Node
<1> DEFINE e == LinkChanged(now, l[1])
<1>1. fes' = scheduleAt(fes, e) /\ IsList(fes) /\ now \in Int /\ l[1] \in Node
  BY ParametersType DEF ConPar, SimInv, TimeOK, ListOK, Link
<1>2. e.to = <<"stack", l[1], Local>> /\ e.msg = Notice /\ e.prio = -1 /\ e.time = now
  BY DEF LinkChanged, Event, Notice
<1> HIDE DEF e
<1>3. Gains(fes, fes, {}, {}) /\ e \notin {} /\ Carries(e)
  BY <1>1, <1>2, GainsNothing DEF Carries
<1>4. e.time \in Int /\ e.prio \in Int
  BY <1>1, <1>2
<1>5. Gains(scheduleAt(fes, e), fes, {} \cup {e}, {})
  BY <1>3, <1>4, PacketGains
<1>6. {} \cup {e} = {e}
  OBVIOUS
<1> QED
  BY <1>1, <1>2, <1>5, <1>6 DEF e

\* What arrives when a link begins at t to send m.
Damaged(m, b) == [m EXCEPT !.bitError = @ \/ b]
Arrival(l, t, m, b) ==
    Event(t + duration[l][m.id] + delay[l], 0, <<"stack", l[2], FromNet>>, Damaged(m, b))

LEMMA DamagedMessage ==
    ASSUME NEW m \in Message, NEW b \in BOOLEAN
    PROVE  /\ Damaged(m, b) \in Message
           /\ Damaged(m, b) = [m EXCEPT !.bitError = m.bitError \/ b]
           /\ \A f \in {"id", "seqNo", "reply", "srcNode", "srcAppl", "destNode", "destAppl",
                        "lastNode", "TTL"} : Damaged(m, b)[f] = m[f]
           /\ Damaged(m, b).bitError = (m.bitError \/ b)
           /\ Damaged(m, FALSE) = m
<1> DEFINE c == m.bitError \/ b
<1>1. c \in BOOLEAN
  BY DEF Message
<1>2. Damaged(m, b) = [m EXCEPT !.bitError = c]
  BY DEF Damaged
<1>4. (m.bitError \/ FALSE) = m.bitError
  BY DEF Message
<1>3. Damaged(m, FALSE) = m
  BY <1>4 DEF Damaged, Message
<1> HIDE DEF c
<1>5. [m EXCEPT !.bitError = c] \in Message /\ [m EXCEPT !.bitError = c].bitError = c
  BY <1>1 DEF Message
<1>6. ASSUME NEW f \in {"id", "seqNo", "reply", "srcNode", "srcAppl", "destNode", "destAppl",
                        "lastNode", "TTL"} PROVE [m EXCEPT !.bitError = c][f] = m[f]
  BY <1>1 DEF Message
<1> QED
  BY <1>2, <1>3, <1>5, <1>6 DEF c

LEMMA LinkTimes ==
    ASSUME NEW l \in Link, NEW m \in Message
    PROVE  /\ duration[l][m.id] \in Nat \ {0} /\ delay[l] \in Nat
           /\ l[1] \in Node /\ l[2] \in Node /\ l = <<l[1], l[2]>>
<1>1. m.id \in {"data", "ack", "ping"}
  BY DEF Message
<1> QED
  BY <1>1, SimulationAssumption DEF Link

LEMMA TransmitGains ==
    ASSUME SimInv, NEW kind, Arrives(kind), NEW l \in Link, NEW r,
           NEW m \in Message, r.send = <<m>>, Transmit(l, r)
    PROVE  LET t == Head(fes).time  u == t + duration[l][m.id] IN
           /\ finishes' = [finishes EXCEPT ![l] = u]
           /\ aborted' = (isScheduled(Tail(fes), timeout(l)) \/ ~Q!Detected(r.q, par))
           /\ \E b \in BOOLEAN :
                 /\ Gains(fes', Tail(fes), {Arrival(l, t, m, b)}, {TimeoutEvent(u, l)})
                 /\ lost' = IF b /\ m.id # "ping" THEN Count(m) ELSE lost
<1> DEFINE t == Head(fes).time
           s == Tail(fes)
           D == IF l \in errorLinks /\ faults < par.faults THEN BOOLEAN ELSE {FALSE}
           msg(b) == [Head(r.send) EXCEPT !.bitError = @ \/ b]
           end(b) == t + duration[l][msg(b).id]
           arrival(b) == Event(end(b) + delay[l], 0, <<"stack", l[2], FromNet>>, msg(b))
           u == t + duration[l][m.id]
<1>0. r.send # <<>> /\ Head(r.send) = m
  OBVIOUS
<1>1. PICK b \in D :
         /\ finishes' = [finishes EXCEPT ![l] = end(b)]
         /\ fes' = scheduleAt(scheduleAt(s, arrival(b)), TimeoutEvent(end(b), l))
         /\ lost' = IF b /\ msg(b).id # "ping" THEN Count(msg(b)) ELSE lost
         /\ aborted' = (isScheduled(s, timeout(l)) \/ ~Q!Detected(r.q, par))
  BY <1>0 DEF Transmit, timeout
<1>2. Gains(s, s, {}, {}) /\ t \in Int
  BY HandledList
<1>3. b \in BOOLEAN
  OBVIOUS
<1>4. msg(b) = Damaged(m, b) /\ msg(b).id = m.id /\ msg(b) \in Message
  BY <1>0, <1>3, DamagedMessage DEF Damaged
<1> HIDE DEF D, msg, s
<1>5. Count(msg(b)) = Count(m) /\ end(b) = u
  BY <1>4 DEF Count
<1>6. arrival(b) = Arrival(l, t, m, b)
  BY <1>4, <1>5 DEF Arrival
<1> DEFINE e == Arrival(l, t, m, b)
           f == TimeoutEvent(u, l)
           mid == scheduleAt(s, e)
<1>7. u \in Int /\ u + delay[l] \in Int
  BY <1>2, LinkTimes
<1>8. e.time = u + delay[l] /\ e.prio = 0 /\ e.to[1] = "stack"
  BY DEF Arrival, Event
<1>9. f.time = u /\ f.prio \in Int /\ f.to[1] = "timeout"
  BY DEF TimeoutEvent, Event, INT_MIN
<1>10. fes' = scheduleAt(mid, f)
  BY <1>1, <1>5, <1>6
<1>11. /\ finishes' = [finishes EXCEPT ![l] = u]
       /\ lost' = IF b /\ m.id # "ping" THEN Count(m) ELSE lost
       /\ aborted' = (isScheduled(s, timeout(l)) \/ ~Q!Detected(r.q, par))
  BY <1>1, <1>4, <1>5
<1> HIDE DEF e, f, u, end, arrival
<1>12. Carries(e) /\ ~Carries(f) /\ e \notin {}
  BY <1>8, <1>9 DEF Carries
<1>13. Gains(mid, s, {} \cup {e}, {})
  BY <1>2, <1>7, <1>8, <1>12, PacketGains
<1> HIDE DEF mid
<1>14. Gains(fes', s, {} \cup {e}, {} \cup {f})
  BY <1>7, <1>9, <1>10, <1>12, <1>13, TimerGains
<1>15. {} \cup {e} = {e} /\ {} \cup {f} = {f}
  OBVIOUS
<1>16. Gains(fes', s, {e}, {f})
  BY <1>14, <1>15
<1> QED
  BY <1>3, <1>11, <1>16 DEF e, f, u, s, t

(***************************************************************************)
(* What a stack does with the packet it handles.                           *)
(***************************************************************************)
StackOut == LET h == Head(fes) IN handleMessage(h.to[2], h.to[3], h.msg, routes[h.to[2]]).out
PassedOn(o) == Event(Head(fes).time, Head(fes).prio, o.to, o.msg)

LEMMA StackAdds ==
    ASSUME SimInv, StackHandles
    PROVE  LET sent == {PassedOn(o) : o \in ToSet(StackOut)} IN
           /\ Adds(fes', Tail(fes), sent, {})
           /\ \A e \in sent : Carries(e) /\ e.time = Head(fes).time /\ e.prio = Head(fes).prio
           /\ Head(fes).to[2] \in Node /\ Head(fes).to[3] \in Int
           /\ Head(fes).msg \in Message \/ (Head(fes).to[3] = Local /\ Head(fes).msg = Notice)
           /\ StackOut = <<>> => Gains(fes', Tail(fes), {}, {})
           /\ \A o : StackOut = <<o>> => Gains(fes', Tail(fes), {PassedOn(o)}, {})
<1> DEFINE h == Head(fes)
           s == Tail(fes)
           out == StackOut
           events == [i \in DOMAIN out |-> PassedOn(out[i])]
           sent == {PassedOn(o) : o \in ToSet(out)}
<1>1. Arrives("stack") /\ fes' = scheduleAll(s, events)
  BY DEF StackHandles, StackOut, PassedOn
<1>2. Gains(s, s, {}, {}) /\ h.time \in Int /\ EventOK(h) /\ h.to[1] = "stack" /\ IsList(s)
  BY <1>1, HandledList DEF Gains, Adds
<1>3. /\ h.to[2] \in Node /\ h.prio \in Int /\ h.to[3] \in Int
      /\ h.msg \in Message \/ (h.to[3] = Local /\ h.msg = Notice)
  <2> HIDE DEF h
  <2>1. h.to[2] \in Node /\ (h.msg \in Message \/ (h.to[3] = Local /\ h.msg = Notice))
    BY <1>2, Kinds
  <2>2. ToTheStack(h.to, h.msg)
    <3>1. \A l \in Link : timeout(l)[1] = "timeout"
      BY DEF timeout
    <3>2. ~ATimer(h.to)
      BY <1>2 DEF ATimer, timer0, timer1
    <3>3. ~Passed(h.to, h.msg)
      BY <1>2 DEF Passed
    <3> QED
      BY <1>2, <3>1, <3>2, <3>3 DEF EventOK
  <2>3. h.to[3] \in Int
    BY <2>2 DEF ToTheStack
  <2> QED
    BY <1>2, <2>1, <2>3 DEF EventOK
<1>4. out \in Seq(ToSet(out)) /\ \A o \in ToSet(out) : Passed(o.to, o.msg)
  <2>1. RoutesOK(routes[h.to[2]], h.to[2])
    BY <1>3 DEF SimInv, NodesOK
  <2>2. out = handleMessage(h.to[2], h.to[3], h.msg, routes[h.to[2]]).out
    BY DEF StackOut
  <2> HIDE DEF h, out
  <2> QED
    BY <1>3, <2>1, <2>2, StackPasses
<1>5. \A o : PassedOn(o).time = h.time /\ PassedOn(o).prio = h.prio /\ PassedOn(o).to = o.to
  BY DEF PassedOn, Event
<1> HIDE DEF out, h, s
<1>6. \A e \in sent : e.time = h.time /\ e.prio = h.prio /\ Carries(e)
  <2>1. \A o \in ToSet(out) : o.to[1] \in {"stack", "queue", "appl"}
    BY <1>4 DEF Passed
  <2> QED
    BY <1>5, <2>1 DEF Carries
<1>7. events \in Seq(ToSet(events)) /\ ToSet(events) = sent /\ Together(events)
  <2>1. DOMAIN events = 1 .. Len(out) /\ Len(out) \in Nat /\ DOMAIN out = 1 .. Len(out)
    BY <1>4
  <2>2. events = [i \in 1 .. Len(out) |-> events[i]]
    BY <2>1
  <2>3. \A i \in DOMAIN events : events[i] = PassedOn(out[i]) /\ out[i] \in ToSet(out)
    BY <2>1, IndexInSet
  <2> HIDE DEF events
  <2>4. \A i \in 1 .. Len(out) : events[i] \in ToSet(events)
    BY <2>1, IndexInSet
  <2>5. events \in Seq(ToSet(events))
    BY <2>1, <2>2, <2>4, IsASeq
  <2>6. ASSUME NEW o \in ToSet(out) PROVE PassedOn(o) \in ToSet(events)
    <3>1. PICK i \in DOMAIN out : out[i] = o
      BY SetIndex
    <3> QED
      BY <2>1, <2>3, <3>1, IndexInSet
  <2>7. ToSet(events) = sent
    BY <2>3, <2>6, SetIndex
  <2>8. Together(events)
    BY <1>5, <2>3 DEF Together
  <2> QED
    BY <2>5, <2>7, <2>8
<1>8. CASE out = <<>>
  <2>1. events = <<>> /\ sent = {}
    BY <1>8 DEF ToSet
  <2>2. fes' = s
    BY <1>1, <2>1 DEF scheduleAll
  <2>3. Gains(fes', s, {}, {})
    BY <1>2, <2>2
  <2>4. \A o : out # <<o>>
    BY <1>8
  <2> HIDE DEF events
  <2> QED
    BY <1>3, <1>6, <2>1, <2>3, <2>4 DEF Gains, h, s, out
<1>9. CASE out # <<>>
  <2> HIDE DEF sent
  <2>5. \A e \in ToSet(events) : e.time \in Int /\ e.prio \in Int
    BY <1>2, <1>3, <1>6, <1>7
  <2> HIDE DEF events
  <2>1. ASSUME NEW a, NEW b, Precedes(fes', a, b)
        PROVE  Precedes(s, a, b) \/ b \in sent \/ (a \in sent /\ ~NotAfter(b, a))
    BY <1>1, <1>2, <1>7, <2>1, <2>5, PutOrder
  <2>2. IsList(fes') /\ ToSet(fes') = ToSet(s) \cup sent
    BY <1>1, <1>2, <1>7, <2>5, ScheduleAll
  <2>3. Adds(fes', s, sent, {})
    BY <1>2, <2>1, <2>2 DEF Adds
  <2>4. ASSUME NEW o, out = <<o>> PROVE Gains(fes', s, {PassedOn(o)}, {})
    <3> DEFINE e == PassedOn(o)
    <3>1. ToSet(out) = {o}
      BY <2>4 DEF ToSet
    <3>2. e \in sent /\ e \notin {}
      BY <3>1 DEF sent
    <3>3. e.time \in Int /\ e.prio \in Int /\ Carries(e)
      BY <1>6, <1>7, <2>5, <3>2
    <3>4. events = <<e>>
      <4>1. events = [i \in DOMAIN out |-> PassedOn(out[i])]
        BY DEF events
      <4>2. DOMAIN out = 1 .. 1 /\ out[1] = o
        BY <2>4
      <4> HIDE DEF e
      <4>3. events = [i \in 1 .. 1 |-> PassedOn(out[1])]
        BY <4>1, <4>2
      <4> QED
        BY <4>2, <4>3 DEF e
    <3>5. fes' = scheduleAt(s, e)
      BY <1>1, <3>4 DEF scheduleAt
    <3> HIDE DEF e
    <3>6. Gains(scheduleAt(s, e), s, {} \cup {e}, {})
      BY <1>2, <3>2, <3>3, PacketGains
    <3>7. {} \cup {e} = {e}
      OBVIOUS
    <3> QED
      BY <3>5, <3>6, <3>7 DEF e
  <2> QED
    BY <1>3, <1>6, <1>9, <2>3, <2>4 DEF h, s, sent, out
<1> QED
  BY <1>8, <1>9

----------------------------------------------------------------------------
(***************************************************************************)
(* The packets of the network and where they are: on their way to a module,*)
(* or waiting for a link.  A step moves some of them.                      *)
(***************************************************************************)
Line(l) == <<"waits", l[1], l[2]>>

Carried ==
    {<<e.to, e.msg>> : e \in {f \in ToSet(fes) : Carries(f)}}
    \cup UNION {{<<Line(l), p>> : p \in ToSet(queue[l].queue)} : l \in Link}

Packets(E) == {<<e.to, e.msg>> : e \in E}

Moves(old, new) ==
    /\ Carried' \subseteq Carried \cup new /\ new \subseteq Carried'
    /\ Carried \subseteq Carried' \cup old

LEMMA InCarried ==
    ASSUME NEW x
    PROVE  x \in Carried <=>
             \/ \E e \in ToSet(fes) : Carries(e) /\ x = <<e.to, e.msg>>
             \/ \E l \in Link : \E p \in ToSet(queue[l].queue) : x = <<Line(l), p>>
BY DEF Carried

LEMMA InCarriedNext ==
    ASSUME NEW x
    PROVE  x \in Carried' <=>
             \/ \E e \in ToSet(fes') : Carries(e) /\ x = <<e.to, e.msg>>
             \/ \E l \in Link : \E p \in ToSet(queue'[l].queue) : x = <<Line(l), p>>
BY DEF Carried, Carries, Line

LEMMA HeadCarried ==
    ASSUME SimInv, fes # <<>>, ~aborted, Carries(Head(fes))
    PROVE  <<Head(fes).to, Head(fes).msg>> \in Carried
<1>1. Head(fes) \in ToSet(fes)
  BY NextEvent DEF SimInv
<1> QED
  BY <1>1 DEF Carried

LEMMA ListMoves ==
    ASSUME SimInv, NEW kind, Arrives(kind), NEW E, NEW N, Adds(fes', Tail(fes), E, N),
           \A e \in E : Carries(e), queue' = queue
    PROVE  Moves({<<Head(fes).to, Head(fes).msg>>}, Packets(E))
<1>1. ToSet(fes) = {Head(fes)} \cup ToSet(Tail(fes))
  BY Handled, NextEvent DEF SimInv
<1>2. \A e : Carries(e) => (e \in ToSet(fes') <=> e \in ToSet(Tail(fes)) \cup E)
  BY DEF Adds
<1>3. ASSUME NEW x \in Carried' PROVE x \in Carried \cup Packets(E)
  BY <1>1, <1>2, <1>3, InCarried, InCarriedNext DEF Packets
<1>4. ASSUME NEW x \in Packets(E) PROVE x \in Carried'
  BY <1>2, <1>4, InCarriedNext DEF Packets
<1>5. ASSUME NEW x \in Carried PROVE x \in Carried' \cup {<<Head(fes).to, Head(fes).msg>>}
  BY <1>1, <1>2, <1>5, InCarried, InCarriedNext
<1> QED
  BY <1>3, <1>4, <1>5 DEF Moves

\* While a queue changes, too.
LEMMA QueueMoves ==
    ASSUME SimInv, NEW kind, Arrives(kind), NEW E, NEW N, Adds(fes', Tail(fes), E, N),
           \A e \in E : Carries(e), NEW l \in Link, NEW old, NEW new,
           \A k \in Link : k # l => queue'[k].queue = queue[k].queue,
           ToSet(queue'[l].queue) \subseteq ToSet(queue[l].queue) \cup new,
           ToSet(queue[l].queue) \subseteq ToSet(queue'[l].queue) \cup old,
           new \subseteq ToSet(queue'[l].queue)
    PROVE  Moves({<<Head(fes).to, Head(fes).msg>>} \cup {<<Line(l), p>> : p \in old},
                 Packets(E) \cup {<<Line(l), p>> : p \in new})
<1> DEFINE h == Head(fes)
           X == {<<h.to, h.msg>>} \cup {<<Line(l), p>> : p \in old}
           Y == Packets(E) \cup {<<Line(l), p>> : p \in new}
<1>1. ToSet(fes) = {h} \cup ToSet(Tail(fes))
  BY Handled, NextEvent DEF SimInv
<1>2. \A e : Carries(e) => (e \in ToSet(fes') <=> e \in ToSet(Tail(fes)) \cup E)
  BY DEF Adds
<1> HIDE DEF h
<1>3. ASSUME NEW x \in Carried' PROVE x \in Carried \cup Y
  <2>1. CASE \E e \in ToSet(fes') : Carries(e) /\ x = <<e.to, e.msg>>
    BY <1>1, <1>2, <2>1, InCarried DEF Packets
  <2>2. CASE \E k \in Link : \E p \in ToSet(queue'[k].queue) : x = <<Line(k), p>>
    <3>1. PICK k \in Link : \E p \in ToSet(queue'[k].queue) : x = <<Line(k), p>>
      BY <2>2
    <3>2. PICK p \in ToSet(queue'[k].queue) : x = <<Line(k), p>>
      BY <3>1
    <3>3. p \in ToSet(queue[k].queue) \/ (k = l /\ p \in new)
      BY <3>2
    <3> QED
      BY <3>2, <3>3, InCarried
  <2> QED
    BY <1>3, <2>1, <2>2, InCarriedNext
<1>4. ASSUME NEW x \in Y PROVE x \in Carried'
  <2>1. CASE x \in Packets(E)
    BY <1>2, <2>1, InCarriedNext DEF Packets
  <2>2. CASE \E p \in new : x = <<Line(l), p>>
    BY <2>2, InCarriedNext
  <2> QED
    BY <1>4, <2>1, <2>2
<1>5. ASSUME NEW x \in Carried PROVE x \in Carried' \cup X
  <2>1. CASE \E e \in ToSet(fes) : Carries(e) /\ x = <<e.to, e.msg>>
    BY <1>1, <1>2, <2>1, InCarriedNext
  <2>2. CASE \E k \in Link : \E p \in ToSet(queue[k].queue) : x = <<Line(k), p>>
    <3>1. PICK k \in Link : \E p \in ToSet(queue[k].queue) : x = <<Line(k), p>>
      BY <2>2
    <3>2. PICK p \in ToSet(queue[k].queue) : x = <<Line(k), p>>
      BY <3>1
    <3>3. p \in ToSet(queue'[k].queue) \/ (k = l /\ p \in old)
      BY <3>2
    <3> QED
      BY <3>2, <3>3, InCarriedNext
  <2> QED
    BY <1>5, <2>1, <2>2, InCarried
<1> QED
  BY <1>3, <1>4, <1>5 DEF Moves, h

\* Whether a message is dropped.
LEMMA OnMessageDrops ==
    ASSUME NEW q \in QueueType, NEW p, NEW t \in Int, NEW end \in Int, NEW msg \in Message,
           q.queue # <<>> \/ ~(end =< t)
    PROVE  LET r == Q!OnMessage(q, p, t, end, msg) IN
           /\ r.send = <<>>
           /\ \/ r.q.queue = Append(q.queue, msg) /\ r.q.dropped = q.dropped
              \/ r.q.queue = q.queue /\ r.q.dropped = q.dropped + 1
<1> DEFINE r == Q!OnMessage(q, p, t, end, msg)
<1>1. CASE Q!HasRoom(q, p)
  <2> DEFINE c == Q!CollectLength(q, t)
             s == [c EXCEPT !.queue = Append(@, msg)]
  <2>1. c \in QueueType /\ c.queue = q.queue
    BY CollectType
  <2>2. c.dropped = q.dropped
    BY DEF Q!CollectLength, QueueType
  <2> HIDE DEF c
  <2>3. s.queue = Append(q.queue, msg) /\ s.dropped = q.dropped
    BY <2>1, <2>2 DEF QueueType
  <2> HIDE DEF s
  <2>4. r = [q |-> s, send |-> <<>>]
    BY <1>1 DEF Q!OnMessage, Q!Insert, c, s
  <2>5. q.dropped \in Nat
    BY DEF QueueType
  <2> HIDE DEF r
  <2>6. r.q = s /\ r.send = <<>>
    BY <2>4
  <2> QED
    BY <2>3, <2>5, <2>6 DEF r
<1>2. CASE ~Q!HasRoom(q, p)
  <2> DEFINE s == [q EXCEPT !.dropped = @ + 1]
  <2>1. s.queue = q.queue /\ s.dropped = q.dropped + 1 /\ q.dropped \in Nat
    BY DEF QueueType
  <2> HIDE DEF s
  <2>2. r = [q |-> s, send |-> <<>>]
    BY <1>2 DEF Q!OnMessage, s
  <2> HIDE DEF r
  <2>3. r.q = s /\ r.send = <<>>
    BY <2>2
  <2> QED
    BY <2>1, <2>3 DEF r
<1> QED
  BY <1>1, <1>2

\* The queue of another link stays as it is.
LEMMA QueueStepQueues ==
    ASSUME SimInv, NEW l \in Link, NEW r, QueueStep(l, r)
    PROVE  /\ queue'[l] = r.q /\ \A k \in Link : k # l => queue'[k] = queue[k]
           /\ now' = Head(fes).time /\ Transmit(l, r)
           /\ UNCHANGED <<par, changes, cost, routes, snd, rcv, ping>>
BY DEF QueueStep, SimInv, LinksOK

LEMMA QueueMessageMoves ==
    ASSUME SimInv, QueueMessage
    PROVE  \E l \in Link :
           LET h == Head(fes)  t == h.time  m == h.msg  u == t + duration[l][m.id]  q == queue[l].queue IN
           /\ h.to = <<"queue", l[1], l[2]>> /\ m \in Message
           /\ \A k \in Link : k # l => queue'[k].queue = queue[k].queue
           /\ \/ /\ q = <<>> /\ queue'[l].queue = <<>> /\ finishes[l] =< t
                 /\ ~isScheduled(Tail(fes), timeout(l))
                 /\ finishes' = [finishes EXCEPT ![l] = u]
                 /\ \E b \in BOOLEAN :
                       /\ Gains(fes', Tail(fes), {Arrival(l, t, m, b)}, {TimeoutEvent(u, l)})
                       /\ lost' = IF b /\ m.id # "ping" THEN Count(m) ELSE lost
              \/ /\ queue'[l].queue = Append(q, m)
                 /\ fes' = Tail(fes) /\ finishes' = finishes /\ lost' = lost /\ aborted' = aborted
              \/ /\ queue'[l].queue = q
                 /\ fes' = Tail(fes) /\ finishes' = finishes /\ lost' = Count(m) /\ aborted' = aborted
<1> DEFINE h == Head(fes)
           l == <<h.to[2], h.to[3]>>
           q == queue[l]
           r == Q!OnMessage(q, par, h.time, finishes[l], h.msg)
<1>1. Arrives("queue") /\ QueueStep(l, r)
  BY DEF QueueMessage
<1>2. EventOK(h) /\ h.time \in Int /\ h.to[1] = "queue"
  BY <1>1, Handled
<1>3. l \in Link /\ h.msg \in Message /\ h.to = <<"queue", l[1], l[2]>>
  <2> HIDE DEF h
  <2>1. <<h.to[2], h.to[3]>> \in Link /\ h.msg \in Message
    BY <1>2, Kinds
  <2>2. Passed(h.to, h.msg)
    <3>1. \A k \in Link : timeout(k)[1] = "timeout"
      BY DEF timeout
    <3>2. ~ATimer(h.to)
      BY <1>2 DEF ATimer, timer0, timer1
    <3>3. ~ToTheStack(h.to, h.msg)
      BY <1>2 DEF ToTheStack
    <3> QED
      BY <1>2, <3>1, <3>2, <3>3 DEF EventOK
  <2>3. h.to = <<"queue", h.to[2], h.to[3]>>
    BY <1>2, <2>2 DEF Passed
  <2> QED
    BY <2>1, <2>3
<1> HIDE DEF l
<1>4. q \in QueueType /\ finishes[l] \in Int /\ q.dropped \in Nat
  BY <1>3 DEF SimInv, LinksOK, QueueType
<1>5. /\ queue'[l] = r.q /\ \A k \in Link : k # l => queue'[k] = queue[k]
      /\ Transmit(l, r)
  BY <1>1, <1>3, QueueStepQueues
<1>6. CASE q.queue = <<>> /\ finishes[l] =< h.time
  <2>1. r.q.queue = <<>> /\ r.send = <<h.msg>>
    <3> DEFINE t == h.time  end == finishes[l]  m == h.msg
    <3>1. q \in QueueType /\ t \in Int /\ m \in Message /\ q.queue = <<>> /\ end =< t
      BY <1>2, <1>3, <1>4, <1>6
    <3> HIDE DEF t, end, m, q
    <3>2. LET o == Q!OnMessage(q, par, t, end, m) IN o.q.queue = <<>> /\ o.send = <<m>>
      BY <3>1, OnMessageDoes
    <3> QED
      BY <3>2 DEF t, end, m
  <2> HIDE DEF r
  <2>2. LET t == Head(fes).time  m == h.msg  u == t + duration[l][m.id] IN
           /\ finishes' = [finishes EXCEPT ![l] = u]
           /\ \E b \in BOOLEAN :
                 /\ Gains(fes', Tail(fes), {Arrival(l, t, m, b)}, {TimeoutEvent(u, l)})
                 /\ lost' = IF b /\ m.id # "ping" THEN Count(m) ELSE lost
    <3> DEFINE m == h.msg
    <3>1. m \in Message /\ r.send = <<m>>
      BY <1>3, <2>1
    <3> HIDE DEF m
    <3>2. LET t == Head(fes).time  u == t + duration[l][m.id] IN
             /\ finishes' = [finishes EXCEPT ![l] = u]
             /\ \E b \in BOOLEAN :
                   /\ Gains(fes', Tail(fes), {Arrival(l, t, m, b)}, {TimeoutEvent(u, l)})
                   /\ lost' = IF b /\ m.id # "ping" THEN Count(m) ELSE lost
      BY <1>1, <1>3, <1>5, <3>1, TransmitGains
    <3> QED
      BY <3>2 DEF m
  <2>3. ~isScheduled(Tail(fes), timeout(l))
    <3> SUFFICES ASSUME isScheduled(Tail(fes), timeout(l)) PROVE FALSE
      OBVIOUS
    <3>1. PICK e \in ToSet(Tail(fes)) : e.to = timeout(l)
      BY ScheduledSet
    <3>2. /\ ~aborted /\ fes # <<>> /\ e \in ToSet(fes)
      BY <1>1, NextEvent DEF SimInv, Arrives
    <3>3. e.time = finishes[l] /\ finishes[l] \in Int
      BY <1>3, <3>1, <3>2 DEF SimInv, LinksOK, TimeoutOK
    <3>4. e.time > h.time
      BY <1>2, <1>3, <3>1, <3>2, TimeoutsAfter DEF SimInv, h
    <3> QED
      BY <1>2, <1>6, <3>3, <3>4
  <2> QED
    BY <1>3, <1>5, <1>6, <2>1, <2>2, <2>3
<1>7. CASE ~(q.queue = <<>> /\ finishes[l] =< h.time)
  <2>1. /\ r.send = <<>>
        /\ \/ r.q.queue = Append(q.queue, h.msg) /\ r.q.dropped = q.dropped
           \/ r.q.queue = q.queue /\ r.q.dropped = q.dropped + 1
    <3> DEFINE t == h.time  end == finishes[l]  m == h.msg
    <3>1. q \in QueueType /\ t \in Int /\ m \in Message /\ end \in Int /\ (q.queue # <<>> \/ ~(end =< t))
      BY <1>2, <1>3, <1>4, <1>7
    <3> HIDE DEF t, end, m, q
    <3>2. LET o == Q!OnMessage(q, par, t, end, m) IN
             /\ o.send = <<>>
             /\ \/ o.q.queue = Append(q.queue, m) /\ o.q.dropped = q.dropped
                \/ o.q.queue = q.queue /\ o.q.dropped = q.dropped + 1
      BY <3>1, OnMessageDrops
    <3> QED
      BY <3>2 DEF t, end, m
  <2> HIDE DEF r
  <2>2. /\ fes' = Tail(fes) /\ UNCHANGED <<finishes, aborted>>
        /\ lost' = IF r.q.dropped > queue[l].dropped THEN Count(Head(fes).msg) ELSE lost
    BY <1>5, <2>1 DEF Transmit
  <2>3. \/ queue'[l].queue = Append(q.queue, h.msg) /\ lost' = lost
        \/ queue'[l].queue = q.queue /\ lost' = Count(h.msg)
    BY <1>4, <1>5, <2>1, <2>2
  <2> QED
    BY <1>3, <1>5, <2>2, <2>3
<1> QED
  BY <1>6, <1>7

LEMMA QueueTimeoutMoves ==
    ASSUME SimInv, QueueTimeout
    PROVE  \E l \in Link :
           LET h == Head(fes)  t == h.time  q == queue[l].queue
               m == Head(q)  u == t + duration[l][m.id] IN
           /\ h.to = timeout(l) /\ t = finishes[l]
           /\ ~isScheduled(Tail(fes), timeout(l))
           /\ \A k \in Link : k # l => queue'[k].queue = queue[k].queue
           /\ \/ /\ q # <<>> /\ q \in Seq(Message) /\ queue'[l].queue = Tail(q) /\ m \in Message
                 /\ finishes' = [finishes EXCEPT ![l] = u]
                 /\ \E b \in BOOLEAN :
                       /\ Gains(fes', Tail(fes), {Arrival(l, t, m, b)}, {TimeoutEvent(u, l)})
                       /\ lost' = IF b /\ m.id # "ping" THEN Count(m) ELSE lost
              \/ /\ q = <<>> /\ queue'[l].queue = <<>>
                 /\ fes' = Tail(fes) /\ finishes' = finishes /\ lost' = lost /\ aborted' = aborted
<1> DEFINE h == Head(fes)
           l == <<h.to[2], h.to[3]>>
           q == queue[l]
           r == Q!OnTimeout(q, par, h.time, finishes[l])
<1>1. Arrives("timeout") /\ QueueStep(l, r)
  BY DEF QueueTimeout
<1>2. EventOK(h) /\ h.time \in Int /\ h.to[1] = "timeout" /\ ~aborted /\ fes # <<>>
  BY <1>1, Handled
<1>3. l \in Link /\ h.to = timeout(l)
  <2> HIDE DEF h
  <2>1. \E k \in Link : h.to = timeout(k) /\ k = <<h.to[2], h.to[3]>>
    BY <1>2, Kinds
  <2> QED
    BY <2>1
<1> HIDE DEF l
<1>4. q \in QueueType /\ TimeoutOK(fes, l, finishes[l], q.queue, now)
  BY <1>3 DEF SimInv, LinksOK
<1>5. /\ queue'[l] = r.q /\ \A k \in Link : k # l => queue'[k] = queue[k]
      /\ Transmit(l, r)
  BY <1>1, <1>3, QueueStepQueues
<1>6. h \in ToSet(fes) /\ (Once(fes, h.to) => ~isScheduled(Tail(fes), h.to))
  BY <1>2, NextEvent DEF SimInv
<1>7. h.time = finishes[l] /\ ~isScheduled(Tail(fes), timeout(l))
  BY <1>3, <1>4, <1>6 DEF TimeoutOK
<1>8. /\ r.q \in QueueType
      /\ \/ q.queue # <<>> /\ r.q.queue = Tail(q.queue) /\ r.send = <<Head(q.queue)>>
         \/ q.queue = <<>> /\ r.q.queue = <<>> /\ r.send = <<>>
  <2> DEFINE t == h.time  end == finishes[l]
  <2>1. q \in QueueType /\ t \in Int
    BY <1>2, <1>4
  <2> HIDE DEF q, t, end
  <2>2. LET o == Q!OnTimeout(q, par, t, end) IN
        /\ o.q \in QueueType
        /\ \/ q.queue # <<>> /\ o.q.queue = Tail(q.queue) /\ o.send = <<Head(q.queue)>>
           \/ q.queue = <<>> /\ o.q.queue = <<>> /\ o.send = <<>>
    BY <2>1, OnTimeoutDoes
  <2> QED
    BY <2>2 DEF t, end
<1> HIDE DEF r
<1>9. q.queue \in Seq(Message)
  BY <1>4 DEF QueueType
<1>10. CASE q.queue # <<>> /\ r.q.queue = Tail(q.queue) /\ r.send = <<Head(q.queue)>>
  <2> DEFINE m == Head(q.queue)
  <2>1. m \in Message
    BY <1>9, <1>10
  <2>2. r.send = <<m>>
    BY <1>10
  <2> HIDE DEF m
  <2>3. LET t == Head(fes).time  u == t + duration[l][m.id] IN
           /\ finishes' = [finishes EXCEPT ![l] = u]
           /\ \E b \in BOOLEAN :
                 /\ Gains(fes', Tail(fes), {Arrival(l, t, m, b)}, {TimeoutEvent(u, l)})
                 /\ lost' = IF b /\ m.id # "ping" THEN Count(m) ELSE lost
    BY <1>1, <1>3, <1>5, <2>1, <2>2, TransmitGains
  <2> QED
    BY <1>3, <1>5, <1>7, <1>9, <1>10, <2>1, <2>3 DEF m
<1>11. CASE q.queue = <<>> /\ r.q.queue = <<>> /\ r.send = <<>>
  <2>1. r.q.dropped = queue[l].dropped
    <3>1. r = Q!OnTimeout(q, par, h.time, finishes[l])
      BY DEF r
    <3>2. r = [q |-> Q!CollectUtil(q, 1, h.time), send |-> <<>>]
      BY <1>11, <3>1 DEF Q!OnTimeout, Q!Idle
    <3>3. r.q = Q!CollectUtil(q, 1, h.time)
      BY <3>2
    <3> QED
      BY <1>4, <3>3 DEF Q!CollectUtil, QueueType
  <2>3. ~(queue[l].dropped > queue[l].dropped)
    BY <1>4 DEF QueueType
  <2>2. /\ fes' = Tail(fes) /\ UNCHANGED <<finishes, aborted, lost>>
    BY <1>5, <1>11, <2>1, <2>3 DEF Transmit
  <2> QED
    BY <1>3, <1>5, <1>7, <1>11, <2>2
<1> QED
  BY <1>8, <1>10, <1>11

----------------------------------------------------------------------------
(***************************************************************************)
(* What a stack makes of a packet.                                         *)
(***************************************************************************)
Copy(n, q) == [q EXCEPT !.lastNode = n, !.TTL = @ + 1]
Handed(n, q) == IF q.destNode = n THEN [q EXCEPT !.destNode = Nobody, !.destAppl = Nobody] ELSE q

Delivery(n, q, o) ==
    o.to = <<"appl", n, q.destAppl>> /\ q.destAppl \in appls[n] /\ o.msg = Handed(n, q)

Relay(n, q, table, o) ==
    \E m \in Node : /\ <<n, m>> \in Link /\ o.to = <<"queue", n, m>> /\ o.msg = Copy(n, q)
                    /\ q.destNode \in Node => m = table[q.destNode]

LEMMA OriginatedType ==
    ASSUME NEW n \in Node, NEW from \in Int, NEW p, p \in Message \/ (from = Local /\ p = Notice)
    PROVE  LET q == Originated(n, from, p) IN
           /\ p \in Message => q \in Message
           /\ p = Notice => q = Notice \/ q \in Message
           /\ q.destNode = p.destNode /\ q.destAppl = p.destAppl /\ q.id = p.id
           /\ q.seqNo = p.seqNo /\ q.bitError = p.bitError /\ q.reply = p.reply
           /\ from \in {FromNet, Local} => q = p
           /\ from \notin {FromNet, Local} => q.srcNode = n /\ q.srcAppl = from /\ q.TTL = 0
<1> DEFINE q == Originated(n, from, p)
<1>1. CASE from \in {FromNet, Local}
  <2>1. q = p
    BY <1>1 DEF Originated
  <2> HIDE DEF q
  <2> QED
    BY <1>1, <2>1 DEF q
<1>2. CASE from \notin {FromNet, Local}
  <2>1. q = [p EXCEPT !.srcNode = n, !.srcAppl = from, !.TTL = 0] /\ p \in Message
    BY <1>2 DEF Originated
  <2> HIDE DEF q
  <2>2. n \in Int
    BY NodesAssumption
  <2>3. q \in Message
    BY <2>1, <2>2, MessageKept
  <2> QED
    BY <1>2, <2>1, <2>3 DEF Message, q
<1> QED
  BY <1>1, <1>2

LEMMA StackDelivers ==
    ASSUME NEW n \in Node, NEW from \in Int, NEW p, NEW table, from = Local \/ p.destNode = n
    PROVE  LET q == Originated(n, from, p)
               out == handleMessage(n, from, p, table).out
           IN  IF q.destAppl \in appls[n] THEN \E o : out = <<o>> /\ Delivery(n, q, o)
               ELSE out = <<>>
<1> DEFINE q == Originated(n, from, p)
           out == handleMessage(n, from, p, table).out
<1>1. out = deliverLocally(n, q).out
  BY DEF handleMessage
<1> HIDE DEF q, out
<1>2. CASE q.destAppl \notin appls[n]
  BY <1>1, <1>2 DEF deliverLocally, Dropped, q, out
<1>3. CASE q.destAppl \in appls[n]
  <2> DEFINE o == [to |-> <<"appl", n, q.destAppl>>, msg |-> Handed(n, q)]
  <2>1. deliverLocally(n, q) = Sent(<<o>>)
    BY <1>3 DEF deliverLocally, Handed
  <2>2. Delivery(n, q, o)
    BY <1>3 DEF Delivery
  <2> HIDE DEF o
  <2>3. out = <<o>>
    BY <1>1, <2>1 DEF Sent
  <2> QED
    BY <1>3, <2>2, <2>3 DEF q, out
<1> QED
  BY <1>2, <1>3

LEMMA StackRelays ==
    ASSUME NEW n \in Node, NEW from \in Int, NEW p \in Message, NEW table, RoutesOK(table, n),
           ~(from = Local \/ p.destNode = n)
    PROVE  LET q == Originated(n, from, p)
               out == handleMessage(n, from, p, table).out
           IN  /\ \A o \in ToSet(out) : Relay(n, q, table, o)
               /\ q.destNode \in Node /\ q.TTL < maxTTL /\ table[q.destNode] # NoRoute => \E o : out = <<o>>
<1> DEFINE q == Originated(n, from, p)
           out == handleMessage(n, from, p, table).out
<1>1. out = sendOut(n, q, table).out
  BY DEF handleMessage
<1>2. q \in Message
  BY OriginatedType
<1> HIDE DEF q, out
<1>3. q.TTL \in Int /\ maxTTL \in Int
  BY <1>2, NodesAssumption DEF Message
<1>8. \A why : Dropped(why).out = <<>>
  BY DEF Dropped
<1>0. q.destNode \in Node => q.destNode \notin {Nobody, ToAll, ToAllButLast}
  BY NodesAssumption DEF Nobody, ToAll, ToAllButLast
<1>4. CASE q.TTL >= maxTTL
  <2>1. ~(q.TTL < maxTTL)
    BY <1>3, <1>4
  <2>2. out = <<>>
    BY <1>1, <1>4, <2>1 DEF sendOut, Dropped
  <2> QED
    BY <2>1, <2>2 DEF ToSet, q, out
<1>5. CASE q.TTL < maxTTL /\ q.destNode = Nobody
  <2>1. ~(q.TTL >= maxTTL)
    BY <1>3, <1>5
  <2>2. sendOut(n, q, table) = Dropped("no destination")
    BY <1>5, <2>1 DEF sendOut, Nobody, ToAll, ToAllButLast
  <2>3. out = <<>>
    BY <1>1, <1>8, <2>2
  <2> QED
    BY <1>0, <1>5, <2>3 DEF ToSet, q, out
<1>6. CASE q.TTL < maxTTL /\ q.destNode \in {ToAll, ToAllButLast}
  <2> DEFINE targets == IF q.destNode = ToAll THEN netOut[n] ELSE RemoveFirst(netOut[n], q.lastNode)
             outs == [i \in DOMAIN targets |-> [to |-> <<"queue", n, targets[i]>>, msg |-> Copy(n, q)]]
  <2>1. ~(q.TTL >= maxTTL) /\ q.destNode # Nobody
    BY <1>3, <1>6 DEF Nobody, ToAll, ToAllButLast
  <2>2. sendOut(n, q, table) = Broadcast(n, q)
    BY <1>6, <2>1 DEF sendOut
  <2>3. out = outs
    BY <1>1, <2>2 DEF Broadcast, Sent, Copy
  <2>4. targets \in Seq(ToSet(netOut[n]))
    BY NodesAssumption, Removed DEF ToSet
  <2>5. ASSUME NEW m \in ToSet(netOut[n]) PROVE m \in Node /\ <<n, m>> \in Link
    <3>1. PICK i \in DOMAIN netOut[n] : netOut[n][i] = m
      BY SetIndex
    <3>2. m \in Node /\ m \in Range(netOut[n])
      BY <3>1, NodesAssumption DEF Range
    <3> QED
      BY <3>2 DEF Link
  <2> HIDE DEF targets
  <2>6. ASSUME NEW i \in DOMAIN outs PROVE Relay(n, q, table, outs[i])
    <3>1. targets[i] \in Node /\ <<n, targets[i]>> \in Link
      BY <2>4, <2>5
    <3>2. outs[i].to = <<"queue", n, targets[i]>> /\ outs[i].msg = Copy(n, q)
      OBVIOUS
    <3>3. q.destNode \notin Node
      BY <1>0, <1>6
    <3> HIDE DEF outs
    <3> QED
      BY <3>1, <3>2, <3>3 DEF Relay
  <2> HIDE DEF outs
  <2> QED
    BY <1>0, <1>6, <2>3, <2>6, SetIndex DEF q, out
<1>7. CASE q.TTL < maxTTL /\ q.destNode \notin {Nobody, ToAll, ToAllButLast}
  <2> DEFINE hop == lookup(table, q.destNode)
             o == [to |-> <<"queue", n, hop>>, msg |-> Copy(n, q)]
  <2>6. ~(q.TTL >= maxTTL) /\ ~(q.TTL < maxTTL /\ q.destNode = Nobody)
        /\ ~(q.TTL < maxTTL /\ q.destNode \in {ToAll, ToAllButLast})
    BY <1>3, <1>7
  <2>1. sendOut(n, q, table) = Forward(n, q, hop)
    BY <2>6 DEF sendOut
  <2>2. hop = NoRoute \/ (hop \in Node /\ <<n, hop>> \in Link)
    BY DEF lookup, RoutesOK, Hops
  <2>3. q.destNode \in Node => hop = table[q.destNode]
    BY DEF lookup
  <2> HIDE DEF hop
  <2>4. CASE hop = NoRoute
    <3>2. Forward(n, q, hop) = Dropped("no route")
      BY <2>4 DEF Forward
    <3>1. out = <<>>
      BY <1>1, <1>8, <2>1, <3>2
    <3> QED
      BY <2>3, <2>4, <3>1 DEF ToSet, q, out
  <2>5. CASE hop # NoRoute
    <3>1. Forward(n, q, hop) = Sent(<<o>>)
      BY <2>5 DEF Forward, Copy
    <3>2. Relay(n, q, table, o)
      BY <2>2, <2>3, <2>5 DEF Relay
    <3> HIDE DEF o
    <3>3. out = <<o>>
      BY <1>1, <2>1, <3>1 DEF Sent
    <3>4. ToSet(out) = {o}
      BY <3>3 DEF ToSet
    <3> QED
      BY <3>2, <3>3, <3>4 DEF q, out
  <2> QED
    BY <2>4, <2>5
<1> QED
  BY <1>3, <1>4, <1>5, <1>6, <1>7
===============================================================================
