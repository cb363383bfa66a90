------------------------ MODULE ServiceManagerProofs ------------------------
(***************************************************************************)
(* ServiceManager for every set of ids, names, projects and mortar files   *)
(* (names may be used twice, dependencies may be missing or circular),     *)
(* with failing writes, hang-ups, restarts and concurrent handlers of      *)
(* volumes and networks at any point.                                      *)
(***************************************************************************)
EXTENDS ServiceManager, FiniteSetTheorems, TLAPS

-----------------------------------------------------------------------------
(* Numbers and sequences *)

\* A set of naturals that has an element has a least one.  The theorems of
\* the library on induction take a predicate, which the backends cannot
\* instantiate; this one takes a set and does the same work.
LEMMA LeastNumber ==
  ASSUME NEW T \in SUBSET Nat, T # {}
  PROVE  \E x \in T : \A y \in T : x <= y
<1> DEFINE R == {ss \in Nat \X Nat : ss[1] < ss[2]}
<1>1. IsWellFoundedOn(R, Nat)
  BY NatLessThanWellFounded DEF OpToRel
<1>2. PICK x \in T : \A y \in T : ~ (<<y, x>> \in R)
  BY <1>1, WFMin
<1>3. ASSUME NEW y \in T PROVE x <= y
  <2>1. x \in Nat /\ y \in Nat /\ <<y, x>> \in Nat \X Nat
    OBVIOUS
  <2>2. ~ (y < x)
    BY <1>2, <2>1
  <2> QED BY <2>1, <2>2
<1> QED BY <1>3

\* A set of naturals that has 0 and with each number below n the next one has
\* every number up to n.
LEMMA UpTo ==
  ASSUME NEW n \in Nat, NEW P, 0 \in P,
         \A k \in 0 .. n : (k # n /\ k \in P) => k + 1 \in P
  PROVE  \A k \in 0 .. n : k \in P
<1> DEFINE T == {k \in 0 .. n : k \notin P}
<1>1. SUFFICES ASSUME T # {} PROVE FALSE
  OBVIOUS
<1>2. PICK k \in T : \A m \in T : k <= m
  <2>1. T \in SUBSET Nat
    OBVIOUS
  <2> HIDE DEF T
  <2> QED BY <1>1, <2>1, LeastNumber
<1>3. k \in Nat /\ k # 0 /\ k - 1 \in 0 .. n /\ k - 1 # n /\ k <= n
  OBVIOUS
<1>4. k - 1 \in P
  BY <1>2, <1>3
<1>5. (k - 1) + 1 \in P
  BY <1>3, <1>4
<1> QED BY <1>3, <1>5

\* A sequence as a function.
LEMMA SeqFacts ==
  ASSUME NEW S, NEW seq \in Seq(S)
  PROVE  /\ Len(seq) \in Nat /\ DOMAIN seq = 1 .. Len(seq)
         /\ \A i \in DOMAIN seq : seq[i] \in S
         /\ ToSet(seq) \subseteq S
         /\ seq = <<>> <=> DOMAIN seq = {}
         /\ seq = <<>> <=> Len(seq) = 0
BY DEF ToSet

\* Its head and its tail.
LEMMA HeadAndTail ==
  ASSUME NEW S, NEW seq \in Seq(S), seq # <<>>
  PROVE  /\ Head(seq) \in S /\ Head(seq) = seq[1] /\ Head(seq) \in ToSet(seq)
         /\ Tail(seq) \in Seq(S) /\ Len(Tail(seq)) = Len(seq) - 1
         /\ \A i \in DOMAIN Tail(seq) : i + 1 \in DOMAIN seq /\ Tail(seq)[i] = seq[i + 1]
         /\ ToSet(seq) = {Head(seq)} \cup ToSet(Tail(seq))
<1>1. /\ Len(seq) \in Nat \ {0} /\ DOMAIN seq = 1 .. Len(seq)
      /\ Head(seq) \in S /\ Head(seq) = seq[1]
      /\ Tail(seq) \in Seq(S) /\ Len(Tail(seq)) = Len(seq) - 1
      /\ DOMAIN Tail(seq) = 1 .. (Len(seq) - 1)
      /\ \A i \in 1 .. (Len(seq) - 1) : Tail(seq)[i] = seq[i + 1]
  OBVIOUS
<1>2. 1 \in DOMAIN seq /\ Head(seq) \in ToSet(seq)
  BY <1>1 DEF ToSet
<1>3. \A i \in DOMAIN Tail(seq) : i + 1 \in DOMAIN seq /\ Tail(seq)[i] = seq[i + 1]
  BY <1>1
<1>4. ToSet(Tail(seq)) \subseteq ToSet(seq)
  BY <1>3 DEF ToSet
<1>5. ASSUME NEW x \in ToSet(seq), x # Head(seq)
      PROVE  x \in ToSet(Tail(seq))
  <2>1. PICK i \in 1 .. Len(seq) : x = seq[i]
    BY <1>1 DEF ToSet
  <2>2. i - 1 \in DOMAIN Tail(seq) /\ Tail(seq)[i - 1] = x
    BY <1>1, <1>5, <2>1
  <2> QED BY <2>2 DEF ToSet
<1> QED BY <1>1, <1>2, <1>3, <1>4, <1>5

\* What is appended is at the end.
LEMMA Appended ==
  ASSUME NEW S, NEW seq \in Seq(S), NEW x \in S
  PROVE  /\ Append(seq, x) \in Seq(S) /\ Len(Append(seq, x)) = Len(seq) + 1
         /\ Append(seq, x)[Len(seq) + 1] = x
         /\ \A i \in DOMAIN seq : Append(seq, x)[i] = seq[i]
         /\ DOMAIN Append(seq, x) = DOMAIN seq \cup {Len(seq) + 1}
         /\ ToSet(Append(seq, x)) = ToSet(seq) \cup {x}
<1>1. /\ Append(seq, x) \in Seq(S) /\ Len(seq) \in Nat
      /\ Len(Append(seq, x)) = Len(seq) + 1
      /\ Append(seq, x)[Len(seq) + 1] = x
      /\ DOMAIN seq = 1 .. Len(seq) /\ DOMAIN Append(seq, x) = 1 .. (Len(seq) + 1)
      /\ \A i \in 1 .. Len(seq) : Append(seq, x)[i] = seq[i]
  OBVIOUS
<1>2. DOMAIN Append(seq, x) = DOMAIN seq \cup {Len(seq) + 1}
  BY <1>1
<1>3. ToSet(Append(seq, x)) = ToSet(seq) \cup {x}
  BY <1>1, <1>2 DEF ToSet
<1> QED BY <1>1, <1>2, <1>3

\* Nothing is twice in a sequence after something new was appended.
LEMMA AppendNew ==
  ASSUME NEW S, NEW seq \in Seq(S), NEW x \in S, NoneTwice(seq), x \notin ToSet(seq)
  PROVE  NoneTwice(Append(seq, x))
<1>1. /\ Len(seq) \in Nat /\ DOMAIN seq = 1 .. Len(seq)
      /\ DOMAIN Append(seq, x) = DOMAIN seq \cup {Len(seq) + 1}
      /\ Append(seq, x)[Len(seq) + 1] = x
      /\ \A i \in DOMAIN seq : Append(seq, x)[i] = seq[i]
  BY SeqFacts, Appended
<1>2. \A i \in DOMAIN seq : seq[i] # x
  BY DEF ToSet
<1> QED BY <1>1, <1>2 DEF NoneTwice

\* A sequence in which nothing is twice does not have its head in its tail.
LEMMA TailNew ==
  ASSUME NEW S, NEW seq \in Seq(S), seq # <<>>, NoneTwice(seq)
  PROVE  NoneTwice(Tail(seq)) /\ Head(seq) \notin ToSet(Tail(seq))
<1>1. /\ Len(seq) \in Nat \ {0} /\ DOMAIN seq = 1 .. Len(seq) /\ Head(seq) = seq[1]
      /\ Tail(seq) \in Seq(S) /\ DOMAIN Tail(seq) = 1 .. (Len(seq) - 1)
      /\ \A i \in DOMAIN Tail(seq) : i + 1 \in DOMAIN seq /\ Tail(seq)[i] = seq[i + 1]
  BY SeqFacts, HeadAndTail
<1>2. \A i \in DOMAIN Tail(seq) : Tail(seq)[i] # Head(seq)
  BY <1>1 DEF NoneTwice
<1>3. NoneTwice(Tail(seq))
  BY <1>1 DEF NoneTwice
<1> QED BY <1>2, <1>3 DEF ToSet

\* When the rest of a sequence gets one shorter, what is before it gets one
\* longer.
LEMMA SuffixTail ==
  ASSUME NEW S, NEW T, NEW rest \in Seq(S), NEW all \in Seq(T), rest # <<>>,
         Len(all) - Len(rest) >= 0,
         \A i \in DOMAIN rest : rest[i] = all[(Len(all) - Len(rest)) + i]
  PROVE  /\ Len(all) - Len(Tail(rest)) >= 0
         /\ \A i \in DOMAIN Tail(rest) :
              Tail(rest)[i] = all[(Len(all) - Len(Tail(rest))) + i]
         /\ \A i \in 1 .. (Len(all) - Len(Tail(rest))) :
              /\ i \in DOMAIN all
              /\ i \in 1 .. (Len(all) - Len(rest)) \/ all[i] = Head(rest)
<1>1. PICK n \in Nat, m \in Nat :
        /\ n = Len(rest) /\ m = Len(all) /\ n # 0 /\ m - n >= 0
        /\ DOMAIN rest = 1 .. n /\ DOMAIN all = 1 .. m
        /\ Len(Tail(rest)) = n - 1 /\ DOMAIN Tail(rest) = 1 .. (n - 1)
        /\ Head(rest) = rest[1]
        /\ \A i \in DOMAIN Tail(rest) : Tail(rest)[i] = rest[i + 1]
  BY SeqFacts, HeadAndTail
<1>2. \A i \in 1 .. n : rest[i] = all[(m - n) + i]
  BY <1>1
<1>3. ASSUME NEW i \in 1 .. (n - 1) PROVE Tail(rest)[i] = all[(m - (n - 1)) + i]
  <2>1. i + 1 \in 1 .. n /\ (m - n) + (i + 1) = (m - (n - 1)) + i
    BY <1>1
  <2> QED BY <1>1, <1>2, <2>1
<1>4. ASSUME NEW i \in 1 .. (m - (n - 1))
      PROVE  i \in 1 .. m /\ (i \in 1 .. (m - n) \/ all[i] = Head(rest))
  <2>1. i \in 1 .. m /\ (i \in 1 .. (m - n) \/ i = (m - n) + 1)
    BY <1>1
  <2>2. 1 \in 1 .. n
    BY <1>1
  <2> QED BY <1>1, <1>2, <2>1, <2>2
<1> QED BY <1>1, <1>3, <1>4

\* f is what Retain keeps of the first 0, 1, ..., n elements.
Keeps(f, seq, keep, n) ==
  f = [k \in 0 .. n |->
         IF k = 0 THEN <<>>
         ELSE IF seq[k] \in keep THEN Append(f[k - 1], seq[k]) ELSE f[k - 1]]

\* The recursion of Retain has a solution: one for a number is extended by
\* the next element.
LEMMA RetainIsDefined ==
  ASSUME NEW seq, NEW keep, NEW n \in Nat
  PROVE  \E f : Keeps(f, seq, keep, n)
<1> DEFINE Follow(f, k) == IF k = 0 THEN <<>>
                           ELSE IF seq[k] \in keep THEN Append(f[k - 1], seq[k]) ELSE f[k - 1]
           P == {m \in Nat : \E f : f = [k \in 0 .. m |-> Follow(f, k)]}
<1>1. 0 \in P
  <2>1. [k \in 0 .. 0 |-> <<>>] = [k \in 0 .. 0 |-> Follow([j \in 0 .. 0 |-> <<>>], k)]
    OBVIOUS
  <2> HIDE DEF Follow
  <2> QED BY <2>1
<1>2. ASSUME NEW m \in 0 .. n, m # n, m \in P
      PROVE  m + 1 \in P
  <2>1. PICK f : f = [k \in 0 .. m |-> Follow(f, k)]
    BY <1>2
  <2> DEFINE g == [k \in 0 .. (m + 1) |-> IF k = m + 1 THEN Follow(f, k) ELSE f[k]]
  <2>2. ASSUME NEW k \in 0 .. (m + 1) PROVE g[k] = Follow(g, k)
    <3>1. CASE k = 0
      <4>1. g[0] = f[0] /\ f[0] = Follow(f, 0) /\ 0 \in 0 .. m
        BY <2>1, <3>1
      <4> QED BY <3>1, <4>1
    <3>2. CASE k # 0
      <4>1. k - 1 \in 0 .. m /\ g[k - 1] = f[k - 1]
        BY <3>2
      <4>2. Follow(f, k) = Follow(g, k)
        BY <3>2, <4>1
      <4>3. g[k] = Follow(f, k)
        <5> HIDE DEF Follow
        <5> QED BY <2>1
      <4> QED BY <4>2, <4>3
    <3> QED BY <3>1, <3>2
  <2>3. g = [k \in 0 .. (m + 1) |-> Follow(g, k)]
    <3> HIDE DEF Follow
    <3> QED BY <2>2
  <2> QED
    <3> HIDE DEF Follow, g
    <3> QED BY <2>3
<1>3. n \in P
  <2>1. n \in 0 .. n
    OBVIOUS
  <2> HIDE DEF P
  <2> QED BY <1>1, <1>2, <2>1, UpTo
<1> QED BY <1>3 DEF Keeps

\* Retain keeps exactly what is to be kept, and makes nothing twice.
LEMMA Retained ==
  ASSUME NEW S, NEW seq \in Seq(S), NEW keep
  PROVE  /\ Retain(seq, keep) \in Seq(S)
         /\ ToSet(Retain(seq, keep)) = ToSet(seq) \cap keep
         /\ NoneTwice(seq) => NoneTwice(Retain(seq, keep))
<1> DEFINE n == Len(seq)
           kept == CHOOSE f : Keeps(f, seq, keep, n)
           Seen(k) == {seq[i] : i \in 1 .. k} \cap keep
           P == {k \in 0 .. n : /\ kept[k] \in Seq(S) /\ ToSet(kept[k]) = Seen(k)
                                /\ NoneTwice(seq) => NoneTwice(kept[k])}
<1>1. n \in Nat /\ DOMAIN seq = 1 .. n /\ \A i \in 1 .. n : seq[i] \in S
  BY SeqFacts
<1>2. Keeps(kept, seq, keep, n)
  BY <1>1, RetainIsDefined
<1>3. Retain(seq, keep) = kept[n]
  BY DEF Retain, Keeps
<1> HIDE DEF kept
<1>4. 0 \in P
  <2>1. kept[0] = <<>> /\ 0 \in 0 .. n
    BY <1>1, <1>2 DEF Keeps
  <2>2. <<>> \in Seq(S) /\ ToSet(<<>>) = {} /\ NoneTwice(<<>>) /\ Seen(0) = {}
    BY DEF ToSet, NoneTwice
  <2> QED BY <2>1, <2>2
<1>5. ASSUME NEW k \in 0 .. n, k # n, k \in P
      PROVE  k + 1 \in P
  <2>1. /\ k + 1 \in 1 .. n /\ k + 1 \in 0 .. n /\ k + 1 # 0 /\ (k + 1) - 1 = k
        /\ 1 .. (k + 1) = (1 .. k) \cup {k + 1}
    <3> HIDE DEF P, n
    <3> QED BY <1>1, <1>5
  <2>2. kept[k + 1] = IF seq[k + 1] \in keep THEN Append(kept[k], seq[k + 1]) ELSE kept[k]
    BY <1>2, <2>1 DEF Keeps
  <2>3. Seen(k + 1) = IF seq[k + 1] \in keep THEN Seen(k) \cup {seq[k + 1]} ELSE Seen(k)
    BY <2>1
  <2>4. CASE seq[k + 1] \in keep
    <3>1. /\ kept[k + 1] \in Seq(S)
          /\ ToSet(kept[k + 1]) = ToSet(kept[k]) \cup {seq[k + 1]}
      BY <1>1, <1>5, <2>1, <2>2, <2>4, Appended
    <3>2. ASSUME NoneTwice(seq) PROVE NoneTwice(kept[k + 1])
      <4>1. \A i \in 1 .. k : seq[k + 1] # seq[i]
        <5> HIDE DEF P, n
        <5> QED BY <1>1, <2>1, <3>2 DEF NoneTwice
      <4>2. seq[k + 1] \notin ToSet(kept[k])
        BY <1>5, <4>1
      <4>3. seq[k + 1] \in S /\ kept[k] \in Seq(S) /\ NoneTwice(kept[k])
        BY <1>1, <1>5, <2>1, <3>2
      <4> QED BY <2>2, <2>4, <4>2, <4>3, AppendNew
    <3> QED BY <1>5, <2>1, <2>3, <2>4, <3>1, <3>2
  <2>5. CASE seq[k + 1] \notin keep
    BY <1>5, <2>1, <2>2, <2>3, <2>5
  <2> QED BY <2>4, <2>5
<1>6. n \in P
  <2>1. n \in 0 .. n
    BY <1>1
  <2> HIDE DEF P, n
  <2> QED BY <1>1, <1>4, <1>5, <2>1, UpTo
<1>7. Seen(n) = ToSet(seq) \cap keep
  BY <1>1 DEF ToSet
<1> QED BY <1>3, <1>6, <1>7

\* Numbers 1 .. n that take n different values in 1 .. n take them all.
LEMMA AllTaken ==
  ASSUME NEW n \in Nat, NEW f \in [1 .. n -> 1 .. n],
         \A i, j \in 1 .. n : i # j => f[i] # f[j]
  PROVE  \A k \in 1 .. n : \E i \in 1 .. n : f[i] = k
<1>1. IsFiniteSet(1 .. n)
  BY FS_Interval
<1>2. f \in Injection(1 .. n, 1 .. n)
  BY DEF Injection, IsInjective
<1>3. f \in Surjection(1 .. n, 1 .. n)
  BY <1>1, <1>2, FS_Injection
<1> QED BY <1>3 DEF Surjection

-----------------------------------------------------------------------------
(* The order of a project *)

\* No two configs have one name.
NamesDiffer(configs) ==
  \A i, j \in DOMAIN configs : configs[i].name = configs[j].name => i = j

\* A permutation of the numbers up to n.
Permutes(order, n) ==
  /\ order \in [1 .. n -> 1 .. n]
  /\ \A i, j \in 1 .. n : order[i] = order[j] => i = j
  /\ \A k \in 1 .. n : \E i \in 1 .. n : order[i] = k

\* An order is a permutation of the configs.
LEMMA OrderFacts ==
  ASSUME NEW S, NEW configs \in Seq(S), NEW order \in TopologicalOrders(configs)
  PROVE  /\ Len(configs) \in Nat /\ DOMAIN configs = 1 .. Len(configs)
         /\ Permutes(order, Len(configs))
<1>1. PICK n \in Nat : n = Len(configs) /\ DOMAIN configs = 1 .. n
  BY SeqFacts
<1>2. Cardinality(1 .. n) = n
  <2>1. n \in Int /\ 1 \in Int /\ (1 > n \/ n - 1 + 1 = n) /\ (1 > n => n = 0)
    OBVIOUS
  <2>2. Cardinality(1 .. n) = IF 1 > n THEN 0 ELSE n - 1 + 1
    BY FS_Interval
  <2> QED BY <2>1, <2>2
<1>3. order \in [1 .. n -> 1 .. n] /\ \A i, j \in 1 .. n : i # j => order[i] # order[j]
  BY <1>1, <1>2 DEF TopologicalOrders, SetToSeqs
<1>4. \A k \in 1 .. n : \E i \in 1 .. n : order[i] = k
  BY <1>3, AllTaken
<1>5. Permutes(order, n)
  BY <1>3, <1>4 DEF Permutes
<1> QED BY <1>1, <1>5

\* Under its own name a config is found.
LEMMA NodeIs ==
  ASSUME NEW configs, NamesDiffer(configs), NEW k \in DOMAIN configs,
         DOMAIN configs \subseteq Nat
  PROVE  Node(configs, configs[k].name) = k
<1>1. /\ configs[k].name = configs[k].name
      /\ \A j \in DOMAIN configs : configs[j].name = configs[k].name => j <= k
  BY DEF NamesDiffer
<1>2. ASSUME NEW i \in DOMAIN configs, configs[i].name = configs[k].name
      PROVE  i = k
  BY <1>2 DEF NamesDiffer
<1> QED BY <1>1, <1>2 DEF Node

\* What a config needs is before it.
LEMMA NeedsComeFirst ==
  ASSUME NEW S, NEW configs \in Seq(S), NEW order \in TopologicalOrders(configs),
         NamesDiffer(configs), ~DependencyNotFound(configs),
         NEW i \in 1 .. Len(configs), NEW dep \in configs[order[i]].deps
  PROVE  \E j \in 1 .. (i - 1) : configs[order[j]].name = dep
<1>1. PICK n : n = Len(configs)
  OBVIOUS
<1>2. /\ n \in Nat /\ DOMAIN configs = 1 .. n /\ order \in [1 .. n -> 1 .. n]
      /\ \A a, b \in 1 .. n : order[a] = order[b] => a = b
  <2>1. /\ Len(configs) \in Nat /\ DOMAIN configs = 1 .. Len(configs)
        /\ Permutes(order, Len(configs))
    BY ONLY configs \in Seq(S), order \in TopologicalOrders(configs), OrderFacts
  <2> QED BY <1>1, <2>1 DEF Permutes
<1>3. PICK k \in 1 .. n : k = order[i]
  BY <1>1, <1>2
<1>4. PICK d \in 1 .. n : configs[d].name = dep
  BY <1>2, <1>3 DEF DependencyNotFound, Known
<1>5. Node(configs, dep) = d /\ Node(configs, configs[k].name) = k
  <2>1. DOMAIN configs \subseteq Nat
    BY <1>2
  <2>2. Node(configs, configs[d].name) = d /\ Node(configs, configs[k].name) = k
    BY <1>2, <2>1, NodeIs
  <2> QED BY <1>4, <2>2
<1>6. <<d, k>> \in Edges(configs)
  BY <1>2, <1>3, <1>5 DEF Edges
<1>7. PICK a, b \in 1 .. n : order[a] = d /\ order[b] = k /\ a < b
  <2>1. PICK a, b \in DOMAIN order : order[a] = <<d, k>>[1] /\ order[b] = <<d, k>>[2] /\ a < b
    BY <1>6 DEF TopologicalOrders
  <2> QED BY <1>2, <2>1
<1>8. b = i
  BY <1>1, <1>2, <1>3, <1>7
<1>9. a \in 1 .. (i - 1)
  BY <1>7, <1>8
<1> QED BY <1>4, <1>7, <1>9

-----------------------------------------------------------------------------
(* The services and the books about them *)

\* What the invariant says of the services, whatever is under way.
Books ==
  /\ IsFiniteSet(DOMAIN services) /\ DOMAIN services \in SUBSET Ids
  /\ services \in [DOMAIN services -> ServiceRecord] /\ stored \in SUBSET Ids
  /\ projects \in [Projects -> Seq(Ids)]
  /\ NamesUnique /\ ProjectsAgree

\* A service changes state and nothing else.
LEMMA StateSet ==
  ASSUME Books, NEW id \in DOMAIN services, NEW s \in States, SetState(id, s),
         UNCHANGED <<stored, projects>>
  PROVE  /\ Books' /\ DOMAIN services' = DOMAIN services
         /\ services'[id].state = s
         /\ \A i \in DOMAIN services : i # id => services'[i] = services[i]
         /\ \A i \in DOMAIN services : /\ services'[i].name = services[i].name
                                      /\ services'[i].project = services[i].project
                                      /\ services'[i].deps = services[i].deps
<1> USE DEF Books
<1>1. services[id] \in ServiceRecord
  OBVIOUS
<1>2. PICK r : r = [services[id] EXCEPT !.state = s]
  OBVIOUS
<1>3. /\ r \in ServiceRecord /\ r.state = s /\ r.name = services[id].name
      /\ r.project = services[id].project /\ r.deps = services[id].deps
  BY <1>1, <1>2 DEF ServiceRecord
<1>4. services' = [services EXCEPT ![id] = r]
  BY <1>2 DEF SetState
<1>5. /\ DOMAIN services' = DOMAIN services /\ services'[id] = r
      /\ \A i \in DOMAIN services : i # id => services'[i] = services[i]
      /\ services' \in [DOMAIN services -> ServiceRecord]
  BY <1>3, <1>4
<1>6. \A i \in DOMAIN services : /\ services'[i].name = services[i].name
                               /\ services'[i].project = services[i].project
                               /\ services'[i].deps = services[i].deps
  BY <1>3, <1>5
<1>7. NamesUnique'
  BY <1>5, <1>6 DEF NamesUnique
<1>8. ProjectsAgree'
  BY <1>5, <1>6 DEF ProjectsAgree, Of
<1> QED BY <1>3, <1>5, <1>6, <1>7, <1>8

\* A service of a new name is created under a new id.
LEMMA ServiceAdded ==
  ASSUME Books, files \in [Names -> Code \cup {NoCode}], NEW id \in Fresh,
         NEW config \in Config, ~Taken(config.name), AddService(id, config)
  PROVE  /\ Books' /\ id \in Ids /\ id \notin DOMAIN services
         /\ DOMAIN services' = DOMAIN services \cup {id}
         /\ \A i \in DOMAIN services : services'[i] = services[i]
         /\ services'[id].name = config.name /\ services'[id].deps = config.deps
         /\ services'[id].state = "creating"
<1> USE DEF Books, AddService
<1>1. /\ id \in Ids /\ id \notin DOMAIN services
      /\ \A p \in Projects : id \notin ToSet(projects[p])
  BY DEF Fresh, Listed
<1>2. PICK r : r = Created(config)
  OBVIOUS
<1>3. /\ r \in ServiceRecord /\ r.name = config.name /\ r.deps = config.deps
      /\ r.project = config.project /\ r.state = "creating"
  BY <1>2 DEF Created, Config, ServiceRecord, States
<1>4. /\ DOMAIN services' = DOMAIN services \cup {id} /\ services'[id] = r
      /\ \A i \in DOMAIN services : services'[i] = services[i]
      /\ services' \in [DOMAIN services' -> ServiceRecord]
  BY <1>1, <1>2, <1>3
<1>5. IsFiniteSet(DOMAIN services')
  BY <1>4, FS_AddElement
<1>6. NamesUnique'
  BY <1>3, <1>4 DEF NamesUnique, Taken
<1>7. config.project \in Projects \cup {NoProject}
  BY DEF Config
<1>8. ASSUME NEW p \in Projects
      PROVE  /\ projects'[p] \in Seq(Ids) /\ NoneTwice(projects'[p])
             /\ ToSet(projects'[p]) \cap DOMAIN services' = Of(p)'
  <2>1. /\ projects[p] \in Seq(Ids) /\ ToSet(projects[p]) \cap DOMAIN services = Of(p)
        /\ NoneTwice(projects[p]) /\ id \notin ToSet(projects[p])
    BY <1>1 DEF ProjectsAgree
  <2>2. CASE config.project = p
    <3>1. projects'[p] = Append(projects[p], id) /\ p # NoProject
      BY <2>2, ConstantsAssumption
    <3>2. Of(p)' = Of(p) \cup {id}
      BY <1>1, <1>3, <1>4, <2>2 DEF Of
    <3>3. /\ projects'[p] \in Seq(Ids) /\ NoneTwice(projects'[p])
          /\ ToSet(projects'[p]) = ToSet(projects[p]) \cup {id}
      BY <1>1, <2>1, <3>1, Appended, AppendNew
    <3> QED BY ONLY <1>4, <2>1, <3>2, <3>3
  <2>3. CASE config.project # p
    <3>1. projects'[p] = projects[p]
      BY <2>3
    <3>2. Of(p)' = Of(p)
      BY <1>1, <1>3, <1>4, <2>3 DEF Of
    <3> QED BY ONLY <1>4, <2>1, <3>1, <3>2
  <2> QED BY <2>2, <2>3
<1>9. projects' \in [Projects -> Seq(Ids)]
  <2>1. projects' = [p \in Projects |-> projects'[p]]
    OBVIOUS
  <2> QED BY <1>8, <2>1
<1>10. ProjectsAgree'
  BY <1>8 DEF ProjectsAgree
<1> QED BY <1>1, <1>3, <1>4, <1>5, <1>6, <1>9, <1>10

\* A service is deleted; its id stays on the list of its project.
LEMMA ServiceRemoved ==
  ASSUME Books, NEW id, NEW kept \in BOOLEAN, RemoveService(id, kept)
  PROVE  /\ Books' /\ DOMAIN services' = DOMAIN services \ {id}
         /\ \A i \in DOMAIN services' : services'[i] = services[i]
<1> USE DEF Books, RemoveService
<1>1. /\ DOMAIN services' = DOMAIN services \ {id}
      /\ \A i \in DOMAIN services' : services'[i] = services[i]
      /\ services' \in [DOMAIN services' -> ServiceRecord]
  BY DEF Restrict
<1>2. IsFiniteSet(DOMAIN services')
  <2>1. DOMAIN services' \in SUBSET DOMAIN services
    BY <1>1
  <2> QED BY <2>1, FS_Subset
<1>3. NamesUnique'
  BY <1>1 DEF NamesUnique
<1>4. ProjectsAgree'
  <2>1. SUFFICES ASSUME NEW p \in Projects
                 PROVE  /\ ToSet(projects[p]) \cap DOMAIN services' = Of(p)'
                        /\ NoneTwice(projects[p])
    BY DEF ProjectsAgree
  <2>2. ToSet(projects[p]) \cap DOMAIN services = Of(p) /\ NoneTwice(projects[p])
    BY DEF ProjectsAgree
  <2>3. Of(p)' = Of(p) \ {id}
    BY <1>1 DEF Of
  <2> QED BY ONLY <1>1, <2>2, <2>3
<1> QED BY <1>1, <1>2, <1>3, <1>4

-----------------------------------------------------------------------------
(* The operation that holds the lock *)

\* The invariant, by what it is about.
LEMMA Parts ==
  /\ IInv  <=> /\ Books /\ OpShape /\ op \in OpRecord
               /\ files \in [Names -> Code \cup {NoCode}] /\ requests \in SUBSET Request
               /\ op.kind = "deploy" => Deploying
               /\ op.kind = "teardown" => TearingDown
  /\ IInv' <=> /\ Books' /\ OpShape' /\ op' \in OpRecord
               /\ files' \in [Names -> Code \cup {NoCode}] /\ requests' \in SUBSET Request
               /\ op'.kind = "deploy" => Deploying'
               /\ op'.kind = "teardown" => TearingDown'
BY DEF IInv, TypeOK, Books

\* The steps that leave the services to the others.
LEMMA BooksLeft ==
  ASSUME Books, UNCHANGED <<services, stored, projects>>
  PROVE  Books'
BY DEF Books, NamesUnique, ProjectsAgree, Of

\* A new operation.
LEMMA Begun ==
  ASSUME Books, NEW kind \in Kinds, NEW pc \in Points
  PROVE  /\ Operation(kind, pc) \in OpRecord
         /\ Operation(kind, pc).kind = kind /\ Operation(kind, pc).pc = pc
         /\ Operation(kind, pc).before = DOMAIN services
<1>1. DOMAIN services \in SUBSET Ids
  BY DEF Books
<1> QED BY <1>1 DEF Operation, OpRecord

\* No operation.
LEMMA NothingBegun ==
  ASSUME Books
  PROVE  NoOp \in OpRecord /\ NoOp.kind = "idle" /\ NoOp.pc = "idle"
<1>1. PICK o \in OpRecord : /\ o = Operation("idle", "idle")
                            /\ o.kind = "idle" /\ o.pc = "idle"
  BY Begun DEF Kinds, Points
<1>2. NoOp = [o EXCEPT !.before = {}]
  BY <1>1 DEF NoOp
<1> QED BY <1>1, <1>2 DEF OpRecord

\* What goes on without the lock leaves everything it protects alone.
LEMMA AroundKept ==
  ASSUME IInv, UNCHANGED <<services, stored, projects, op>>,
         files' \in [Names -> Code \cup {NoCode}], requests' \in SUBSET Request
  PROVE  IInv'
<1>1. Books' /\ OpShape' /\ op' \in OpRecord
  BY BooksLeft, Parts DEF OpShape
<1>2. ASSUME op'.kind = "deploy" PROVE Deploying'
  <2>1. Deploying
    BY <1>2 DEF IInv
  <2>2. \A order : FollowsOrder(order)' <=> FollowsOrder(order)
    BY DEF FollowsOrder
  <2>3. \A name : ConfigOf(name)' = ConfigOf(name)
    BY DEF ConfigOf
  <2>4. (op.pc \in {"start", "starting", "ok"} => MadeInOrder)'
    <3>1. MadeInOrder' <=> MadeInOrder
      BY DEF MadeInOrder
    <3>2. op.pc \in {"start", "starting", "ok"} => MadeInOrder
      BY <2>1 DEF Deploying
    <3> QED BY <3>1, <3>2
  <2> QED BY <2>1, <2>2, <2>3, <2>4 DEF Deploying, MadeOnly, Through, Live
<1>3. ASSUME op'.kind = "teardown" PROVE TearingDown'
  <2>1. TearingDown
    BY <1>3 DEF IInv
  <2> QED BY <2>1 DEF TearingDown, Live, Of
<1> QED BY <1>1, <1>2, <1>3, Parts

\* Operations other than deployments and teardowns have no more to keep.
LEMMA SimpleKept ==
  ASSUME IInv, Books', OpShape', op' \in OpRecord,
         op'.kind \notin {"deploy", "teardown"},
         UNCHANGED <<files, requests>>
  PROVE  IInv'
BY Parts

\* run_module writes a module and asks for the lock.
LEMMA UploadKept ==
  ASSUME IInv, NEW name \in Names, NEW code \in Code, NEW nets \in SUBSET Networks,
         Upload(name, code, nets)
  PROVE  IInv'
<1>1. RunRequest(name, code, nets) \in Request
  BY DEF RunRequest, Request
<1> QED BY <1>1, AroundKept, Parts DEF Upload

\* The create handler reads a module and asks for the lock.
LEMMA ReadModuleKept ==
  ASSUME IInv, NEW name \in Names, ReadModule(name)
  PROVE  IInv'
<1>1. files[name] \in Code \cup {NoCode}
  BY Parts
<1>2. [kind |-> "create", name |-> name, digest |-> files[name], networks |-> {}] \in Request
  BY <1>1 DEF Request
<1> QED BY <1>2, AroundKept, Parts DEF ReadModule

\* A create or run-module request gets the lock.
LEMMA CreateRequestedKept ==
  ASSUME IInv, NEW r \in requests, CreateRequested(r)
  PROVE  IInv'
<1> USE Parts DEF CreateRequested
<1>1. r \in Request
  OBVIOUS
<1>2. requests' \in SUBSET Request /\ UNCHANGED files
  OBVIOUS
<1>3. CASE op' = Operation(r.kind, "failed") /\ UNCHANGED <<services, stored, projects>>
  <2>1. r.kind \in {"create", "run"} /\ r.kind \in Kinds /\ "failed" \in Points
    BY <1>1 DEF Request, Kinds, Points
  <2>2. op' \in OpRecord /\ op'.kind = r.kind /\ op'.pc = "failed"
    BY <1>3, <2>1, Begun
  <2>3. OpShape'
    BY <2>1, <2>2 DEF OpShape
  <2> QED BY <1>2, <1>3, <2>1, <2>2, <2>3, BooksLeft
<1>4. CASE ~Taken(r.name) /\ Readable(r.name) /\
           \E id \in Fresh :
             /\ AddService(id, [name |-> r.name, project |-> NoProject,
                                deps |-> {}, mounts |-> {}, digest |-> r.digest])
             /\ \/ r.kind = "create" /\ op' = Operation("create", "ok")
                \/ /\ r.kind = "run"
                   /\ op' = [Operation("run", "start") EXCEPT !.todo = <<id>>]
                \/ /\ r.networks # {} /\ "store" \in Faults
                   /\ op' = Operation("run", "failed")
  <2>1. PICK id \in Fresh :
             /\ AddService(id, [name |-> r.name, project |-> NoProject,
                                deps |-> {}, mounts |-> {}, digest |-> r.digest])
             /\ \/ r.kind = "create" /\ op' = Operation("create", "ok")
                \/ /\ r.kind = "run"
                   /\ op' = [Operation("run", "start") EXCEPT !.todo = <<id>>]
                \/ /\ r.networks # {} /\ "store" \in Faults
                   /\ op' = Operation("run", "failed")
    BY <1>4
  <2>2. PICK config \in Config : /\ config.name = r.name
                                 /\ AddService(id, config)
    <3>1. [name |-> r.name, project |-> NoProject, deps |-> {}, mounts |-> {},
           digest |-> r.digest] \in Config
      BY <1>1 DEF Request, Config
    <3> QED BY <2>1, <3>1
  <2>3. Books' /\ id \in Ids /\ DOMAIN services' = DOMAIN services \cup {id}
    BY <1>4, <2>2, ServiceAdded
  <2>4. /\ {"create", "run"} \subseteq Kinds /\ {"ok", "start", "failed"} \subseteq Points
    BY DEF Kinds, Points
  <2>5. CASE op' = Operation("create", "ok") \/ op' = Operation("run", "failed")
    <3>1. op' \in OpRecord /\ op'.kind \in {"create", "run"} /\ op'.pc \in {"ok", "failed"}
      BY <2>4, <2>5, Begun
    <3>2. OpShape'
      BY <3>1 DEF OpShape
    <3> QED BY <1>2, <2>3, <3>1, <3>2
  <2>6. CASE op' = [Operation("run", "start") EXCEPT !.todo = <<id>>]
    <3>1. <<id>> \in Seq(Ids \cup Names \cup Volumes) /\ ToSet(<<id>>) = {id}
      BY <2>3 DEF ToSet
    <3>2. op' \in OpRecord /\ op'.kind = "run" /\ op'.pc = "start" /\ op'.todo = <<id>>
      <4>1. PICK o \in OpRecord : o = Operation("run", "start") /\ o.kind = "run" /\ o.pc = "start"
        BY <2>4, Begun
      <4>2. op' = [o EXCEPT !.todo = <<id>>]
        BY <2>6, <4>1
      <4> QED BY <3>1, <4>1, <4>2 DEF OpRecord
    <3>3. OpShape'
      BY <2>3, <3>1, <3>2 DEF OpShape
    <3> QED BY <1>2, <2>3, <3>2, <3>3
  <2> QED BY <2>1, <2>5, <2>6
<1> QED BY <1>3, <1>4

\* The parts of the record.
LEMMA OpParts ==
  ASSUME op \in OpRecord
  PROVE  /\ op.kind \in Kinds /\ op.pc \in Points /\ op.at \in Ids \cup {NoId}
         /\ op.todo \in Seq(Ids \cup Names \cup Volumes)
         /\ op.made \in Seq(Ids \cup Networks) /\ op.configs \in Seq(Config)
BY DEF OpRecord

\* The operation goes on at another point.
LEMMA WentTo ==
  ASSUME op \in OpRecord, NEW pc \in Points, Goto(pc)
  PROVE  /\ op' \in OpRecord /\ op'.pc = pc /\ op'.kind = op.kind /\ op'.at = op.at
         /\ op'.todo = op.todo /\ op'.made = op.made /\ op'.before = op.before
         /\ op'.mortar = op.mortar /\ op'.configs = op.configs
BY DEF Goto, OpRecord

\* The operation ends.
LEMMA Ended ==
  ASSUME op \in OpRecord, NEW ok \in BOOLEAN, Finish(ok)
  PROVE  /\ op' \in OpRecord /\ op'.pc = (IF ok THEN "ok" ELSE "failed") /\ op'.kind = op.kind
         /\ op'.todo = op.todo /\ op'.made = op.made /\ op'.before = op.before
         /\ op'.mortar = op.mortar /\ op'.configs = op.configs
<1>1. PICK pc \in Points : pc = (IF ok THEN "ok" ELSE "failed")
  BY DEF Points
<1>2. op' = [op EXCEPT !.pc = pc, !.at = NoId]
  BY <1>1 DEF Finish
<1> QED BY <1>1, <1>2 DEF OpRecord

\* The first of the list is done with.
LEMMA FirstDone ==
  ASSUME op \in OpRecord, op.todo # <<>>, NEW pc \in Points,
         op' = [op EXCEPT !.pc = pc, !.at = NoId, !.todo = Tail(@)]
  PROVE  /\ op' \in OpRecord /\ op'.pc = pc /\ op'.kind = op.kind
         /\ op'.todo = Tail(op.todo) /\ op'.made = op.made /\ op'.before = op.before
         /\ op'.mortar = op.mortar /\ op'.configs = op.configs
<1>1. Tail(op.todo) \in Seq(Ids \cup Names \cup Volumes)
  BY OpParts, HeadAndTail
<1> QED BY <1>1 DEF OpRecord

\* Requests that are refused or done with.
LEMMA AnsweredKept ==
  ASSUME IInv, op' = NoOp, UNCHANGED <<services, stored, projects, files, requests>>
  PROVE  IInv'
<1>1. Books' /\ op' \in OpRecord /\ op'.kind = "idle" /\ op'.pc = "idle"
  BY BooksLeft, NothingBegun, Parts
<1>2. OpShape'
  BY <1>1 DEF OpShape
<1> QED BY <1>1, <1>2, SimpleKept

\* The daemon starts anew.
LEMMA RestartKept ==
  ASSUME IInv, Restart
  PROVE  IInv'
<1> USE Parts DEF Restart
<1>1. op' \in OpRecord /\ op'.kind = "idle" /\ op'.pc = "idle"
  BY NothingBegun
<1>2. OpShape'
  BY <1>1 DEF OpShape
<1>3. Books'
  <2>1. DOMAIN services' = {} /\ services' \in [{} -> ServiceRecord]
    BY DEF NoServices
  <2>2. IsFiniteSet({})
    BY FS_EmptySet
  <2>3. \A p \in Projects : projects'[p] = <<>> /\ Of(p)' = {}
    BY <2>1 DEF Of
  <2>4. projects' \in [Projects -> Seq(Ids)]
    OBVIOUS
  <2>5. ProjectsAgree'
    BY <2>3 DEF ProjectsAgree, ToSet, NoneTwice
  <2> QED BY <2>1, <2>2, <2>4, <2>5 DEF Books, NamesUnique
<1> QED BY <1>1, <1>2, <1>3

\* start, stop or delete of one service.
LEMMA RequestedKept ==
  ASSUME IInv, NEW kind \in {"start", "stop", "delete"}, NEW id \in DOMAIN services,
         Requested(kind, id)
  PROVE  IInv'
<1> USE Parts DEF Requested
<1>1. Books' /\ id \in Ids
  BY BooksLeft DEF Books
<1>2. CASE kind = "start"
  <2>1. PICK o \in OpRecord : o = Operation("start", "start") /\ o.kind = "start" /\ o.pc = "start"
    BY Begun DEF Kinds, Points
  <2>2. op' = [o EXCEPT !.todo = <<id>>]
    BY <1>2, <2>1
  <2>3. <<id>> \in Seq(Ids \cup Names \cup Volumes) /\ ToSet(<<id>>) = {id}
    BY <1>1 DEF ToSet
  <2>4. op' \in OpRecord /\ op'.kind = "start" /\ op'.pc = "start" /\ op'.todo = <<id>>
    BY <2>1, <2>2, <2>3 DEF OpRecord
  <2>5. OpShape'
    BY <2>3, <2>4 DEF OpShape
  <2> QED BY <1>1, <2>4, <2>5, SimpleKept
<1>3. CASE kind \in {"stop", "delete"}
  <2>1. PICK o \in OpRecord : o = Operation(kind, kind) /\ o.kind = kind /\ o.pc = kind
    <3>1. kind \in Kinds /\ kind \in Points
      BY DEF Kinds, Points
    <3> QED BY <3>1, Begun
  <2>2. op' = [o EXCEPT !.at = id]
    BY <1>3, <2>1
  <2>3. op' \in OpRecord /\ op'.kind = kind /\ op'.pc = kind /\ op'.at = id
    BY <1>1, <2>1, <2>2 DEF OpRecord
  <2>4. OpShape'
    BY <1>3, <2>3 DEF OpShape
  <2> QED BY <1>1, <1>3, <2>3, <2>4, SimpleKept
<1> QED BY <1>2, <1>3

-----------------------------------------------------------------------------
(* Starting *)

\* Services change state at most.
OnlyStates ==
  /\ DOMAIN services' = DOMAIN services
  /\ \A i \in DOMAIN services : /\ services'[i].name = services[i].name
                               /\ services'[i].project = services[i].project
                               /\ services'[i].deps = services[i].deps

\* What a deployment says of the services it made, their states aside.
LEMMA MadeStays ==
  ASSUME Books, op \in OpRecord, OnlyStates,
         op'.made = op.made, op'.before = op.before, op'.mortar = op.mortar,
         MadeOnly(op.made), MadeInOrder,
         {services[op.made[i]].name : i \in DOMAIN op.made} = Known(op.mortar.services)
  PROVE  /\ MadeOnly(op.made)' /\ MadeInOrder'
         /\ {services'[op'.made[i]].name : i \in DOMAIN op'.made} = Known(op'.mortar.services)
<1>1. \A i \in DOMAIN op.made : op.made[i] \in DOMAIN services
  BY DEF MadeOnly, ToSet
<1>2. MadeOnly(op.made)'
  BY DEF MadeOnly, OnlyStates
<1>3. DOMAIN op.made = 1 .. Len(op.made) /\ Len(op.made) \in Nat
  BY OpParts, SeqFacts
<1>4. MadeInOrder'
  <2>1. SUFFICES ASSUME NEW i \in DOMAIN op.made, NEW dep \in services[op.made[i]].deps
                 PROVE  \E j \in 1 .. (i - 1) : services'[op.made[j]].name = dep
    BY <1>1 DEF MadeInOrder, OnlyStates
  <2>2. PICK j \in 1 .. (i - 1) : services[op.made[j]].name = dep
    BY DEF MadeInOrder
  <2>3. j \in DOMAIN op.made
    BY <1>3
  <2> QED BY <1>1, <2>2, <2>3 DEF OnlyStates
<1>5. \A i \in DOMAIN op.made : services'[op.made[i]].name = services[op.made[i]].name
  BY <1>1 DEF OnlyStates
<1> QED BY <1>2, <1>4, <1>5

\* The deployment is through with one more service.
LEMMA OneMoreStarted ==
  ASSUME IInv, op.kind = "deploy", op.pc \in {"start", "starting"}, op.todo # <<>>,
         OnlyStates,
         \A i \in DOMAIN services :
           services[i].state # "creating" => services'[i].state # "creating",
         services'[Head(op.todo)].state # "creating",
         op' = [op EXCEPT !.pc = "start", !.at = NoId, !.todo = Tail(@)]
  PROVE  Deploying'
<1>1. /\ Books /\ op \in OpRecord /\ Deploying
  BY Parts
<1>2. /\ op' \in OpRecord /\ op'.pc = "start" /\ op'.todo = Tail(op.todo)
      /\ op'.made = op.made /\ op'.before = op.before /\ op'.mortar = op.mortar
  BY <1>1, FirstDone DEF Points
<1>3. /\ MadeOnly(op.made)' /\ MadeInOrder'
      /\ {services'[op'.made[i]].name : i \in DOMAIN op'.made} = Known(op'.mortar.services)
  BY <1>1, <1>2, MadeStays DEF Deploying
<1>4. /\ op.todo \in Seq(Ids \cup Names \cup Volumes) /\ op.made \in Seq(Ids \cup Networks)
      /\ Through >= 0 /\ \A i \in DOMAIN op.todo : op.todo[i] = op.made[Through + i]
  BY <1>1, OpParts DEF Deploying
<1>5. /\ Through' >= 0
      /\ \A i \in DOMAIN op'.todo : op'.todo[i] = op'.made[Through' + i]
      /\ \A i \in 1 .. Through' :
           i \in DOMAIN op.made /\ (i \in 1 .. Through \/ op.made[i] = Head(op.todo))
  <2>1. /\ Len(op.made) - Len(Tail(op.todo)) >= 0
        /\ \A i \in DOMAIN Tail(op.todo) :
             Tail(op.todo)[i] = op.made[(Len(op.made) - Len(Tail(op.todo))) + i]
        /\ \A i \in 1 .. (Len(op.made) - Len(Tail(op.todo))) :
             /\ i \in DOMAIN op.made
             /\ i \in 1 .. (Len(op.made) - Len(op.todo)) \/ op.made[i] = Head(op.todo)
    <3>1. PICK rest, all : rest = op.todo /\ all = op.made
      OBVIOUS
    <3>2. /\ rest \in Seq(Ids \cup Names \cup Volumes) /\ all \in Seq(Ids \cup Networks)
          /\ rest # <<>> /\ Len(all) - Len(rest) >= 0
          /\ \A i \in DOMAIN rest : rest[i] = all[(Len(all) - Len(rest)) + i]
      BY <1>4, <3>1 DEF Through
    <3>3. /\ Len(all) - Len(Tail(rest)) >= 0
          /\ \A i \in DOMAIN Tail(rest) :
               Tail(rest)[i] = all[(Len(all) - Len(Tail(rest))) + i]
          /\ \A i \in 1 .. (Len(all) - Len(Tail(rest))) :
               /\ i \in DOMAIN all
               /\ i \in 1 .. (Len(all) - Len(rest)) \/ all[i] = Head(rest)
      BY ONLY <3>2, SuffixTail
    <3> QED BY ONLY <3>1, <3>3
  <2>2. Through' = Len(op.made) - Len(Tail(op.todo)) /\ Through = Len(op.made) - Len(op.todo)
    BY <1>2 DEF Through
  <2> QED BY <1>2, <2>1, <2>2
<1>6. ASSUME NEW i \in 1 .. Through' PROVE services'[op.made[i]].state # "creating"
  <2>1. CASE op.made[i] = Head(op.todo)
    BY <2>1
  <2>2. CASE i \in 1 .. Through
    <3>1. op.made[i] \in DOMAIN services
      BY <1>1, <1>5 DEF Deploying, MadeOnly, ToSet
    <3>2. services[op.made[i]].state # "creating"
      BY <1>1, <2>2 DEF Deploying, Live
    <3> QED BY <3>1, <3>2
  <2> QED BY <1>5, <2>1, <2>2
<1>7. op'.mortar \in Mortars
  BY <1>1, <1>2 DEF Deploying
<1> QED BY <1>2, <1>3, <1>5, <1>6, <1>7 DEF Deploying, Live, MadeOnly

\* What to start and what to work on are there, and the states are known.
LEMMA Works ==
  ASSUME IInv
  PROVE  /\ (op.pc \in {"start", "starting"} /\ op.todo # <<>>) =>
              Head(op.todo) \in DOMAIN services /\ ToSet(Tail(op.todo)) \subseteq DOMAIN services
         /\ op.pc = "starting" => /\ op.todo # <<>> /\ op.at = Head(op.todo)
                                  /\ op.at \in DOMAIN services
         /\ op.pc \in {"stop", "stopping", "delete"} => op.at \in DOMAIN services
         /\ \A i \in DOMAIN services : services[i].state \in States
<1>1. /\ op.todo \in Seq(Ids \cup Names \cup Volumes)
      /\ services \in [DOMAIN services -> ServiceRecord]
  BY Parts, OpParts DEF Books
<1>2. ASSUME op.pc \in {"start", "starting"}, op.todo # <<>>
      PROVE  Head(op.todo) \in DOMAIN services /\ ToSet(Tail(op.todo)) \subseteq DOMAIN services
  BY <1>1, <1>2, HeadAndTail DEF IInv, OpShape
<1>3. \A i \in DOMAIN services : services[i].state \in States
  BY <1>1 DEF ServiceRecord
<1> QED BY <1>2, <1>3 DEF IInv, OpShape

\* A start goes on with the next service, or ends.
LEMMA StartEndedKept ==
  ASSUME IInv, op.kind \in {"start", "run", "deploy"}, op.pc \in {"start", "starting"},
         op.todo # <<>>, Books', OnlyStates,
         ToSet(Tail(op.todo)) \subseteq DOMAIN services,
         \A i \in DOMAIN services :
           services[i].state # "creating" => services'[i].state # "creating",
         services'[Head(op.todo)].state # "creating",
         NEW ok \in BOOLEAN, StartEnded(ok), UNCHANGED <<files, requests>>
  PROVE  IInv'
<1>1. op \in OpRecord
  BY Parts
<1>2. CASE ok \/ op.kind = "deploy"
  <2>1. op' = [op EXCEPT !.pc = "start", !.at = NoId, !.todo = Tail(@)]
    BY <1>2 DEF StartEnded
  <2>2. /\ op' \in OpRecord /\ op'.pc = "start" /\ op'.kind = op.kind
        /\ op'.todo = Tail(op.todo)
    BY <1>1, <2>1, FirstDone DEF Points
  <2>3. OpShape'
    BY <2>2 DEF OpShape, OnlyStates
  <2>4. op'.kind = "deploy" => Deploying'
    BY <2>1, <2>2, OneMoreStarted
  <2> QED BY <2>2, <2>3, <2>4, Parts
<1>3. CASE ~ (ok \/ op.kind = "deploy")
  <2>1. op' \in OpRecord /\ op'.pc = "failed" /\ op'.kind = op.kind
    <3>1. Finish(FALSE)
      BY <1>3 DEF StartEnded
    <3> QED BY <1>1, <3>1, Ended
  <2>2. OpShape'
    BY <2>1 DEF OpShape
  <2> QED BY <1>3, <2>1, <2>2, SimpleKept
<1> QED BY <1>2, <1>3

\* A service is taken out of Creating, or cannot be started.
LEMMA StartBeginKept ==
  ASSUME IInv, StartBegin
  PROVE  IInv'
<1> DEFINE id == Head(op.todo)
<1>1. /\ op.pc = "start" /\ op.todo # <<>> /\ id \in DOMAIN services
      /\ ToSet(Tail(op.todo)) \subseteq DOMAIN services
      /\ op.kind \in {"start", "run", "deploy"} /\ op \in OpRecord /\ Books
      /\ UNCHANGED <<stored, projects, files, requests>>
  BY Works, Parts DEF StartBegin, At, OpShape
<1>2. CASE services[id].state \in CanStart \cup {"creating"}
  <2>1. SetState(id, "starting") /\ op' = [op EXCEPT !.pc = "starting", !.at = id]
    BY <1>2 DEF StartBegin
  <2>2. /\ Books' /\ OnlyStates /\ services'[id].state = "starting"
        /\ \A i \in DOMAIN services : i # id => services'[i] = services[i]
    <3>1. "starting" \in States
      BY DEF States, CanStop
    <3> QED BY <1>1, <2>1, <3>1, StateSet DEF OnlyStates
  <2>3. /\ op' \in OpRecord /\ op'.pc = "starting" /\ op'.kind = op.kind /\ op'.at = id
        /\ op'.todo = op.todo /\ op'.made = op.made /\ op'.before = op.before
        /\ op'.mortar = op.mortar
    <3>1. id \in Ids
      BY <1>1 DEF Books
    <3> QED BY <1>1, <2>1, <3>1 DEF OpRecord, Points
  <2>4. OpShape'
    <3>1. ToSet(op.todo) \subseteq DOMAIN services
      BY <1>1 DEF IInv, OpShape
    <3> QED BY <1>1, <2>2, <2>3, <3>1 DEF OpShape, OnlyStates
  <2>5. ASSUME op'.kind = "deploy" PROVE Deploying'
    <3>1. Deploying
      BY <2>3, <2>5 DEF IInv
    <3>2. /\ MadeOnly(op.made)' /\ MadeInOrder'
          /\ {services'[op'.made[i]].name : i \in DOMAIN op'.made} = Known(op'.mortar.services)
      BY <1>1, <2>2, <2>3, <3>1, MadeStays DEF Deploying
    <3>3. \A i \in 1 .. Through : services[op.made[i]].state # "creating"
      BY <1>1, <3>1 DEF Deploying, Live
    <3>4. \A i \in 1 .. Through : op.made[i] \in DOMAIN services
      <4>1. PICK n \in Nat, m \in Nat : /\ n = Len(op.todo) /\ m = Len(op.made)
                                        /\ DOMAIN op.made = 1 .. m
        BY <1>1, OpParts, SeqFacts
      <4>2. Through = m - n
        BY <4>1 DEF Through
      <4>3. 1 .. (m - n) \subseteq 1 .. m
        OBVIOUS
      <4> QED BY <1>1, <3>1, <4>1, <4>2, <4>3 DEF Deploying, MadeOnly, ToSet
    <3>5. Through' = Through
      BY <2>3 DEF Through
    <3> QED BY <1>1, <2>2, <2>3, <3>1, <3>2, <3>3, <3>4, <3>5 DEF Deploying, Live, MadeOnly
  <2>6. op'.kind # "teardown"
    BY <1>1, <2>3
  <2> QED BY <1>1, <2>2, <2>3, <2>4, <2>5, <2>6, Parts
<1>3. CASE services[id].state \notin CanStart \cup {"creating"}
  <2>1. StartEnded(FALSE) /\ UNCHANGED services
    BY <1>3 DEF StartBegin
  <2>2. Books' /\ OnlyStates
    BY <1>1, <2>1, BooksLeft DEF OnlyStates
  <2> QED BY <1>1, <1>3, <2>1, <2>2, StartEndedKept
<1> QED BY <1>2, <1>3

\* The service runs, or does not.
LEMMA StartEndKept ==
  ASSUME IInv, StartEnd
  PROVE  IInv'
<1>1. /\ op.pc = "starting" /\ op.todo # <<>> /\ op.at = Head(op.todo)
      /\ op.at \in DOMAIN services /\ op.kind \in {"start", "run", "deploy"} /\ Books
      /\ UNCHANGED <<stored, projects, files, requests>>
  BY Works, Parts DEF StartEnd, At, OpShape
<1>2. PICK s \in {"running", "failed", "starting"}, ok \in BOOLEAN :
        SetState(op.at, s) /\ StartEnded(ok)
  BY DEF StartEnd
<1>3. /\ Books' /\ OnlyStates /\ services'[op.at].state = s
      /\ \A i \in DOMAIN services : i # op.at => services'[i] = services[i]
  <2>1. s \in States
    BY DEF States, CanStart, CanStop
  <2> QED BY <1>1, <1>2, <2>1, StateSet DEF OnlyStates
<1>4. ToSet(Tail(op.todo)) \subseteq DOMAIN services
  BY <1>1, Works
<1> QED BY <1>1, <1>2, <1>3, <1>4, StartEndedKept

\* Everything was started, or tried.
LEMMA StartsDoneKept ==
  ASSUME IInv, StartsDone
  PROVE  IInv'
<1>1. /\ op.pc = "start" /\ op.todo = <<>> /\ Finish(TRUE) /\ op \in OpRecord /\ Books
      /\ UNCHANGED <<services, stored, projects, files, requests>>
      /\ op.kind \in {"start", "run", "deploy"}
  BY Parts DEF StartsDone, At, OpShape
<1>2. /\ op' \in OpRecord /\ op'.pc = "ok" /\ op'.kind = op.kind /\ op'.made = op.made
      /\ op'.before = op.before /\ op'.mortar = op.mortar
  BY <1>1, Ended
<1>3. OpShape' /\ Books' /\ OnlyStates
  BY <1>1, <1>2, BooksLeft DEF OpShape, OnlyStates
<1>4. ASSUME op'.kind = "deploy" PROVE Deploying'
  <2>1. Deploying
    BY <1>2, <1>4 DEF IInv
  <2>2. /\ MadeOnly(op.made)' /\ MadeInOrder'
        /\ {services'[op'.made[i]].name : i \in DOMAIN op'.made} = Known(op'.mortar.services)
    BY <1>1, <1>2, <1>3, <2>1, MadeStays DEF Deploying
  <2>3. \A i \in DOMAIN op.made : services[op.made[i]].state # "creating"
    <3>1. /\ Len(op.made) \in Nat /\ DOMAIN op.made = 1 .. Len(op.made) /\ Len(op.todo) = 0
      BY <1>1, OpParts, SeqFacts
    <3>2. Through = Len(op.made)
      BY <3>1 DEF Through
    <3> QED BY <1>1, <2>1, <3>1, <3>2 DEF Deploying, Live
  <2> QED BY <1>1, <1>2, <2>1, <2>2, <2>3 DEF Deploying, Live, MadeOnly
<1> QED BY <1>1, <1>2, <1>3, <1>4, Parts

-----------------------------------------------------------------------------
(* Stopping, deleting and tearing down *)

\* A teardown works on the service of the next name.
LEMMA TeardownWorks ==
  ASSUME IInv, op.kind = "teardown", op.pc # "failed", OnlyStates, op' \in OpRecord,
         op'.mortar = op.mortar, op'.todo = op.todo, op.todo # <<>>,
         op'.pc \in {"stopping", "delete"}, op'.at \in DOMAIN services,
         services[op'.at].name = Head(op.todo),
         \A i \in DOMAIN services : i # op'.at => services'[i] = services[i],
         op'.pc = "delete" => services'[op'.at].state \notin CanStop
  PROVE  TearingDown'
<1>1. TearingDown /\ op.todo \in Seq(Ids \cup Names \cup Volumes)
  BY Parts, OpParts
<1>2. Of(op.mortar)' = Of(op.mortar) /\ Of(op.mortar) \subseteq DOMAIN services
  <2>1. Of(op.mortar) = {id \in DOMAIN services : services[id].project = op.mortar}
    BY DEF Of
  <2>2. Of(op.mortar)' = {id \in DOMAIN services' : services'[id].project = op.mortar}
    BY DEF Of
  <2> QED BY <2>1, <2>2 DEF OnlyStates
<1>3. Head(op.todo) \in ToSet(op.todo)
  BY <1>1, HeadAndTail
<1>4. ASSUME NEW id \in Of(op.mortar)
      PROVE  services'[id].name \in ToSet(op.todo) \/ services'[id].state = "stopping"
  <2>1. CASE id = op'.at
    BY <1>2, <1>3, <2>1 DEF OnlyStates
  <2>2. CASE id # op'.at
    BY <1>1, <1>2, <2>2 DEF TearingDown, Live
  <2> QED BY <2>1, <2>2
<1>5. \A id \in DOMAIN services' :
        services'[id].name \in ToSet(op.todo) => id \in Of(op.mortar)
  BY <1>1 DEF TearingDown, OnlyStates
<1>6. \A i, j \in DOMAIN op.todo : i <= j =>
        \A a, b \in DOMAIN services' :
          (services'[a].name = op.todo[i] /\ services'[b].name = op.todo[j]) =>
            services'[a].name \notin services'[b].deps
  BY <1>1 DEF TearingDown, OnlyStates
<1>7. services'[op'.at].name = Head(op.todo)
  BY DEF OnlyStates
<1>8. op.mortar \in Projects
  BY <1>1 DEF TearingDown
<1> QED BY <1>2, <1>4, <1>5, <1>6, <1>7, <1>8 DEF TearingDown, Live

\* A teardown is through with the next name: its service is gone, or was
\* left in Stopping.
LEMMA TeardownGoesOn ==
  ASSUME IInv, op.kind = "teardown", op.pc # "failed", op.todo # <<>>,
         op'.mortar = op.mortar, op'.todo = Tail(op.todo), op'.pc = "teardown",
         DOMAIN services' \subseteq DOMAIN services,
         \A i \in DOMAIN services' : services'[i] = services[i],
         \A i \in DOMAIN services' :
           services[i].name = Head(op.todo) => services[i].state = "stopping"
  PROVE  TearingDown'
<1>1. TearingDown /\ op.todo \in Seq(Ids \cup Names \cup Volumes)
  BY Parts, OpParts
<1>2. /\ ToSet(op.todo) = {Head(op.todo)} \cup ToSet(Tail(op.todo))
      /\ \A i \in DOMAIN Tail(op.todo) : i + 1 \in DOMAIN op.todo /\ Tail(op.todo)[i] = op.todo[i + 1]
      /\ DOMAIN Tail(op.todo) \subseteq Nat
  <2>1. Tail(op.todo) \in Seq(Ids \cup Names \cup Volumes)
    BY <1>1, HeadAndTail
  <2>2. DOMAIN Tail(op.todo) = 1 .. Len(Tail(op.todo)) /\ Len(Tail(op.todo)) \in Nat
    BY <2>1, SeqFacts
  <2> QED BY <1>1, <2>2, HeadAndTail
<1>3. \A id : id \in Of(op.mortar)' <=> id \in DOMAIN services' /\ id \in Of(op.mortar)
  <2>1. Of(op.mortar) = {id \in DOMAIN services : services[id].project = op.mortar}
    BY DEF Of
  <2>2. Of(op.mortar)' = {id \in DOMAIN services' : services'[id].project = op.mortar}
    BY DEF Of
  <2> QED BY <2>1, <2>2
<1>4. \A id \in Of(op.mortar)' :
        services'[id].name \in ToSet(op'.todo) \/ services'[id].state = "stopping"
  BY <1>1, <1>2, <1>3 DEF TearingDown, Live
<1>5. \A id \in DOMAIN services' :
        services'[id].name \in ToSet(op'.todo) => id \in Of(op.mortar)'
  BY <1>1, <1>2, <1>3 DEF TearingDown
<1>6. ASSUME NEW i \in DOMAIN op'.todo, NEW j \in DOMAIN op'.todo, i <= j,
             NEW a \in DOMAIN services', NEW b \in DOMAIN services',
             services'[a].name = op'.todo[i], services'[b].name = op'.todo[j]
      PROVE  services'[a].name \notin services'[b].deps
  <2>1. i + 1 \in DOMAIN op.todo /\ j + 1 \in DOMAIN op.todo /\ i + 1 <= j + 1
    BY <1>2, <1>6
  <2>2. services[a].name = op.todo[i + 1] /\ services[b].name = op.todo[j + 1]
    BY <1>2, <1>6
  <2> QED BY <1>1, <2>1, <2>2 DEF TearingDown
<1>7. op'.mortar \in Projects
  BY <1>1 DEF TearingDown
<1>8. (\A i, j \in DOMAIN op.todo : i <= j =>
         \A a, b \in DOMAIN services :
           (services[a].name = op.todo[i] /\ services[b].name = op.todo[j]) =>
             services[a].name \notin services[b].deps)'
  BY <1>6
<1> QED BY <1>4, <1>5, <1>7, <1>8 DEF TearingDown, Live

\* A stop or a deletion ends, whatever it did to the services.
LEMMA SimpleEnds ==
  ASSUME IInv, op.kind \in {"stop", "delete"}, NEW ok \in BOOLEAN, Finish(ok), Books',
         UNCHANGED <<files, requests>>
  PROVE  IInv'
<1>1. op' \in OpRecord /\ op'.pc \in {"ok", "failed"} /\ op'.kind = op.kind
  BY Parts, Ended
<1>2. OpShape'
  BY <1>1 DEF OpShape
<1> QED BY <1>1, <1>2, SimpleKept

\* A stop begins to drain the instances.
LEMMA StopBeginKept ==
  ASSUME IInv, StopBegin
  PROVE  IInv'
<1>1. /\ op.pc = "stop" /\ op.at \in DOMAIN services /\ op \in OpRecord /\ Books
      /\ UNCHANGED <<stored, projects, files, requests>>
  BY Works, Parts DEF StopBegin, At
<1>2. op.kind = "stop"
  BY <1>1, Parts DEF OpShape
<1>3. CASE SetState(op.at, "stopping") /\ Goto("stopping")
  <2>1. Books' /\ DOMAIN services' = DOMAIN services
    BY <1>1, <1>3, StateSet DEF States
  <2>2. op' \in OpRecord /\ op'.pc = "stopping" /\ op'.kind = "stop" /\ op'.at = op.at
    BY <1>1, <1>2, <1>3, WentTo DEF Points
  <2>3. OpShape'
    BY <1>1, <2>1, <2>2 DEF OpShape
  <2> QED BY <1>1, <2>1, <2>2, <2>3, SimpleKept
<1>4. CASE Finish(FALSE) /\ UNCHANGED services
  BY <1>1, <1>2, <1>4, BooksLeft, SimpleEnds
<1> QED BY <1>3, <1>4 DEF StopBegin

\* The instances are drained.
LEMMA StopEndKept ==
  ASSUME IInv, StopEnd
  PROVE  IInv'
<1>1. /\ op.pc = "stopping" /\ op.at \in DOMAIN services /\ op \in OpRecord /\ Books
      /\ op.kind \in {"stop", "teardown"} /\ SetState(op.at, "stopped")
      /\ UNCHANGED <<stored, projects, files, requests>>
  BY Works, Parts DEF StopEnd, At, OpShape
<1>2. /\ Books' /\ OnlyStates /\ services'[op.at].state = "stopped"
      /\ \A i \in DOMAIN services : i # op.at => services'[i] = services[i]
  <2>1. "stopped" \in States
    BY DEF States, CanStart
  <2> QED BY <1>1, <2>1, StateSet DEF OnlyStates
<1>3. CASE op.kind = "teardown"
  <2>1. Goto("delete") /\ TearingDown
    BY <1>3, Parts DEF StopEnd
  <2>2. /\ op' \in OpRecord /\ op'.pc = "delete" /\ op'.kind = op.kind /\ op'.at = op.at
        /\ op'.todo = op.todo /\ op'.mortar = op.mortar
    BY <1>1, <2>1, WentTo DEF Points
  <2>3. OpShape'
    BY <1>1, <1>2, <1>3, <2>2 DEF OpShape, OnlyStates
  <2>4. op.todo # <<>> /\ services[op.at].name = Head(op.todo)
    BY <1>1, <2>1 DEF TearingDown
  <2>5. TearingDown'
    BY <1>1, <1>2, <1>3, <2>2, <2>4, TeardownWorks DEF CanStop
  <2> QED BY <1>1, <1>2, <1>3, <2>2, <2>3, <2>5, Parts
<1>4. CASE op.kind # "teardown"
  <2>1. PICK ok \in BOOLEAN : Finish(ok)
    BY <1>4 DEF StopEnd
  <2> QED BY <1>1, <1>2, <1>4, <2>1, SimpleEnds
<1> QED BY <1>3, <1>4

\* A service is deleted, or cannot be.
LEMMA DeleteServiceKept ==
  ASSUME IInv, DeleteService
  PROVE  IInv'
<1> DEFINE ok == services[op.at].state \in Deletable
<1>1. /\ op.pc = "delete" /\ op.at \in DOMAIN services /\ op \in OpRecord /\ Books
      /\ op.kind \in {"delete", "teardown"} /\ UNCHANGED <<files, requests>>
      /\ services[op.at].state \in States
  BY Works, Parts DEF DeleteService, At, OpShape
<1>2. PICK kept \in BOOLEAN :
        /\ IF ok THEN RemoveService(op.at, kept)
           ELSE ~kept /\ UNCHANGED <<services, stored, projects>>
        /\ IF op.kind = "teardown"
           THEN op' = [op EXCEPT !.pc = "teardown", !.at = NoId, !.todo = Tail(@)]
           ELSE Finish(ok /\ ~kept)
  BY DEF DeleteService
<1>3. /\ Books' /\ DOMAIN services' \subseteq DOMAIN services
      /\ \A i \in DOMAIN services' : services'[i] = services[i]
      /\ ok => op.at \notin DOMAIN services'
  <2>1. CASE ok
    BY <1>1, <1>2, <2>1, ServiceRemoved
  <2>2. CASE ~ok
    BY <1>1, <1>2, <2>2, BooksLeft
  <2> QED BY <2>1, <2>2
<1>4. CASE op.kind = "teardown"
  <2>1. TearingDown
    BY <1>4, Parts
  <2>2. op.todo # <<>> /\ services[op.at].name = Head(op.todo) /\ services[op.at].state \notin CanStop
    BY <1>1, <2>1 DEF TearingDown, Live
  <2>3. /\ op' \in OpRecord /\ op'.pc = "teardown" /\ op'.kind = op.kind
        /\ op'.todo = Tail(op.todo) /\ op'.mortar = op.mortar
    BY <1>1, <1>2, <1>4, <2>2, FirstDone DEF Points
  <2>4. OpShape'
    BY <1>4, <2>3 DEF OpShape
  <2>5. ASSUME NEW i \in DOMAIN services', services[i].name = Head(op.todo)
        PROVE  services[i].state = "stopping"
    <3>1. i = op.at
      BY <1>1, <1>3, <2>2, <2>5 DEF Books, NamesUnique
    <3>2. ~ok
      BY <1>3, <3>1
    <3> QED BY <1>1, <2>2, <3>1, <3>2 DEF States, Deletable, CanDelete, CanStart, CanStop
  <2>6. TearingDown'
    BY <1>1, <1>3, <1>4, <2>2, <2>3, <2>5, TeardownGoesOn
  <2> QED BY <1>1, <1>3, <1>4, <2>3, <2>4, <2>6, Parts
<1>5. CASE op.kind # "teardown"
  BY <1>1, <1>2, <1>3, <1>5, SimpleEnds
<1> QED BY <1>4, <1>5

\* The service of the next name is stopped, deleted or not there any more.
LEMMA TeardownNextKept ==
  ASSUME IInv, TeardownNext
  PROVE  IInv'
<1>1. /\ op.pc = "teardown" /\ op.kind = "teardown" /\ op \in OpRecord /\ Books /\ TearingDown
      /\ UNCHANGED <<stored, projects, files, requests>>
  BY Parts DEF TeardownNext, At, OpShape
<1>2. CASE op.todo = <<>>
  <2>1. Finish(TRUE) /\ UNCHANGED services
    BY <1>2 DEF TeardownNext
  <2>2. /\ op' \in OpRecord /\ op'.pc = "ok" /\ op'.kind = op.kind /\ op'.todo = op.todo
        /\ op'.mortar = op.mortar
    BY <1>1, <2>1, Ended
  <2>3. OpShape' /\ Books'
    BY <1>1, <2>1, <2>2, BooksLeft DEF OpShape
  <2>4. TearingDown'
    BY <1>1, <1>2, <2>1, <2>2 DEF TearingDown, Of, Live
  <2> QED BY <1>1, <2>2, <2>3, <2>4, Parts
<1>3. CASE op.todo # <<>> /\ \E id \in DOMAIN services : services[id].name = Head(op.todo)
  <2>1. PICK id \in DOMAIN services :
          /\ services[id].name = Head(op.todo)
          /\ op' = [op EXCEPT !.at = id,
                      !.pc = IF services[id].state \in CanStop
                             THEN "stopping" ELSE "delete"]
          /\ IF services[id].state \in CanStop
             THEN SetState(id, "stopping") ELSE UNCHANGED services
    BY <1>3 DEF TeardownNext
  <2>2. PICK pc \in Points : /\ op' = [op EXCEPT !.at = id, !.pc = pc]
                             /\ pc = IF services[id].state \in CanStop
                                     THEN "stopping" ELSE "delete"
    BY <2>1 DEF Points
  <2>3. /\ op' \in OpRecord /\ op'.pc = pc /\ op'.kind = op.kind /\ op'.at = id
        /\ op'.todo = op.todo /\ op'.mortar = op.mortar
    <3>1. id \in Ids
      BY <1>1 DEF Books
    <3> QED BY <1>1, <2>2, <3>1 DEF OpRecord
  <2>4. /\ Books' /\ OnlyStates
        /\ \A i \in DOMAIN services : i # id => services'[i] = services[i]
        /\ pc = "delete" => services'[id].state \notin CanStop
    <3>1. CASE services[id].state \in CanStop
      BY <1>1, <2>1, <2>2, <3>1, StateSet DEF States, OnlyStates
    <3>2. CASE services[id].state \notin CanStop
      BY <1>1, <2>1, <3>2, BooksLeft DEF OnlyStates
    <3> QED BY <3>1, <3>2
  <2>5. OpShape'
    BY <1>1, <2>2, <2>3, <2>4 DEF OpShape, OnlyStates
  <2>6. TearingDown'
    BY <1>1, <1>3, <2>1, <2>2, <2>3, <2>4, TeardownWorks
  <2> QED BY <1>1, <2>3, <2>4, <2>5, <2>6, Parts
<1>4. CASE op.todo # <<>> /\ ~ \E id \in DOMAIN services : services[id].name = Head(op.todo)
  <2>1. op' = [op EXCEPT !.todo = Tail(@)] /\ UNCHANGED services
    BY <1>4 DEF TeardownNext
  <2>2. Tail(op.todo) \in Seq(Ids \cup Names \cup Volumes)
    BY <1>1, <1>4, OpParts, HeadAndTail
  <2>3. /\ op' \in OpRecord /\ op'.pc = "teardown" /\ op'.kind = op.kind
        /\ op'.todo = Tail(op.todo) /\ op'.mortar = op.mortar
    BY <1>1, <2>1, <2>2 DEF OpRecord
  <2>4. OpShape' /\ Books'
    BY <1>1, <2>1, <2>3, BooksLeft DEF OpShape
  <2>5. TearingDown'
    BY <1>1, <1>4, <2>1, <2>3, TeardownGoesOn
  <2> QED BY <1>1, <2>3, <2>4, <2>5, Parts
<1> QED BY <1>2, <1>3, <1>4

-----------------------------------------------------------------------------
(* Deploying *)

\* A deployment begins.
LEMMA DeployRequestedKept ==
  ASSUME IInv, NEW m \in Mortars, DeployRequested(m)
  PROVE  IInv'
<1> USE Parts DEF DeployRequested
<1>1. PICK o \in OpRecord : /\ o = Operation("deploy", "networks") /\ o.kind = "deploy"
                            /\ o.pc = "networks" /\ o.before = DOMAIN services
  BY Begun DEF Kinds, Points
<1>2. op' = [o EXCEPT !.mortar = m, !.left = m.networks]
  BY <1>1
<1>3. m.networks \in SUBSET Networks
  BY ConstantsAssumption
<1>4. /\ op' \in OpRecord /\ op'.kind = "deploy" /\ op'.pc = "networks" /\ op'.mortar = m
      /\ op'.before = DOMAIN services /\ op'.left = m.networks
  BY <1>1, <1>2, <1>3 DEF OpRecord
<1>5. OpShape' /\ Books'
  BY <1>4, BooksLeft DEF OpShape
<1>6. Deploying'
  BY <1>4, ConstantsAssumption DEF Deploying
<1> QED BY <1>4, <1>5, <1>6

\* The steps of a deployment before its first service.
LEMMA EarlyKept ==
  ASSUME IInv, op.kind = "deploy", op.pc \in {"networks", "volumes", "volume", "configs"},
         op' \in OpRecord, op'.kind = "deploy", op'.mortar = op.mortar,
         op'.before = op.before,
         op'.pc \in {"networks", "volumes", "volume", "configs", "failed"},
         op'.pc = "networks" => op'.left \subseteq Networks,
         op'.pc \in {"volumes", "volume"} => op'.left \subseteq Volumes,
         op'.pc \in {"volumes", "volume", "configs"} => op'.made = <<>>,
         UNCHANGED <<services, stored, projects, files, requests>>
  PROVE  IInv'
<1>1. Deploying /\ Books
  BY Parts
<1>2. OpShape' /\ Books'
  BY <1>1, BooksLeft DEF OpShape
<1>3. Deploying'
  BY <1>1 DEF Deploying
<1> QED BY <1>2, <1>3, Parts

\* A network is created or kept, none can be, or all are there.
LEMMA DeployNetworkKept ==
  ASSUME IInv, DeployNetwork
  PROVE  IInv'
<1>1. /\ op.pc = "networks" /\ op.kind = "deploy" /\ op \in OpRecord /\ op.mortar \in Mortars
      /\ op.left \subseteq Networks /\ op.made \in Seq(Ids \cup Networks)
      /\ UNCHANGED <<services, stored, projects, files, requests>>
  BY Parts, OpParts DEF DeployNetwork, At, OpShape, Deploying
<1>2. PICK pc \in {"networks", "failed", "volumes"}, left \in SUBSET (Networks \cup Volumes),
           made \in Seq(Ids \cup Networks) :
        /\ op' = [op EXCEPT !.pc = pc, !.left = left, !.made = made]
        /\ pc = "networks" => left \subseteq Networks
        /\ pc = "volumes" => made = <<>> /\ left \subseteq Volumes
  <2>1. CASE \E n \in op.left :
               op' = [op EXCEPT !.left = @ \ {n},
                                !.made = IF n \in networks THEN @ ELSE Append(@, n)]
    <3>1. PICK n, made :
            /\ n \in op.left
            /\ op' = [op EXCEPT !.left = op.left \ {n}, !.made = made]
            /\ made = IF n \in networks THEN op.made ELSE Append(op.made, n)
      BY <2>1
    <3>2. made \in Seq(Ids \cup Networks)
      <4>1. n \in Ids \cup Networks
        BY <1>1, <3>1
      <4>2. Append(op.made, n) \in Seq(Ids \cup Networks)
        BY <1>1, <4>1, Appended
      <4> QED BY <1>1, <3>1, <4>2
    <3>3. op.left \ {n} \subseteq Networks
      BY <1>1
    <3>4. op' = [op EXCEPT !.pc = "networks", !.left = op.left \ {n}, !.made = made]
      BY <1>1, <3>1 DEF OpRecord
    <3> QED BY <3>2, <3>3, <3>4
  <2>2. CASE op' = [op EXCEPT !.pc = "failed", !.made = <<>>]
    <3>1. op' = [op EXCEPT !.pc = "failed", !.left = op.left, !.made = <<>>]
      BY <1>1, <2>2 DEF OpRecord
    <3>2. <<>> \in Seq(Ids \cup Networks)
      OBVIOUS
    <3> QED BY <1>1, <3>1, <3>2
  <2>3. CASE op' = [op EXCEPT !.pc = "volumes", !.left = op.mortar.volumes, !.made = <<>>]
    <3>1. op.mortar.volumes \in SUBSET Volumes
      BY <1>1, ConstantsAssumption
    <3>2. <<>> \in Seq(Ids \cup Networks)
      OBVIOUS
    <3> QED BY <2>3, <3>1, <3>2
  <2> QED BY <2>1, <2>2, <2>3 DEF DeployNetwork
<1>3. /\ op' \in OpRecord /\ op'.kind = "deploy" /\ op'.pc = pc /\ op'.mortar = op.mortar
      /\ op'.before = op.before /\ op'.left = left /\ op'.made = made
  BY <1>1, <1>2 DEF OpRecord, Points
<1> QED BY <1>1, <1>2, <1>3, EarlyKept

\* A volume is ensured, cannot be, or all are there.
LEMMA DeployVolumeKept ==
  ASSUME IInv, DeployVolume
  PROVE  IInv'
<1>1. /\ op.pc = "volumes" /\ op.kind = "deploy" /\ op \in OpRecord /\ op.made = <<>>
      /\ op.left \in SUBSET Volumes
      /\ op.mortar \in Mortars /\ op.mortar.volumes \subseteq Volumes
      /\ UNCHANGED <<services, stored, projects, files, requests>>
  BY Parts, ConstantsAssumption DEF DeployVolume, At, OpShape, Deploying, OpRecord
<1>2. CASE \E v \in op.left : op' = [op EXCEPT !.pc = "volume", !.todo = <<v>>]
  <2>1. PICK v \in op.left : op' = [op EXCEPT !.pc = "volume", !.todo = <<v>>]
    BY <1>2
  <2>2. <<v>> \in Seq(Ids \cup Names \cup Volumes)
    BY <1>1, <2>1
  <2>3. /\ op' \in OpRecord /\ op'.kind = "deploy" /\ op'.pc = "volume" /\ op'.made = <<>>
        /\ op'.mortar = op.mortar /\ op'.before = op.before /\ op'.left = op.left
    BY <1>1, <2>1, <2>2 DEF OpRecord, Points
  <2> QED BY <1>1, <2>3, EarlyKept
<1>3. CASE Finish(FALSE)
  <2>1. /\ op' \in OpRecord /\ op'.kind = "deploy" /\ op'.pc = "failed"
        /\ op'.mortar = op.mortar /\ op'.before = op.before
    BY <1>1, <1>3, Ended
  <2> QED BY <1>1, <2>1, EarlyKept
<1>4. CASE Goto("configs")
  <2>1. /\ op' \in OpRecord /\ op'.kind = "deploy" /\ op'.pc = "configs" /\ op'.made = <<>>
        /\ op'.mortar = op.mortar /\ op'.before = op.before
    BY <1>1, <1>4, WentTo DEF Points
  <2> QED BY <1>1, <2>1, EarlyKept
<1> QED BY <1>2, <1>3, <1>4 DEF DeployVolume

\* The volume is there, or was deleted in between.
LEMMA GetVolumeKept ==
  ASSUME IInv, GetVolume
  PROVE  IInv'
<1>1. /\ op.pc = "volume" /\ op.kind = "deploy" /\ op \in OpRecord /\ op.made = <<>>
      /\ op.left \in SUBSET Volumes
      /\ UNCHANGED <<services, stored, projects, files, requests>>
  BY Parts DEF GetVolume, At, OpShape, Deploying
<1>2. CASE op' = [op EXCEPT !.pc = "volumes", !.left = @ \ {Head(op.todo)}, !.todo = <<>>]
  <2>1. PICK left \in SUBSET Volumes :
          op' = [op EXCEPT !.pc = "volumes", !.left = left, !.todo = <<>>]
    <3>1. op.left \ {Head(op.todo)} \in SUBSET Volumes
      BY <1>1
    <3> QED BY <1>2, <3>1
  <2>2. <<>> \in Seq(Ids \cup Names \cup Volumes)
    OBVIOUS
  <2>3. /\ op' \in OpRecord /\ op'.kind = "deploy" /\ op'.pc = "volumes" /\ op'.made = <<>>
        /\ op'.mortar = op.mortar /\ op'.before = op.before /\ op'.left = left
    BY <1>1, <2>1, <2>2 DEF OpRecord, Points
  <2> QED BY <1>1, <2>3, EarlyKept
<1>3. CASE Finish(FALSE)
  <2>1. /\ op' \in OpRecord /\ op'.kind = "deploy" /\ op'.pc = "failed"
        /\ op'.mortar = op.mortar /\ op'.before = op.before
    BY <1>1, <1>3, Ended
  <2> QED BY <1>1, <2>1, EarlyKept
<1> QED BY <1>2, <1>3 DEF GetVolume

\* The configs of a mortar file.
LEMMA ConfigsAre ==
  ASSUME files \in [Names -> Code \cup {NoCode}], NEW m \in Mortars
  PROVE  Configs(m) \in Seq(Config) /\ Known(Configs(m)) = Known(m.services)
<1>1. /\ m.project \in Projects
      /\ m.services \in Seq([name : Names, deps : SUBSET Names, mounts : SUBSET Volumes])
  BY ConstantsAssumption
<1>2. PICK n \in Nat : n = Len(m.services) /\ DOMAIN m.services = 1 .. n
  BY <1>1, SeqFacts
<1>3. \A i \in 1 .. n :
        m.services[i] \in [name : Names, deps : SUBSET Names, mounts : SUBSET Volumes]
  <2>1. PICK R : R = [name : Names, deps : SUBSET Names, mounts : SUBSET Volumes]
    OBVIOUS
  <2>2. m.services \in Seq(R)
    BY <1>1, <2>1
  <2>3. \A i \in DOMAIN m.services : m.services[i] \in R
    BY ONLY <2>2, SeqFacts
  <2> QED BY <1>2, <2>1, <2>3
<1>4. /\ DOMAIN Configs(m) = 1 .. n
      /\ \A i \in 1 .. n : Configs(m)[i].name = m.services[i].name
  BY <1>2 DEF Configs
<1>5. Configs(m) \in Seq(Config)
  <2>1. \A i \in 1 .. n :
          [name |-> m.services[i].name, deps |-> m.services[i].deps,
           mounts |-> m.services[i].mounts, project |-> m.project,
           digest |-> files[m.services[i].name]] \in Config
    BY <1>1, <1>3 DEF Config
  <2>2. Configs(m) \in [1 .. n -> Config]
    BY <1>2, <2>1 DEF Configs
  <2> QED BY <2>2
<1> QED BY <1>2, <1>4, <1>5 DEF Known

\* The names of the configs in an order.
LEMMA NamesInOrder ==
  ASSUME NEW configs \in Seq(Config), NEW names \in StartupOrders(configs)
  PROVE  \E order \in TopologicalOrders(configs) :
           /\ ~DependencyNotFound(configs)
           /\ names \in Seq(Names) /\ Len(names) = Len(configs)
           /\ \A i \in DOMAIN names : names[i] = configs[order[i]].name
<1>1. ~DependencyNotFound(configs)
  BY DEF StartupOrders
<1>2. PICK order \in TopologicalOrders(configs) :
        names = [p \in DOMAIN order |-> configs[order[p]].name]
  BY <1>1 DEF StartupOrders
<1>3. PICK n : n = Len(configs)
  OBVIOUS
<1>4. n \in Nat /\ order \in [1 .. n -> 1 .. n] /\ DOMAIN configs = 1 .. n
  <2>1. /\ Len(configs) \in Nat /\ DOMAIN configs = 1 .. Len(configs)
        /\ Permutes(order, Len(configs))
    <3>1. configs \in Seq(Config) /\ order \in TopologicalOrders(configs)
      OBVIOUS
    <3> QED BY ONLY <3>1, OrderFacts
  <2> QED BY <1>3, <2>1 DEF Permutes
<1>5. \A i \in 1 .. n : configs[order[i]].name \in Names
  <2>1. \A k \in 1 .. n : configs[k] \in Config
    BY <1>4, SeqFacts
  <2> QED BY <1>4, <2>1 DEF Config
<1>6. names \in [1 .. n -> Names]
  BY <1>2, <1>4, <1>5
<1>7. names \in Seq(Names) /\ Len(names) = n
  BY <1>4, <1>6
<1> QED BY <1>1, <1>2, <1>3, <1>4, <1>6, <1>7

\* The configs are put in an order, or cannot be used.
LEMMA DeployConfigsKept ==
  ASSUME IInv, DeployConfigs
  PROVE  IInv'
<1>1. /\ op.pc = "configs" /\ op.kind = "deploy" /\ op \in OpRecord /\ op.made = <<>>
      /\ op.mortar \in Mortars /\ DOMAIN services = op.before /\ Books
      /\ files \in [Names -> Code \cup {NoCode}]
      /\ UNCHANGED <<services, stored, projects, files, requests>>
  BY Parts DEF DeployConfigs, At, OpShape, Deploying
<1>2. CASE Finish(FALSE)
  <2>1. /\ op' \in OpRecord /\ op'.kind = "deploy" /\ op'.pc = "failed"
        /\ op'.mortar = op.mortar /\ op'.before = op.before
    BY <1>1, <1>2, Ended
  <2> QED BY <1>1, <2>1, EarlyKept
<1>3. CASE \E names \in StartupOrders(Configs(op.mortar)) :
             op' = [op EXCEPT !.pc = "create", !.todo = names, !.configs = Configs(op.mortar)]
  <2>1. PICK configs \in Seq(Config) : /\ configs = Configs(op.mortar)
                                      /\ Known(configs) = Known(op.mortar.services)
    BY <1>1, ConfigsAre
  <2>2. PICK names \in StartupOrders(configs) :
             op' = [op EXCEPT !.pc = "create", !.todo = names, !.configs = configs]
    BY <1>3, <2>1
  <2>3. PICK order \in TopologicalOrders(configs) :
          /\ ~DependencyNotFound(configs)
          /\ names \in Seq(Names) /\ Len(names) = Len(configs)
          /\ \A i \in DOMAIN names : names[i] = configs[order[i]].name
    BY <2>2, NamesInOrder
  <2>4. /\ op' \in OpRecord /\ op'.kind = "deploy" /\ op'.pc = "create" /\ op'.made = <<>>
        /\ op'.mortar = op.mortar /\ op'.before = op.before /\ op'.todo = names
        /\ op'.configs = configs
    <3>1. names \in Seq(Ids \cup Names \cup Volumes)
      BY <2>3
    <3> QED BY <1>1, <2>2, <3>1 DEF OpRecord, Points
  <2>5. OpShape' /\ Books'
    BY <1>1, <2>4, BooksLeft DEF OpShape
  <2>6. MadeOnly(op.made)'
    BY <1>1, <2>4 DEF MadeOnly, ToSet, NoneTwice
  <2>7. FollowsOrder(order)'
    <3>1. /\ Len(<<>>) = 0 /\ DOMAIN <<>> = {} /\ Len(names) \in Nat
          /\ \A i \in DOMAIN names : i \in Nat
      BY <2>3, SeqFacts
    <3>2. \A i \in DOMAIN names : 0 + i = i
      BY <3>1
    <3>3. Len(configs) = Len(<<>>) + Len(names)
      BY <2>3, <3>1
    <3>4. \A i \in DOMAIN names : names[i] = configs[order[Len(<<>>) + i]].name
      BY <2>3, <3>1, <3>2
    <3> QED BY <2>4, <3>1, <3>3, <3>4 DEF FollowsOrder
  <2>8. (\A i \in DOMAIN op.made :
            services[op.made[i]].deps = ConfigOf(services[op.made[i]].name).deps)'
    BY <2>4
  <2>9. (Known(op.configs) = Known(op.mortar.services))'
    BY <2>1, <2>4
  <2>10. (~DependencyNotFound(op.configs))'
    BY <2>3, <2>4
  <2>11. (\E o \in TopologicalOrders(op.configs) : FollowsOrder(o))'
    BY <2>4, <2>7
  <2>12. Deploying'
    BY <1>1, <2>4, <2>6, <2>8, <2>9, <2>10, <2>11 DEF Deploying
  <2> QED BY <1>1, <2>4, <2>5, <2>12, Parts
<1> QED BY <1>2, <1>3 DEF DeployConfigs

\* One more service of the order was made.
LEMMA OrderGoesOn ==
  ASSUME NEW S, NEW T, NEW made \in Seq(S), NEW todo \in Seq(T), todo # <<>>,
         NEW id \in S, NEW length, length = Len(made) + Len(todo),
         NEW now, NEW configs, NEW order,
         \A i \in DOMAIN made : now[made[i]].name = configs[order[i]].name,
         \A i \in DOMAIN todo : todo[i] = configs[order[Len(made) + i]].name,
         now[id].name = Head(todo)
  PROVE  /\ length = Len(Append(made, id)) + Len(Tail(todo))
         /\ \A i \in DOMAIN Append(made, id) :
              now[Append(made, id)[i]].name = configs[order[i]].name
         /\ \A i \in DOMAIN Tail(todo) :
              Tail(todo)[i] = configs[order[Len(Append(made, id)) + i]].name
<1>1. PICK n \in Nat, m \in Nat :
        /\ n = Len(todo) /\ m = Len(made) /\ n # 0
        /\ DOMAIN todo = 1 .. n /\ DOMAIN made = 1 .. m
        /\ Len(Tail(todo)) = n - 1 /\ DOMAIN Tail(todo) = 1 .. (n - 1)
        /\ Head(todo) = todo[1]
        /\ \A i \in DOMAIN Tail(todo) : Tail(todo)[i] = todo[i + 1]
  BY SeqFacts, HeadAndTail
<1>2. /\ Len(Append(made, id)) = m + 1 /\ Append(made, id)[m + 1] = id
      /\ DOMAIN Append(made, id) = (1 .. m) \cup {m + 1}
      /\ \A i \in 1 .. m : Append(made, id)[i] = made[i]
  BY <1>1, Appended
<1>3. length = Len(Append(made, id)) + Len(Tail(todo))
  BY <1>1, <1>2
<1>4. now[id].name = configs[order[m + 1]].name
  BY <1>1
<1>5. ASSUME NEW i \in 1 .. (n - 1)
      PROVE  Tail(todo)[i] = configs[order[(m + 1) + i]].name
  <2>1. i + 1 \in 1 .. n /\ m + (i + 1) = (m + 1) + i
    BY <1>1
  <2> QED BY <1>1, <2>1
<1> QED BY <1>1, <1>2, <1>3, <1>4, <1>5

\* The config of a name of the project.
LEMMA ConfigFound ==
  ASSUME op.configs \in Seq(Config), NEW name \in Known(op.configs)
  PROVE  \E i \in DOMAIN op.configs :
           ConfigOf(name) = op.configs[i] /\ op.configs[i].name = name
<1> DEFINE T == {i \in DOMAIN op.configs : op.configs[i].name = name}
<1>1. T # {} /\ T \in SUBSET Nat
  BY SeqFacts DEF Known
<1>2. PICK x \in T : \A y \in T : x <= y
  <2> HIDE DEF T
  <2> QED BY <1>1, LeastNumber
<1>3. PICK k : k = CHOOSE i \in DOMAIN op.configs :
               /\ op.configs[i].name = name
               /\ \A j \in DOMAIN op.configs : op.configs[j].name = name => i <= j
  OBVIOUS
<1>4. k \in DOMAIN op.configs /\ op.configs[k].name = name
  BY <1>2, <1>3
<1> QED BY <1>3, <1>4 DEF ConfigOf

\* A service of the project is created; or it cannot be, and those that were
\* are to be deleted.
LEMMA DeployServiceKept ==
  ASSUME IInv, DeployService
  PROVE  IInv'
<1>1. /\ op.pc = "create" /\ op.kind = "deploy" /\ op \in OpRecord /\ op.todo # <<>>
      /\ Deploying /\ Books /\ files \in [Names -> Code \cup {NoCode}]
      /\ MadeOnly(op.made) /\ UNCHANGED <<files, requests>>
  BY Parts DEF DeployService, At, OpShape, Deploying
<1>2. /\ op.todo \in Seq(Ids \cup Names \cup Volumes) /\ op.made \in Seq(Ids \cup Networks)
      /\ op.configs \in Seq(Config)
  BY <1>1, OpParts
<1>3. PICK order \in TopologicalOrders(op.configs) : FollowsOrder(order)
  BY <1>1 DEF Deploying
<1>4. Head(op.todo) \in Known(op.configs)
  <2>1. Head(op.todo) = op.todo[1] /\ 1 \in DOMAIN op.todo
    BY <1>2, <1>1, HeadAndTail, SeqFacts
  <2>2. Head(op.todo) = op.configs[order[Len(op.made) + 1]].name
    BY <1>3, <2>1 DEF FollowsOrder
  <2>3. Len(op.made) + 1 \in 1 .. Len(op.configs)
    <3>1. PICK n \in Nat, m \in Nat : /\ n = Len(op.todo) /\ m = Len(op.made)
                                      /\ DOMAIN op.todo = 1 .. n
      BY <1>2, SeqFacts
    <3>2. n >= 1
      BY <2>1, <3>1
    <3>3. m + 1 \in 1 .. (m + n)
      BY ONLY <3>2, m \in Nat, n \in Nat
    <3> QED BY <1>3, <3>1, <3>3 DEF FollowsOrder
  <2>4. order[Len(op.made) + 1] \in DOMAIN op.configs
    <3>1. /\ DOMAIN op.configs = 1 .. Len(op.configs)
          /\ Permutes(order, Len(op.configs))
      <4>1. op.configs \in Seq(Config) /\ order \in TopologicalOrders(op.configs)
        BY <1>2
      <4> QED BY ONLY <4>1, OrderFacts
    <3> QED BY <2>3, <3>1 DEF Permutes
  <2> QED BY <2>2, <2>4 DEF Known
<1>5. PICK config \in Config : config = ConfigOf(Head(op.todo)) /\ config.name = Head(op.todo)
  <2>1. PICK i \in DOMAIN op.configs : /\ ConfigOf(Head(op.todo)) = op.configs[i]
                                       /\ op.configs[i].name = Head(op.todo)
    BY <1>2, <1>4, ConfigFound
  <2>2. op.configs[i] \in Config
    BY <1>2, SeqFacts
  <2> QED BY <2>1, <2>2
<1>6. CASE ~Taken(config.name) /\ \E id \in Fresh :
             AddService(id, config)
             /\ op' = [op EXCEPT !.todo = Tail(@), !.made = Append(@, id)]
  <2>1. PICK id \in Fresh :
             AddService(id, config)
             /\ op' = [op EXCEPT !.todo = Tail(@), !.made = Append(@, id)]
    BY <1>6
  <2>2. /\ Books' /\ id \in Ids /\ id \notin DOMAIN services
        /\ DOMAIN services' = DOMAIN services \cup {id}
        /\ \A i \in DOMAIN services : services'[i] = services[i]
        /\ services'[id].name = config.name /\ services'[id].deps = config.deps
    BY <1>1, <1>6, <2>1, ServiceAdded
  <2>3. /\ Tail(op.todo) \in Seq(Ids \cup Names \cup Volumes)
        /\ Append(op.made, id) \in Seq(Ids \cup Networks)
        /\ ToSet(Append(op.made, id)) = ToSet(op.made) \cup {id}
        /\ DOMAIN Append(op.made, id) = DOMAIN op.made \cup {Len(op.made) + 1}
        /\ Append(op.made, id)[Len(op.made) + 1] = id
        /\ \A i \in DOMAIN op.made : Append(op.made, id)[i] = op.made[i]
    <3>1. Tail(op.todo) \in Seq(Ids \cup Names \cup Volumes)
      BY <1>1, <1>2, HeadAndTail
    <3>2. id \in Ids \cup Networks
      BY <2>2
    <3> QED BY <1>2, <3>1, <3>2, Appended
  <2>4. /\ op' \in OpRecord /\ op'.kind = "deploy" /\ op'.pc = "create"
        /\ op'.made = Append(op.made, id) /\ op'.todo = Tail(op.todo)
        /\ op'.mortar = op.mortar /\ op'.before = op.before /\ op'.configs = op.configs
    BY <1>1, <2>1, <2>3 DEF OpRecord
  <2>5. OpShape'
    BY <2>4 DEF OpShape
  <2>6. \A i \in DOMAIN op.made : op.made[i] \in DOMAIN services
    BY <1>1 DEF MadeOnly, ToSet
  <2>7. MadeOnly(op.made)'
    <3>1. /\ DOMAIN services = op.before \cup ToSet(op.made)
          /\ op.before \cap ToSet(op.made) = {} /\ NoneTwice(op.made)
      BY <1>1 DEF MadeOnly
    <3>2. id \notin ToSet(op.made) /\ id \notin op.before /\ id \in Ids \cup Networks
      BY <2>2, <3>1
    <3>3. NoneTwice(Append(op.made, id))
      BY <1>2, <3>1, <3>2, AppendNew
    <3> QED BY <2>2, <2>3, <2>4, <3>1, <3>2, <3>3 DEF MadeOnly
  <2>8. (\A i \in DOMAIN op.made :
            services[op.made[i]].deps = ConfigOf(services[op.made[i]].name).deps)'
    <3>1. \A name : ConfigOf(name)' = ConfigOf(name)
      BY <2>4 DEF ConfigOf
    <3>2. \A i \in DOMAIN op.made :
            services[op.made[i]].deps = ConfigOf(services[op.made[i]].name).deps
      BY <1>1 DEF Deploying
    <3>3. \A i \in DOMAIN op'.made :
            services'[op'.made[i]].deps = ConfigOf(services'[op'.made[i]].name).deps
      BY <1>5, <2>2, <2>3, <2>4, <2>6, <3>2
    <3> QED BY <3>1, <3>3
  <2>9. FollowsOrder(order)'
    <3>1. PICK made, todo, configs, now, length :
            /\ made = op.made /\ todo = op.todo /\ configs = op.configs
            /\ now = services' /\ length = Len(op.configs)
      OBVIOUS
    <3>2. /\ made \in Seq(Ids \cup Networks) /\ todo \in Seq(Ids \cup Names \cup Volumes)
          /\ todo # <<>> /\ id \in Ids \cup Networks /\ length = Len(made) + Len(todo)
          /\ \A i \in DOMAIN made : now[made[i]].name = configs[order[i]].name
          /\ \A i \in DOMAIN todo : todo[i] = configs[order[Len(made) + i]].name
          /\ now[id].name = Head(todo)
      BY <1>1, <1>2, <1>3, <1>5, <2>2, <2>6, <3>1 DEF FollowsOrder
    <3>3. /\ length = Len(Append(made, id)) + Len(Tail(todo))
          /\ \A i \in DOMAIN Append(made, id) :
               now[Append(made, id)[i]].name = configs[order[i]].name
          /\ \A i \in DOMAIN Tail(todo) :
               Tail(todo)[i] = configs[order[Len(Append(made, id)) + i]].name
      BY ONLY <3>2, OrderGoesOn
    <3> QED BY <2>4, <3>1, <3>3 DEF FollowsOrder
  <2>10. Deploying'
    <3>1. (~DependencyNotFound(op.configs))'
      BY <1>1, <2>4 DEF Deploying
    <3>2. (Known(op.configs) = Known(op.mortar.services))'
      BY <1>1, <2>4 DEF Deploying
    <3>3. (\E o \in TopologicalOrders(op.configs) : FollowsOrder(o))'
      BY <1>3, <2>4, <2>9
    <3>4. op'.mortar \in Mortars
      BY <1>1, <2>4 DEF Deploying
    <3> QED BY <2>4, <2>7, <2>8, <3>1, <3>2, <3>3, <3>4 DEF Deploying
  <2> QED BY <1>1, <2>2, <2>4, <2>5, <2>10, Parts
<1>7. CASE /\ op' = [op EXCEPT !.pc = "rollback", !.todo = Rollback(op.made)]
           /\ UNCHANGED <<services, stored, projects>>
  <2>1. op.made \in Seq(Ids \cup Names \cup Volumes)
    <3>1. \A i \in DOMAIN op.made : op.made[i] \in Ids
      BY <1>1 DEF MadeOnly, ToSet, Books
    <3>2. op.made \in Seq(Ids)
      BY <1>2, <3>1
    <3> QED BY <3>2
  <2>2. /\ op' \in OpRecord /\ op'.kind = "deploy" /\ op'.pc = "rollback"
        /\ op'.todo = op.made /\ op'.mortar = op.mortar /\ op'.before = op.before
    BY <1>1, <1>7, <2>1 DEF OpRecord, Points, Rollback
  <2>3. OpShape' /\ Books'
    BY <1>1, <1>7, <2>2, BooksLeft DEF OpShape
  <2>4. Deploying'
    BY <1>1, <1>7, <2>2 DEF Deploying, MadeOnly
  <2> QED BY <1>1, <2>2, <2>3, <2>4, Parts
<1> QED BY <1>5, <1>6, <1>7 DEF DeployService

\* One more of the services made is deleted again, or all are.
LEMMA RollBackKept ==
  ASSUME IInv, RollBack
  PROVE  IInv'
<1>1. /\ op.pc = "rollback" /\ op.kind = "deploy" /\ op \in OpRecord /\ Deploying /\ Books
      /\ op.mortar \in Mortars /\ MadeOnly(op.todo) /\ UNCHANGED <<files, requests>>
      /\ op.todo \in Seq(Ids \cup Names \cup Volumes)
  BY Parts, OpParts DEF RollBack, At, OpShape, Deploying
<1>2. CASE op.todo = <<>>
  <2>1. Finish(FALSE) /\ UNCHANGED <<services, stored, projects>>
    BY <1>2 DEF RollBack
  <2>2. /\ op' \in OpRecord /\ op'.kind = "deploy" /\ op'.pc = "failed"
        /\ op'.mortar = op.mortar /\ op'.before = op.before
    BY <1>1, <2>1, Ended
  <2>3. OpShape' /\ Books'
    BY <1>1, <2>1, <2>2, BooksLeft DEF OpShape
  <2>4. DOMAIN services = op.before
    BY <1>1, <1>2 DEF MadeOnly, ToSet
  <2>5. Deploying'
    BY <1>1, <2>1, <2>2, <2>4 DEF Deploying
  <2> QED BY <1>1, <2>2, <2>3, <2>5, Parts
<1>3. CASE op.todo # <<>>
  <2>1. PICK kept \in BOOLEAN : RemoveService(Head(op.todo), kept)
    BY <1>3 DEF RollBack
  <2>2. op' = [op EXCEPT !.todo = Tail(@)]
    BY <1>3 DEF RollBack
  <2>3. Books' /\ DOMAIN services' = DOMAIN services \ {Head(op.todo)}
    BY <1>1, <2>1, ServiceRemoved
  <2>4. /\ Tail(op.todo) \in Seq(Ids \cup Names \cup Volumes)
        /\ ToSet(op.todo) = {Head(op.todo)} \cup ToSet(Tail(op.todo))
    BY <1>1, <1>3, HeadAndTail
  <2>5. NoneTwice(Tail(op.todo)) /\ Head(op.todo) \notin ToSet(Tail(op.todo))
    BY <1>1, <1>3, TailNew DEF MadeOnly
  <2>6. /\ op' \in OpRecord /\ op'.kind = "deploy" /\ op'.pc = "rollback"
        /\ op'.todo = Tail(op.todo) /\ op'.mortar = op.mortar /\ op'.before = op.before
    BY <1>1, <2>2, <2>4 DEF OpRecord
  <2>7. OpShape'
    BY <2>6 DEF OpShape
  <2>8. MadeOnly(op.todo)'
    BY <1>1, <2>3, <2>4, <2>5, <2>6 DEF MadeOnly
  <2>9. Deploying'
    BY <1>1, <2>6, <2>8 DEF Deploying
  <2> QED BY <1>1, <2>3, <2>6, <2>7, <2>9, Parts
<1> QED BY <1>2, <1>3

\* When all services of an order were made their names are the names of the
\* configs, no two configs have one name, and no service needs a later one.
LEMMA AllMade ==
  ASSUME Books, NEW made \in Seq(Ids), NoneTwice(made), ToSet(made) \subseteq DOMAIN services,
         op.configs \in Seq(Config), ~DependencyNotFound(op.configs),
         Len(made) = Len(op.configs), NEW order \in TopologicalOrders(op.configs),
         \A i \in DOMAIN made : services[made[i]].name = op.configs[order[i]].name,
         \A i \in DOMAIN made : services[made[i]].deps = ConfigOf(services[made[i]].name).deps
  PROVE  /\ {services[made[i]].name : i \in DOMAIN made} = Known(op.configs)
         /\ \A i \in DOMAIN made : \A dep \in services[made[i]].deps :
              \E j \in 1 .. (i - 1) : services[made[j]].name = dep
<1>1. PICK n : n = Len(op.configs)
  OBVIOUS
<1>2. /\ n \in Nat /\ DOMAIN op.configs = 1 .. n /\ order \in [1 .. n -> 1 .. n]
      /\ DOMAIN made = 1 .. n
      /\ \A i, j \in 1 .. n : order[i] = order[j] => i = j
      /\ \A k \in 1 .. n : \E i \in 1 .. n : order[i] = k
  <2>1. /\ Len(op.configs) \in Nat /\ DOMAIN op.configs = 1 .. Len(op.configs)
        /\ Permutes(order, Len(op.configs))
    <3>1. op.configs \in Seq(Config) /\ order \in TopologicalOrders(op.configs)
      OBVIOUS
    <3> QED BY ONLY <3>1, OrderFacts
  <2>2. DOMAIN made = 1 .. Len(made)
    BY SeqFacts
  <2> QED BY <1>1, <2>1, <2>2 DEF Permutes
<1> PICK configs : configs = op.configs
  OBVIOUS
<1>3. \A k \in 1 .. n : \E i \in 1 .. n : order[i] = k
  BY <1>2
<1>4. \A i \in 1 .. n : order[i] \in 1 .. n /\ made[i] \in DOMAIN services
  BY <1>2 DEF ToSet
<1>5. \A i \in 1 .. n : services[made[i]].name = configs[order[i]].name
  BY <1>2
<1>6. NamesDiffer(configs)
  <2>1. SUFFICES ASSUME NEW a \in 1 .. n, NEW b \in 1 .. n,
                        configs[a].name = configs[b].name
                 PROVE  a = b
    BY <1>2 DEF NamesDiffer
  <2>2. PICK i \in 1 .. n : order[i] = a
    BY <1>3
  <2>3. PICK j \in 1 .. n : order[j] = b
    BY <1>3
  <2>4. services[made[i]].name = services[made[j]].name
    BY <1>5, <2>1, <2>2, <2>3
  <2>5. made[i] = made[j]
    BY <1>4, <2>4 DEF Books, NamesUnique
  <2> QED BY <1>2, <2>2, <2>3, <2>5 DEF NoneTwice
<1>7. DOMAIN made = 1 .. n /\ DOMAIN configs = 1 .. n
  BY <1>2
<1>8. \A i \in 1 .. n : services[made[i]].name \in Known(configs)
  BY <1>4, <1>5, <1>7 DEF Known
<1>9. {services[made[i]].name : i \in DOMAIN made} = Known(configs)
  <2>1. ASSUME NEW name \in Known(configs)
        PROVE  \E i \in DOMAIN made : services[made[i]].name = name
    <3>1. PICK k \in 1 .. n : configs[k].name = name
      BY <1>7 DEF Known
    <3>2. PICK i \in 1 .. n : order[i] = k
      BY <1>3
    <3> QED BY ONLY <1>5, <1>7, <3>1, <3>2
  <2> QED BY ONLY <1>7, <1>8, <2>1
<1>10. ASSUME NEW i \in 1 .. n, NEW dep \in services[made[i]].deps
       PROVE  \E j \in 1 .. (i - 1) : services[made[j]].name = dep
  <2>1. PICK name : name = services[made[i]].name /\ name = configs[order[i]].name
    BY <1>5
  <2>2. name \in Known(op.configs)
    BY <1>8, <2>1
  <2>3. PICK k \in 1 .. n : ConfigOf(name) = configs[k] /\ configs[k].name = name
    <3>1. PICK k \in DOMAIN op.configs :
            ConfigOf(name) = op.configs[k] /\ op.configs[k].name = name
      BY <2>2, ConfigFound
    <3> QED BY <1>7, <3>1
  <2>4. k = order[i]
    <3>1. k \in DOMAIN configs /\ order[i] \in DOMAIN configs
      BY <1>4, <1>7
    <3> QED BY ONLY <1>6, <2>1, <2>3, <3>1 DEF NamesDiffer
  <2>5. dep \in configs[order[i]].deps
    <3>1. services[made[i]].deps = ConfigOf(name).deps
      BY <1>7, <2>1
    <3> QED BY <1>10, <2>3, <2>4, <3>1
  <2>6. PICK j \in 1 .. (i - 1) : configs[order[j]].name = dep
    <3>1. /\ configs \in Seq(Config) /\ order \in TopologicalOrders(configs)
          /\ NamesDiffer(configs) /\ ~DependencyNotFound(configs)
          /\ i \in 1 .. Len(configs) /\ dep \in configs[order[i]].deps
      BY <1>1, <1>6, <2>5
    <3> QED BY ONLY <3>1, NeedsComeFirst
  <2>7. j \in 1 .. n
    BY <1>2, <2>6
  <2> QED BY <1>5, <2>6, <2>7
<1> QED BY <1>7, <1>9, <1>10

\* All services were made; they are started in the order they were made in.
LEMMA DeployCreatedKept ==
  ASSUME IInv, DeployCreated
  PROVE  IInv'
<1>1. /\ op.pc = "create" /\ op.kind = "deploy" /\ op \in OpRecord /\ Deploying /\ Books
      /\ op.todo = <<>> /\ op' = [op EXCEPT !.pc = "start", !.todo = op.made]
      /\ op.mortar \in Mortars /\ MadeOnly(op.made)
      /\ UNCHANGED <<services, stored, projects, files, requests>>
  BY Parts DEF DeployCreated, At, OpShape, Deploying
<1>2. op.made \in Seq(Ids \cup Networks) /\ op.configs \in Seq(Config)
  BY <1>1, OpParts
<1>3. op.made \in Seq(Ids)
  <2>1. \A i \in DOMAIN op.made : op.made[i] \in Ids
    BY <1>1 DEF MadeOnly, ToSet, Books
  <2> QED BY <1>2, <2>1
<1>4. PICK order \in TopologicalOrders(op.configs) : FollowsOrder(order)
  BY <1>1 DEF Deploying
<1>5. /\ {services[op.made[i]].name : i \in DOMAIN op.made} = Known(op.configs)
      /\ MadeInOrder
  <2>1. PICK made \in Seq(Ids) : made = op.made
    BY <1>3
  <2>2. NoneTwice(made) /\ ToSet(made) \subseteq DOMAIN services
    BY <1>1, <2>1 DEF MadeOnly
  <2>3. Len(made) = Len(op.configs)
    <3>1. Len(op.todo) = 0 /\ Len(made) \in Nat
      BY <1>1, <2>1, SeqFacts
    <3> QED BY <1>4, <2>1, <3>1 DEF FollowsOrder
  <2>4. /\ \A i \in DOMAIN made : services[made[i]].name = op.configs[order[i]].name
        /\ \A i \in DOMAIN made :
             services[made[i]].deps = ConfigOf(services[made[i]].name).deps
        /\ ~DependencyNotFound(op.configs)
    BY <1>1, <1>4, <2>1 DEF FollowsOrder, Deploying
  <2>5. /\ {services[made[i]].name : i \in DOMAIN made} = Known(op.configs)
        /\ \A i \in DOMAIN made : \A dep \in services[made[i]].deps :
             \E j \in 1 .. (i - 1) : services[made[j]].name = dep
    <3>1. Books /\ op.configs \in Seq(Config) /\ made \in Seq(Ids)
      BY <1>1, <1>2
    <3> QED BY ONLY <3>1, order \in TopologicalOrders(op.configs), <2>2, <2>3, <2>4, AllMade
  <2> QED BY <2>1, <2>5 DEF MadeInOrder
<1>6. /\ op' \in OpRecord /\ op'.kind = "deploy" /\ op'.pc = "start"
      /\ op'.made = op.made /\ op'.todo = op.made
      /\ op'.mortar = op.mortar /\ op'.before = op.before
  <2>1. op.made \in Seq(Ids \cup Names \cup Volumes)
    BY <1>3
  <2> QED BY <1>1, <2>1 DEF OpRecord, Points
<1>7. OpShape' /\ Books'
  <2>1. ToSet(op.made) \subseteq DOMAIN services
    BY <1>1 DEF MadeOnly
  <2> QED BY <1>1, <1>6, <2>1, BooksLeft DEF OpShape
<1>8. OnlyStates
  BY <1>1 DEF OnlyStates
<1>9. {services[op.made[i]].name : i \in DOMAIN op.made} = Known(op.mortar.services)
  BY <1>1, <1>5 DEF Deploying
<1>10. /\ MadeOnly(op.made)' /\ MadeInOrder'
       /\ {services'[op'.made[i]].name : i \in DOMAIN op'.made} = Known(op'.mortar.services)
  BY <1>1, <1>5, <1>6, <1>8, <1>9, MadeStays
<1>11. Through' = 0 /\ \A i \in DOMAIN op.made : i \in Nat
  BY <1>3, <1>6, SeqFacts DEF Through
<1>12. Deploying'
  <2>1. \A i \in DOMAIN op.made : 0 + i = i
    BY <1>11
  <2>2. 1 .. 0 = {}
    OBVIOUS
  <2> QED BY <1>1, <1>6, <1>10, <1>11, <2>1, <2>2 DEF Deploying
<1> QED BY <1>1, <1>6, <1>7, <1>12, Parts

\* The reverse of a startup order names every config, and what a name is
\* needed by does not come after it.
LEMMA ReverseOfOrder ==
  ASSUME NEW configs \in Seq(ServiceRecord), NamesDiffer(configs),
         NEW todo \in ShutdownOrders(configs)
  PROVE  /\ todo \in Seq(Names)
         /\ ToSet(todo) = Known(configs)
         /\ \A i, j \in DOMAIN todo : i <= j =>
              \A a, b \in DOMAIN configs :
                (configs[a].name = todo[i] /\ configs[b].name = todo[j]) =>
                  configs[a].name \notin configs[b].deps
<1>1. PICK names \in StartupOrders(configs) : todo = Reverse(names)
  BY DEF ShutdownOrders
<1>2. ~DependencyNotFound(configs)
  BY <1>1 DEF StartupOrders
<1>3. PICK order \in TopologicalOrders(configs) :
        names = [p \in DOMAIN order |-> configs[order[p]].name]
  BY <1>1, <1>2 DEF StartupOrders
<1>4. PICK n : n = Len(configs)
  OBVIOUS
<1>5. /\ n \in Nat /\ DOMAIN configs = 1 .. n /\ order \in [1 .. n -> 1 .. n]
      /\ \A i, j \in 1 .. n : order[i] = order[j] => i = j
      /\ \A k \in 1 .. n : \E i \in 1 .. n : order[i] = k
  <2>1. /\ Len(configs) \in Nat /\ DOMAIN configs = 1 .. Len(configs)
        /\ Permutes(order, Len(configs))
    <3>1. configs \in Seq(ServiceRecord) /\ order \in TopologicalOrders(configs)
      OBVIOUS
    <3> QED BY ONLY <3>1, OrderFacts
  <2> QED BY <1>4, <2>1 DEF Permutes
<1>6. \A k \in 1 .. n : configs[k].name \in Names
  <2>1. \A k \in 1 .. n : configs[k] \in ServiceRecord
    BY <1>5, SeqFacts
  <2> QED BY <2>1 DEF ServiceRecord
<1>7. /\ names \in [1 .. n -> Names]
      /\ \A i \in 1 .. n : order[i] \in 1 .. n /\ names[i] = configs[order[i]].name
  BY <1>3, <1>5, <1>6
<1>8. Len(names) = n
  BY <1>5, <1>7
<1>9. /\ todo \in [1 .. n -> Names] /\ DOMAIN todo = 1 .. n
      /\ \A i \in 1 .. n : (n - i) + 1 \in 1 .. n /\ todo[i] = names[(n - i) + 1]
  <2>1. \A i \in 1 .. n : (n - i) + 1 \in 1 .. n
    BY <1>5
  <2>2. todo = [i \in 1 .. n |-> names[(n - i) + 1]]
    BY <1>1, <1>8 DEF Reverse
  <2> QED BY <1>7, <2>1, <2>2
<1>10. todo \in Seq(Names)
  BY <1>5, <1>9
<1>11. ToSet(todo) = Known(configs)
  <2>1. ASSUME NEW i \in 1 .. n PROVE \E k \in DOMAIN configs : todo[i] = configs[k].name
    <3>1. todo[i] = configs[order[(n - i) + 1]].name /\ order[(n - i) + 1] \in 1 .. n
      BY <1>7, <1>9
    <3> QED BY <1>5, <3>1
  <2>2. ASSUME NEW k \in 1 .. n PROVE \E i \in DOMAIN todo : todo[i] = configs[k].name
    <3>1. PICK q \in 1 .. n : order[q] = k
      BY <1>5
    <3>2. (n - q) + 1 \in 1 .. n /\ (n - ((n - q) + 1)) + 1 = q
      BY <1>5
    <3>3. todo[(n - q) + 1] = names[q]
      BY <1>9, <3>2
    <3> QED BY <1>7, <1>9, <3>1, <3>2, <3>3
  <2>3. ToSet(todo) \subseteq Known(configs)
    BY ONLY <1>9, <2>1 DEF ToSet, Known
  <2>4. Known(configs) \subseteq ToSet(todo)
    <3>1. DOMAIN configs = 1 .. n
      BY <1>5
    <3> QED BY ONLY <2>2, <3>1 DEF ToSet, Known
  <2> QED BY <2>3, <2>4
<1>12. ASSUME NEW i \in 1 .. n, NEW j \in 1 .. n, i <= j,
              NEW a \in 1 .. n, NEW b \in 1 .. n,
              configs[a].name = todo[i], configs[b].name = todo[j],
              configs[a].name \in configs[b].deps
       PROVE  FALSE
  <2>1. PICK x \in 1 .. n, y \in 1 .. n : x = (n - i) + 1 /\ y = (n - j) + 1 /\ y <= x
    BY <1>5, <1>9, <1>12
  <2>2. configs[a].name = configs[order[x]].name /\ configs[b].name = configs[order[y]].name
    BY <1>7, <1>9, <1>12, <2>1
  <2>3. a = order[x] /\ b = order[y]
    BY <1>5, <1>7, <2>2 DEF NamesDiffer
  <2>4. PICK name : name = configs[a].name /\ name \in configs[order[y]].deps
    BY <1>12, <2>3
  <2>5. PICK z \in 1 .. (y - 1) : configs[order[z]].name = name
    <3>1. /\ configs \in Seq(ServiceRecord) /\ order \in TopologicalOrders(configs)
          /\ NamesDiffer(configs) /\ ~DependencyNotFound(configs)
          /\ y \in 1 .. Len(configs) /\ name \in configs[order[y]].deps
      BY <1>2, <1>4, <2>4
    <3> QED BY ONLY <3>1, NeedsComeFirst
  <2>6. z \in 1 .. n /\ z < x
    BY <1>5, <2>1, <2>5
  <2>7. order[z] = a
    <3>1. order[z] \in DOMAIN configs /\ a \in DOMAIN configs
      BY <1>5, <1>7, <2>6
    <3> QED BY ONLY <2>4, <2>5, <3>1, NamesDiffer(configs) DEF NamesDiffer
  <2> QED BY <1>5, <2>3, <2>6, <2>7
<1> QED BY <1>5, <1>9, <1>10, <1>11, <1>12

\* The services of a project are to be stopped and deleted, or are in no
\* order.
LEMMA TeardownRequestedKept ==
  ASSUME IInv, NEW p \in Projects, TeardownRequested(p)
  PROVE  IInv'
<1> DEFINE there == Retain(projects[p], DOMAIN services)
           configs == [i \in DOMAIN there |-> services[there[i]]]
<1>1. /\ Books /\ UNCHANGED <<services, stored, projects, files, requests>>
  BY Parts DEF TeardownRequested
<1>2. Books'
  BY <1>1, BooksLeft
<1>3. CASE op' = [Operation("teardown", "failed") EXCEPT !.mortar = p]
  <2>1. PICK o \in OpRecord : /\ o = Operation("teardown", "failed")
                              /\ o.kind = "teardown" /\ o.pc = "failed" /\ o.todo = <<>>
    <3>1. Operation("teardown", "failed").todo = <<>>
      BY DEF Operation
    <3> QED BY <1>1, <3>1, Begun DEF Kinds, Points
  <2>2. /\ op' \in OpRecord /\ op'.kind = "teardown" /\ op'.pc = "failed" /\ op'.mortar = p
        /\ op'.todo = <<>>
    <3>1. op' = [o EXCEPT !.mortar = p]
      BY <1>3, <2>1
    <3> QED BY <2>1, <3>1 DEF OpRecord
  <2>3. OpShape'
    BY <2>2 DEF OpShape
  <2>4. TearingDown'
    BY <2>2 DEF TearingDown, ToSet
  <2> QED BY <1>1, <1>2, <2>2, <2>3, <2>4, Parts
<1>4. CASE \E order \in ShutdownOrders(configs) :
             op' = [Operation("teardown", "teardown") EXCEPT !.mortar = p, !.todo = order]
  <2>1. PICK todo \in ShutdownOrders(configs) :
             op' = [Operation("teardown", "teardown") EXCEPT !.mortar = p, !.todo = todo]
    BY <1>4
  <2>2. /\ projects[p] \in Seq(Ids) /\ NoneTwice(projects[p])
        /\ ToSet(projects[p]) \cap DOMAIN services = Of(p)
        /\ Of(p) \subseteq DOMAIN services /\ services \in [DOMAIN services -> ServiceRecord]
    BY <1>1 DEF Books, ProjectsAgree, Of
  <2>3. there \in Seq(Ids) /\ ToSet(there) = Of(p) /\ NoneTwice(there)
    <3>1. PICK seq \in Seq(Ids) : seq = projects[p]
      BY <2>2
    <3>2. /\ Retain(seq, DOMAIN services) \in Seq(Ids)
          /\ ToSet(Retain(seq, DOMAIN services)) = ToSet(seq) \cap DOMAIN services
          /\ NoneTwice(seq) => NoneTwice(Retain(seq, DOMAIN services))
      BY ONLY seq \in Seq(Ids), Retained
    <3> QED BY <2>2, <3>1, <3>2
  <2> HIDE DEF there
  <2>4. /\ DOMAIN configs = DOMAIN there
        /\ \A i \in DOMAIN there : there[i] \in DOMAIN services /\ configs[i] = services[there[i]]
    BY <2>2, <2>3 DEF ToSet
  <2>5. configs \in Seq(ServiceRecord)
    <3>1. Len(there) \in Nat /\ DOMAIN there = 1 .. Len(there)
      BY <2>3, SeqFacts
    <3>2. configs \in [1 .. Len(there) -> ServiceRecord]
      BY <2>2, <2>4, <3>1
    <3> HIDE DEF configs
    <3> QED BY <3>1, <3>2
  <2> HIDE DEF configs
  <2>6. NamesDiffer(configs)
    <3>1. SUFFICES ASSUME NEW i \in DOMAIN there, NEW j \in DOMAIN there,
                          configs[i].name = configs[j].name
                   PROVE  i = j
      BY <2>4 DEF NamesDiffer
    <3>2. there[i] = there[j]
      BY <1>1, <2>4, <3>1 DEF Books, NamesUnique
    <3> QED BY <2>3, <3>2 DEF NoneTwice
  <2>7. /\ todo \in Seq(Names)
        /\ ToSet(todo) = Known(configs)
        /\ \A i, j \in DOMAIN todo : i <= j =>
             \A a, b \in DOMAIN configs :
               (configs[a].name = todo[i] /\ configs[b].name = todo[j]) =>
                 configs[a].name \notin configs[b].deps
    BY <2>5, <2>6, ReverseOfOrder
  <2>8. \A id \in Of(p) : \E i \in DOMAIN configs : there[i] = id /\ configs[i] = services[id]
    BY <2>3, <2>4 DEF ToSet
  <2>9. \A id \in Of(p) : services[id].name \in ToSet(todo)
    BY <2>7, <2>8 DEF Known
  <2>10. ASSUME NEW id \in DOMAIN services, services[id].name \in ToSet(todo)
         PROVE  id \in Of(p)
    <3>1. PICK i \in DOMAIN configs : configs[i].name = services[id].name
      BY <2>7, <2>10 DEF Known
    <3>2. there[i] = id
      BY <1>1, <2>4, <3>1 DEF Books, NamesUnique
    <3> QED BY <2>3, <2>4, <3>2 DEF ToSet
  <2>11. ASSUME NEW i \in DOMAIN todo, NEW j \in DOMAIN todo, i <= j,
                NEW a \in DOMAIN services, NEW b \in DOMAIN services,
                services[a].name = todo[i], services[b].name = todo[j]
         PROVE  services[a].name \notin services[b].deps
    <3>1. a \in Of(p) /\ b \in Of(p)
      BY <2>10, <2>11 DEF ToSet
    <3>2. PICK x \in DOMAIN configs : configs[x] = services[a]
      BY <2>8, <3>1
    <3>3. PICK y \in DOMAIN configs : configs[y] = services[b]
      BY <2>8, <3>1
    <3> QED BY <2>7, <2>11, <3>2, <3>3
  <2>12. /\ op' \in OpRecord /\ op'.kind = "teardown" /\ op'.pc = "teardown"
         /\ op'.mortar = p /\ op'.todo = todo
    <3>1. PICK o \in OpRecord : /\ o = Operation("teardown", "teardown")
                                /\ o.kind = "teardown" /\ o.pc = "teardown"
      BY <1>1, Begun DEF Kinds, Points
    <3>2. op' = [o EXCEPT !.mortar = p, !.todo = todo]
      BY <2>1, <3>1
    <3>3. todo \in Seq(Ids \cup Names \cup Volumes)
      BY <2>7
    <3> QED BY <3>1, <3>2, <3>3 DEF OpRecord
  <2>13. OpShape'
    BY <2>12 DEF OpShape
  <2>14. TearingDown'
    <3>1. Of(p)' = Of(p)
      BY <1>1 DEF Of
    <3>2. (\A id \in Of(op.mortar) :
             services[id].name \in ToSet(op.todo) \/ services[id].state = "stopping")'
      BY <1>1, <2>9, <2>12, <3>1
    <3>3. (\A id \in DOMAIN services :
             services[id].name \in ToSet(op.todo) => id \in Of(op.mortar))'
      BY <1>1, <2>10, <2>12, <3>1
    <3>4. (\A i, j \in DOMAIN op.todo : i <= j =>
             \A a, b \in DOMAIN services :
               (services[a].name = op.todo[i] /\ services[b].name = op.todo[j]) =>
                 services[a].name \notin services[b].deps)'
      BY <1>1, <2>11, <2>12
    <3> QED BY <2>12, <3>2, <3>3, <3>4 DEF TearingDown, Live
  <2> QED BY <1>1, <1>2, <2>12, <2>13, <2>14, Parts
<1> QED BY <1>3, <1>4 DEF TeardownRequested

-----------------------------------------------------------------------------
(* Every step *)

\* The initial state.
LEMMA Initially == Init => IInv
<1> SUFFICES ASSUME Init PROVE IInv
  OBVIOUS
<1> USE DEF Init
<1>1. DOMAIN services = {} /\ services \in [{} -> ServiceRecord]
  BY DEF NoServices
<1>2. IsFiniteSet({})
  BY FS_EmptySet
<1>3. ProjectsAgree
  BY <1>1 DEF ProjectsAgree, Of, ToSet, NoneTwice
<1>4. Books
  BY <1>1, <1>2, <1>3 DEF Books, NamesUnique
<1>5. op \in OpRecord /\ op.kind = "idle" /\ op.pc = "idle"
  BY <1>4, NothingBegun
<1>6. OpShape
  BY <1>5 DEF OpShape
<1> QED BY <1>4, <1>5, <1>6, Parts

\* The steps.
LEMMA StepKept ==
  ASSUME IInv, [Next]_vars
  PROVE  IInv'
<1>1. CASE \E n \in Names : ReadModule(n)
  BY <1>1, ReadModuleKept
<1>2. CASE \E n \in Names, c \in Code, nets \in SUBSET Networks : Upload(n, c, nets)
  BY <1>2, UploadKept
<1>3. CASE \E r \in requests : CreateRequested(r)
  BY <1>3, CreateRequestedKept
<1>4. CASE \E kind \in {"start", "stop", "delete"}, id \in DOMAIN services : Requested(kind, id)
  BY <1>4, RequestedKept
<1>5. CASE \E m \in Mortars : DeployRequested(m)
  BY <1>5, DeployRequestedKept
<1>6. CASE \E p \in Projects : TeardownRequested(p)
  BY <1>6, TeardownRequestedKept
<1>7. CASE StartBegin \/ StartEnd \/ StartsDone
  BY <1>7, StartBeginKept, StartEndKept, StartsDoneKept
<1>8. CASE StopBegin \/ StopEnd \/ DeleteService \/ TeardownNext
  BY <1>8, StopBeginKept, StopEndKept, DeleteServiceKept, TeardownNextKept
<1>9. CASE DeployNetwork \/ DeployVolume \/ GetVolume \/ DeployConfigs
  BY <1>9, DeployNetworkKept, DeployVolumeKept, GetVolumeKept, DeployConfigsKept
<1>10. CASE DeployService \/ RollBack \/ DeployCreated
  BY <1>10, DeployServiceKept, RollBackKept, DeployCreatedKept
<1>11. CASE Answer \/ HangUp
  BY <1>11, AnsweredKept DEF Answer, HangUp
<1>12. CASE Restart
  BY <1>12, RestartKept
<1>13. CASE (\E v \in Volumes : DeleteVolume(v)) \/ (\E n \in Networks : ToggleNetwork(n))
  <2>1. UNCHANGED <<services, stored, projects, files, requests, op>>
    BY <1>13 DEF DeleteVolume, ToggleNetwork
  <2> QED BY <2>1, Parts, AroundKept
<1>14. CASE UNCHANGED vars
  <2>1. UNCHANGED <<services, stored, projects, files, requests, op>>
    BY <1>14 DEF vars
  <2> QED BY <2>1, Parts, AroundKept
<1> QED BY <1>1, <1>2, <1>3, <1>4, <1>5, <1>6, <1>7, <1>8, <1>9, <1>10, <1>11, <1>12,
           <1>13, <1>14 DEF Next

\* What IInv says holds in every state: the books about services and projects,
\* how far a deployment is in the startup order, and what a teardown has left.
THEOREM Invariant == Spec => []IInv
<1>1. Init => IInv
  BY Initially
<1>2. IInv /\ [Next]_vars => IInv'
  BY StepKept
<1> QED BY <1>1, <1>2, PTL DEF Spec

\* Two services never have one name, whoever creates them.
THEOREM NamesStayUnique == Spec => []NamesUnique
<1>1. IInv => NamesUnique
  BY DEF IInv
<1> QED BY <1>1, Invariant, PTL

\* mortar_projects lists every service of a project that is there, once, and
\* none of another: the ids of deleted services it keeps do no harm.
THEOREM ProjectsStayInStep == Spec => []ProjectsAgree
<1>1. IInv => ProjectsAgree
  BY DEF IInv
<1> QED BY <1>1, Invariant, PTL

\* A failed deployment leaves the services it found; one that succeeds made
\* and tried to start all of the file.
THEOREM DeploysAllOrNothing == Spec => []DeployAllOrNothing
<1>1. ASSUME IInv PROVE DeployAllOrNothing
  <2>1. SUFFICES ASSUME op.kind = "deploy"
                 PROVE  /\ At("failed") => DOMAIN services = op.before
                        /\ At("ok") =>
                             LET made == DOMAIN services \ op.before IN
                             /\ {services[id].name : id \in made} = Known(op.mortar.services)
                             /\ \A id \in made : Live(id) # "creating"
    BY DEF DeployAllOrNothing
  <2>2. Deploying
    BY <1>1, <2>1 DEF IInv
  <2>3. At("failed") => DOMAIN services = op.before
    BY <2>2 DEF Deploying, At
  <2>4. ASSUME At("ok")
        PROVE  LET made == DOMAIN services \ op.before IN
               /\ {services[id].name : id \in made} = Known(op.mortar.services)
               /\ \A id \in made : Live(id) # "creating"
    <3>1. DOMAIN services \ op.before = {op.made[i] : i \in DOMAIN op.made}
      BY <2>2, <2>4 DEF Deploying, At, MadeOnly, ToSet
    <3>2. /\ {services[op.made[i]].name : i \in DOMAIN op.made} = Known(op.mortar.services)
          /\ \A i \in DOMAIN op.made : Live(op.made[i]) # "creating"
      BY <2>2, <2>4 DEF Deploying, At
    <3>3. {services[id].name : id \in DOMAIN services \ op.before} =
            {services[op.made[i]].name : i \in DOMAIN op.made}
      BY <3>1
    <3> QED BY <3>1, <3>2, <3>3
  <2> QED BY <2>3, <2>4
<1> QED BY <1>1, Invariant, PTL

\* After a teardown that succeeded no service of the project is left, but
\* for one that an interrupted stop had left in Stopping.
THEOREM TornDownStaysGone == Spec => []TornDownIsGone
<1>1. ASSUME IInv PROVE TornDownIsGone
  BY <1>1 DEF IInv, TornDownIsGone, TearingDown, At, ToSet
<1> QED BY <1>1, Invariant, PTL

-----------------------------------------------------------------------------
(* What a step does to the services *)

\* The steps that leave every service as it is.
LeavesServices ==
  \/ \E n \in Names : ReadModule(n)
  \/ \E n \in Names, c \in Code, nets \in SUBSET Networks : Upload(n, c, nets)
  \/ \E kind \in {"start", "stop", "delete"}, id \in DOMAIN services : Requested(kind, id)
  \/ \E m \in Mortars : DeployRequested(m)
  \/ \E p \in Projects : TeardownRequested(p)
  \/ StartsDone \/ DeployNetwork \/ DeployVolume \/ GetVolume \/ DeployConfigs
  \/ DeployCreated \/ Answer \/ HangUp
  \/ \E v \in Volumes : DeleteVolume(v)
  \/ \E n \in Networks : ToggleNetwork(n)
  \/ UNCHANGED vars

LEMMA ServicesLeft == LeavesServices => UNCHANGED services
BY DEF LeavesServices, ReadModule, Upload, Requested, DeployRequested, TeardownRequested,
   StartsDone, DeployNetwork, DeployVolume, GetVolume, DeployConfigs, DeployCreated, Answer,
   HangUp, DeleteVolume, ToggleNetwork, vars

\* The steps, and whose services they are about.
LEMMA StepIs ==
  ASSUME [Next]_vars
  PROVE  \/ LeavesServices
         \/ StartBegin \/ StartEnd \/ StopBegin \/ StopEnd \/ TeardownNext
         \/ (\E r \in requests : CreateRequested(r)) \/ DeployService
         \/ RollBack \/ DeleteService \/ Restart
<1>1. CASE \E n \in Names : ReadModule(n)
  BY <1>1 DEF LeavesServices
<1>2. CASE \E n \in Names, c \in Code, nets \in SUBSET Networks : Upload(n, c, nets)
  BY <1>2 DEF LeavesServices
<1> QED BY <1>1, <1>2 DEF Next, LeavesServices

\* A service that exists before and after a step, and changes, is the one
\* its action works on.
LEMMA WhatChanges ==
  ASSUME IInv, [Next]_vars, NEW id \in DOMAIN services \cap DOMAIN services',
         services'[id] # services[id]
  PROVE  \/ StartBegin /\ op.todo # <<>> /\ id = Head(op.todo)
         \/ StartEnd /\ id = op.at
         \/ StopBegin /\ id = op.at
         \/ StopEnd /\ id = op.at /\ services'[id].state = "stopped"
         \/ TeardownNext /\ op.todo # <<>> /\ services[id].name = Head(op.todo)
<1>1. ~ UNCHANGED services
  OBVIOUS
<1>2. ASSUME NEW new \in Fresh, NEW config, AddService(new, config)
      PROVE  FALSE
  BY <1>2 DEF AddService, Fresh
<1>3. ASSUME NEW old, NEW kept, RemoveService(old, kept)
      PROVE  FALSE
  BY <1>3 DEF RemoveService, Restrict
<1>4. ASSUME NEW i \in DOMAIN services, NEW s, SetState(i, s), i # id
      PROVE  FALSE
  BY <1>4 DEF SetState
<1>5. CASE StartBegin
  BY <1>1, <1>4, <1>5, Works DEF StartBegin, At
<1>6. CASE StartEnd
  BY <1>4, <1>6, Works DEF StartEnd, At
<1>7. CASE StopBegin
  BY <1>1, <1>4, <1>7, Works DEF StopBegin, At
<1>8. CASE StopEnd
  <2>1. op.at \in DOMAIN services /\ SetState(op.at, "stopped")
    BY <1>8, Works DEF StopEnd, At
  <2>2. id = op.at
    BY <1>4, <2>1
  <2>3. services[id] \in ServiceRecord /\ services'[id] = [services[id] EXCEPT !.state = "stopped"]
    BY <2>1, <2>2, Parts DEF Books, SetState
  <2>4. services'[id].state = "stopped"
    BY <2>3 DEF ServiceRecord
  <2> QED BY <1>8, <2>2, <2>4
<1>9. CASE TeardownNext
  BY <1>1, <1>4, <1>9 DEF TeardownNext
<1>10. CASE Restart
  BY <1>10 DEF Restart, NoServices
<1>11. CASE \E r \in requests : CreateRequested(r)
  BY <1>1, <1>2, <1>11 DEF CreateRequested
<1>12. CASE DeployService
  BY <1>1, <1>2, <1>12 DEF DeployService
<1>13. CASE RollBack \/ DeleteService
  BY <1>1, <1>3, <1>13 DEF RollBack, DeleteService
<1>14. CASE LeavesServices
  BY <1>1, <1>14, ServicesLeft
<1> QED BY <1>5, <1>6, <1>7, <1>8, <1>9, <1>10, <1>11, <1>12, <1>13, <1>14, StepIs

\* A service that is not there after a step was deleted.
LEMMA WhatGoes ==
  ASSUME IInv, [Next]_vars, NEW id \in DOMAIN services, id \notin DOMAIN services'
  PROVE  (DeleteService /\ id = op.at) \/ RollBack \/ Restart
<1>1. DOMAIN services' # DOMAIN services
  OBVIOUS
<1>2. ASSUME NEW i, NEW s, SetState(i, s) PROVE DOMAIN services' = DOMAIN services
  BY <1>2 DEF SetState
<1>3. ASSUME NEW new, NEW config, AddService(new, config) PROVE id \in DOMAIN services'
  BY <1>3 DEF AddService
<1>4. CASE StartBegin \/ StartEnd \/ StopBegin \/ StopEnd \/ TeardownNext
  BY <1>1, <1>2, <1>4 DEF StartBegin, StartEnd, StopBegin, StopEnd, TeardownNext
<1>5. CASE \E r \in requests : CreateRequested(r)
  BY <1>1, <1>3, <1>5 DEF CreateRequested
<1>6. CASE DeployService
  BY <1>1, <1>3, <1>6 DEF DeployService
<1>7. CASE DeleteService
  <2>1. PICK kept \in BOOLEAN : RemoveService(op.at, kept)
    BY <1>1, <1>7 DEF DeleteService
  <2>2. DOMAIN services' = DOMAIN services \ {op.at}
    BY <2>1 DEF RemoveService, Restrict
  <2> QED BY <1>7, <2>2
<1>8. CASE LeavesServices
  BY <1>1, <1>8, ServicesLeft
<1> QED BY <1>4, <1>5, <1>6, <1>7, <1>8, StepIs

\* A service made by a deployment is started after those it needs.
LEMMA StartsInOrder ==
  ASSUME IInv, [Next]_vars, op.kind = "deploy", NEW id \in DOMAIN services \cap DOMAIN services',
         Live(id) = "creating", services'[id].state = "starting",
         NEW dep \in DOMAIN services, services[dep].name \in services[id].deps
  PROVE  Live(dep) # "creating"
<1>1. Deploying /\ op \in OpRecord /\ Books /\ OpShape
  BY Parts
<1>2. op.pc = "start" /\ op.todo # <<>> /\ id = Head(op.todo)
  <2>1. ~ StopBegin /\ ~ TeardownNext
    BY <1>1 DEF StopBegin, TeardownNext, At, OpShape
  <2>2. StartEnd => Live(op.at) # "creating"
    BY <1>1 DEF StartEnd, At, Deploying
  <2> QED BY <2>1, <2>2, WhatChanges DEF Live, StartBegin, At
<1>3. /\ Through >= 0 /\ \A i \in DOMAIN op.todo : op.todo[i] = op.made[Through + i]
      /\ \A i \in 1 .. Through : Live(op.made[i]) # "creating"
      /\ MadeOnly(op.made) /\ MadeInOrder
  BY <1>1, <1>2 DEF Deploying
<1>4. PICK n \in Nat, m \in Nat : /\ n = Len(op.todo) /\ m = Len(op.made) /\ n # 0
                                  /\ DOMAIN op.todo = 1 .. n /\ DOMAIN op.made = 1 .. m
  BY <1>1, <1>2, OpParts, SeqFacts
<1>5. PICK t \in Nat : t = Through /\ t = m - n
  <2>1. Through = m - n /\ m - n >= 0
    BY <1>3, <1>4 DEF Through
  <2>2. m - n \in Nat
    BY ONLY <2>1, m \in Nat, n \in Nat
  <2> QED BY <2>1, <2>2
<1>6. id = op.made[t + 1] /\ t + 1 \in DOMAIN op.made
  <2>1. Head(op.todo) = op.todo[1]
    BY <1>1, <1>2, OpParts, HeadAndTail
  <2>2. 1 \in 1 .. n /\ t + 1 \in 1 .. m
    <3>1. n # 0
      BY <1>4
    <3> QED BY ONLY <1>5, <3>1, m \in Nat, n \in Nat, t \in Nat
  <2> QED BY <1>2, <1>3, <1>4, <1>5, <2>1, <2>2
<1>7. PICK j \in 1 .. ((t + 1) - 1) : services[op.made[j]].name = services[dep].name
  BY <1>3, <1>6 DEF MadeInOrder
<1>8. j \in 1 .. t /\ j \in DOMAIN op.made
  <2>1. j \in 1 .. t /\ j \in 1 .. m
    BY ONLY <1>5, j \in 1 .. ((t + 1) - 1), m \in Nat, n \in Nat, t \in Nat
  <2> QED BY <1>4, <2>1
<1>9. op.made[j] \in DOMAIN services
  BY <1>3, <1>8 DEF MadeOnly, ToSet
<1>10. op.made[j] = dep
  BY <1>1, <1>7, <1>9 DEF Books, NamesUnique
<1> QED BY <1>3, <1>5, <1>8, <1>10

\* In every deployment the dependencies of a service are started, or have
\* failed to, before it is.
THEOREM StartsFollowDependencies == Spec => DependenciesStartFirst
<1>1. ASSUME IInv, [Next]_vars
      PROVE  [\A id \in DOMAIN services \cap DOMAIN services' :
               (op.kind = "deploy" /\ Live(id) = "creating" /\ Live(id)' = "starting") =>
                 \A dep \in Of(services[id].project) :
                   services[dep].name \in services[id].deps => Live(dep) # "creating"]_vars
  <2>1. ASSUME NEW id \in DOMAIN services \cap DOMAIN services', op.kind = "deploy",
               Live(id) = "creating", Live(id)' = "starting",
               NEW dep \in Of(services[id].project), services[dep].name \in services[id].deps
        PROVE  Live(dep) # "creating"
    <3>1. services'[id].state = "starting" /\ dep \in DOMAIN services
      BY <2>1 DEF Live, Of
    <3> QED BY <1>1, <2>1, <3>1, StartsInOrder
  <2> QED BY <2>1
<1> QED BY <1>1, Invariant, PTL DEF Spec, DependenciesStartFirst

\* A teardown stops or deletes the service of the next name on its list.
LEMMA WhatIsTornDown ==
  ASSUME IInv, [Next]_vars, op.kind = "teardown", op' # NoOp, NEW id \in DOMAIN services,
         id \in DOMAIN services' => Live(id) # "stopping" /\ services'[id].state = "stopping"
  PROVE  op.pc # "failed" /\ op.todo # <<>> /\ services[id].name = Head(op.todo)
<1>1. TearingDown /\ op \in OpRecord /\ Books /\ OpShape
  BY Parts
<1>2. CASE id \in DOMAIN services'
  <2>1. services'[id] # services[id]
    BY <1>2 DEF Live
  <2>2. ~ StartBegin /\ ~ StartEnd /\ ~ StopBegin
    BY <1>1 DEF StartBegin, StartEnd, StopBegin, At, OpShape
  <2>3. TeardownNext /\ op.todo # <<>> /\ services[id].name = Head(op.todo)
    BY <1>2, <2>1, <2>2, WhatChanges
  <2> QED BY <2>3 DEF TeardownNext, At
<1>3. CASE id \notin DOMAIN services'
  <2>1. DeleteService /\ id = op.at
    <3>1. ~ RollBack /\ ~ Restart
      BY <1>1 DEF RollBack, Restart, At, OpShape
    <3> QED BY <1>3, <3>1, WhatGoes
  <2> QED BY <1>1, <2>1 DEF DeleteService, At, TearingDown
<1> QED BY <1>2, <1>3

\* A teardown never stops or deletes a service that a running service of the
\* project needs.
THEOREM TeardownFollowsDependencies == Spec => TeardownKeepsDependencies
<1>1. ASSUME IInv, [Next]_vars
      PROVE  [\A id \in DOMAIN services :
               (op.kind = "teardown" /\ op' # NoOp
                  /\ (id \in DOMAIN services' =>
                        Live(id) # "stopping" /\ Live(id)' = "stopping")) =>
                 \A user \in Of(services[id].project) :
                   services[id].name \in services[user].deps => Live(user) \notin CanStop]_vars
  <2>1. ASSUME NEW id \in DOMAIN services, op.kind = "teardown", op' # NoOp,
               id \in DOMAIN services' => Live(id) # "stopping" /\ Live(id)' = "stopping",
               NEW user \in Of(services[id].project),
               services[id].name \in services[user].deps
        PROVE  Live(user) \notin CanStop
    <3>1. op.pc # "failed" /\ op.todo # <<>> /\ services[id].name = Head(op.todo)
      <4>1. id \in DOMAIN services' =>
              Live(id) # "stopping" /\ services'[id].state = "stopping"
        BY <2>1 DEF Live
      <4> QED BY <1>1, <2>1, <4>1, WhatIsTornDown
    <3>2. TearingDown /\ op.todo \in Seq(Ids \cup Names \cup Volumes)
      BY <1>1, <2>1, Parts, OpParts
    <3>3. /\ Head(op.todo) \in ToSet(op.todo) /\ Head(op.todo) = op.todo[1]
          /\ 1 \in DOMAIN op.todo /\ \A j \in DOMAIN op.todo : 1 <= j
      BY <3>1, <3>2, HeadAndTail, SeqFacts
    <3>4. id \in Of(op.mortar)
      BY <2>1, <3>1, <3>2, <3>3 DEF TearingDown
    <3>5. user \in Of(op.mortar) /\ user \in DOMAIN services
      BY <2>1, <3>4 DEF Of
    <3>6. CASE services[user].name \in ToSet(op.todo)
      <4>1. PICK j \in DOMAIN op.todo : op.todo[j] = services[user].name
        BY <3>6 DEF ToSet
      <4>2. services[id].name \notin services[user].deps
        BY <3>1, <3>2, <3>3, <3>5, <4>1 DEF TearingDown
      <4> QED BY <2>1, <4>2
    <3>7. CASE Live(user) = "stopping"
      BY <3>7 DEF CanStop
    <3> QED BY <3>1, <3>2, <3>5, <3>6, <3>7 DEF TearingDown
  <2> QED BY <2>1
<1> QED BY <1>1, Invariant, PTL DEF Spec, TeardownKeepsDependencies

=============================================================================
